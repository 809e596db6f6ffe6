SPECIFICATION Spec
CONSTANTS
  d = d
  m = m
  v1 = v1
  v2 = v2
  v3 = v3
  NoRun = NoRun
  Run = {d, m}
  Variant = {v1, v2, v3}
  Starts <- Again
  Prompt <- SamePrompt
  Watched = {d}
  Lab = {}
  Limits = {1, 2}
  Faults = {}
PROPERTIES CacheReplaysImages
