SPECIFICATION Spec
CONSTANTS
  v1 = v1
  v2 = v2
  t0 = t0
  t2 = t2
  src = src
  main = main
  fixed = fixed
  variadic = variadic
  Nil = Nil
  Plain = {v1, v2}
  Tuples = {t0, t2}
  Iterators = {src}
  Elements <- MCElements
  Functions = {main, fixed, variadic}
  Shape <- MCShape
  Main = main
  Lists <- MCLists
  Targets <- MCTargets
  MaxDepth = 3
  MaxExtras = 3
INVARIANTS FramesExact IteratorsExact
