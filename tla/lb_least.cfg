SPECIFICATION Spec
CONSTANTS
  Addrs = {a1, a2}
  Handlers = {h1, h2, h3}
  Least = TRUE
PROPERTIES
  LeastConnections
