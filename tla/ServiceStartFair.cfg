SPECIFICATION MCFairSpec
CONSTANTS
  web = web
  db = db
  Services = {web, db}
  Project = project
  MaxReplicas = 1
  DbReplicas = {0, 1}
  DbHealthcheck = TRUE
  Wait = TRUE
  Timeout = TRUE
  Interrupt = TRUE
PROPERTIES StartTerminates
