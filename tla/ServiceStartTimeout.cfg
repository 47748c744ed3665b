SPECIFICATION MCSpec
CONSTANTS
  web = web
  db = db
  Services = {web, db}
  Project = project
  MaxReplicas = 2
  DbReplicas = {0, 2}
  DbHealthcheck = TRUE
  Wait = TRUE
  Timeout = TRUE
  Interrupt = FALSE
INVARIANTS WaitIsKept
