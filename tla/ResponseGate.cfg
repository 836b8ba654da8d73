CONSTANTS
    Calls = {c1}
    Processes = {p1, p2}
    Operators = {"op@", "analyst@"}
    Keys = {k1}
    KeyTenant <- MCKeyTenant
    Endpoints = {"broker:execute", "none"}
    Edited = {"analyst@"}
    Granted = {"incident_responder"}
    TokenLife = 1
    MaxTime = 1
    MaxTokens = 1
    MaxCalls = 1
    MaxEdits = 2
    MaxStarts = 2
    Bodies <- MCBodies
SPECIFICATION GateSpec
INVARIANTS
  HandlersAuthorized
  ActionsAuthorized
  PolicySound
  StartsSound

  
CHECK_DEADLOCK FALSE
