----------------------------- MODULE MCUdsServer -----------------------------
(* Requests for the runs of UdsServer. *)
EXTENDS UdsServer

Ask(si, arg, addr, suppress) ==
    [si |-> si, arg |-> arg, addr |-> addr, suppress |-> suppress]

Extended == Ask("DSC", "extended", "PHYS", FALSE)
DefaultSession == Ask("DSC", "default", "PHYS", FALSE)
KeepAlive == Ask("TP", "ok", "FUNC", TRUE)
LongRoutine == Ask("RC", "routine1", "PHYS", FALSE)

\* What the services of the example server tell apart.
Mixed ==
    {Extended, DefaultSession, KeepAlive, LongRoutine,
     Ask("DSC", "programming", "FUNC", FALSE),
     Ask("RDBI", "did2200", "PHYS", FALSE),
     Ask("RC", "routine1", "FUNC", TRUE)}

Errors ==
    {Ask("DSC", "badSubFunc", "PHYS", FALSE), Ask("DSC", "short", "FUNC", FALSE),
     Ask("DSC", "programming", "FUNC", TRUE), Ask("TP", "badSubFunc", "FUNC", TRUE),
     Ask("TP", "badLength", "PHYS", FALSE), Ask("RDBI", "badLength", "FUNC", FALSE),
     Ask("RC", "routine2", "FUNC", FALSE), Ask("RC", "badSubFunc", "FUNC", FALSE),
     Ask("RC", "unknown", "FUNC", FALSE), Ask("other", "any", "FUNC", FALSE),
     Ask("other", "any", "PHYS", FALSE), Ask("response", "any", "PHYS", FALSE),
     Ask("invalid", "any", "PHYS", FALSE), Ask("RDBI", "unknown", "FUNC", FALSE),
     LongRoutine, Extended}

Few == {Extended, DefaultSession, LongRoutine}
UnknownDid == {Ask("RDBI", "unknown", "PHYS", FALSE)}
NoSids == {}
RoutineControl == {"RC"}
=============================================================================
