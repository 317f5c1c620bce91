----------------------------- MODULE MCSessions -----------------------------
(* Model checking of terminals and calls.  A terminal's session and its    *)
(* output meet only in the claim under which output is appended, a call's  *)
(* registry and a secretary's visit only in LiveKit: a behaviour follows   *)
(* one of the four and leaves the others at rest.  A terminal is either    *)
(* typed into, or its secretary is sealed for a return.                    *)
EXTENDS TerminalSession, TerminalOutput, CallRegistry, CallSession

VARIABLE follows   \* the component this behaviour follows

SessionsInit ==
    /\ follows \in {"typing", "closing", "output", "registry", "visit"}
    /\ TermInit /\ OutputInit /\ RegistryInit
    /\ CallInit
    /\ follows # "output" => ~live.on

SessionsNext ==
    /\ UNCHANGED follows
    /\ \/ follows = "typing" /\ TermNext /\ authority' = "active"
          /\ UNCHANGED <<outputVars, registryVars, callVars>>
       \/ follows = "closing" /\ TermNext /\ UNCHANGED ledger
          /\ UNCHANGED <<outputVars, registryVars, callVars>>
       \/ follows = "output" /\ OutputNext
          /\ UNCHANGED <<termVars, registryVars, callVars>>
       \/ follows = "registry" /\ RegistryNext
          /\ UNCHANGED <<termVars, outputVars, callVars>>
       \/ follows = "visit" /\ CallNext
          /\ UNCHANGED <<termVars, outputVars, registryVars>>

SessionsSpec == SessionsInit /\ [][SessionsNext]_<<follows, termVars, outputVars,
                                                   registryVars, callVars>>

(* A call shows who is in it, its speech ledger is true, and the secretary *)
(* is in the room under its current claim (call.go, call_sessions.go).     *)
CallsTrue == RosterIsTheRoom /\ SpeechLedgerTrue /\ RoomHoldsCurrentEpoch
=============================================================================
