-------------------------- MODULE SecretaryMoves --------------------------
(***************************************************************************)
(* One secretary that lives, moves to the Cloud and is brought home: the   *)
(* move sessions and the return sessions over the same portable copies.    *)
(***************************************************************************)
EXTENDS MoveSession, ReturnSession

CONSTANTS
    MoveScenes   \* the situations to explore, each a record of
                 \*   begins: "local", "cloud" or "surrendered",
                 \*   stir:   what the secretary does meanwhile, a subset of
                 \*           {"live", "work", "ask", "terminal"},
                 \*   lived:  bound on the commits of its life,
                 \*   pasted: the <<install, return>> where URLs may be pasted

ASSUME MovesAssumption ==
    /\ Home # Cloud /\ Moves \cap Returns = {}
    /\ \A s \in MoveScenes : \/ s.begins \in {"local", "cloud"}
                             \/ s.begins = "surrendered" /\ Moves # {}

VARIABLE scene   \* the situation of this behaviour

(* The secretary begins on its Local install; or in the Cloud, bound to    *)
(* its human, with the Local slot empty; or in the Cloud after the move    *)
(* that left a surrendered copy behind on the Local install.               *)
FirstMove == CHOOSE m \in Moves : TRUE
Begins(how) ==
    CASE how = "local" -> [p \in Places |-> IF p = Home THEN ActiveCopy(FALSE) ELSE AbsentCopy]
      [] how = "cloud" -> [p \in Places |-> IF p = Cloud THEN ActiveCopy(TRUE) ELSE AbsentCopy]
      [] how = "surrendered" ->
            LET left == CompletedCopy(SealedCopy(ActiveCopy(FALSE), FirstMove, Cloud), FirstMove)
                came == StagedCopy(AbsentCopy, Bundle(SealedCopy(ActiveCopy(FALSE), FirstMove, Cloud),
                                                      FirstMove), Nothing)
            IN [p \in Places |-> CASE p = Home -> left
                                   [] p = Cloud -> [ActivatedCopy(came, FirstMove) EXCEPT !.human = TRUE]
                                   [] OTHER -> AbsentCopy]

MovesInit ==
    /\ scene \in MoveScenes
    /\ LET how == scene.begins IN
          /\ copy = Begins(how)
          /\ msess = [m \in Moves |-> IF how = "surrendered" /\ m = FirstMove
                                      THEN [NoSession EXCEPT !.st = "activated", !.src = Home]
                                      ELSE NoSession]
          /\ account = (how # "local")
          /\ mover = IF how = "surrendered"
                     THEN [NoMove EXCEPT !.rec = FirstMove, !.bound = TRUE, !.outcome = "completed"]
                     ELSE NoMove
          /\ upload = {}
    /\ ReturnInit

LifeNext ==
    \/ /\ \E p \in Places :
             \/ "live" \in scene.stir /\ copy[p].lived < scene.lived /\ Live(p)
             \/ "work" \in scene.stir /\ Work(p)
             \/ "ask" \in scene.stir /\ Ask(p)
       /\ UNCHANGED <<moveVars, returnVars>>
    \/ /\ "terminal" \in scene.stir
       /\ TerminalAttach \/ TerminalDetach
       /\ UNCHANGED moveVars
MovesNext ==
    /\ \/ LifeNext
       \/ MoveNext /\ UNCHANGED returnVars
       \/ ReturnNext /\ UNCHANGED moveVars
    /\ \A l \in Locals : returner'[l].rec # returner[l].rec => <<l, returner'[l].rec>> \in scene.pasted
    /\ \A r \in Returns : rsess'[r].st # "none" => r \in {x[2] : x \in scene.pasted}
    /\ UNCHANGED scene

movesVars == <<copy, moveVars, returnVars, scene>>
MovesSpec == MovesInit /\ [][MovesNext]_movesVars

(* The fairness of a move: the Cloud's sweep runs, deadlines pass, the     *)
(* command is run again after it stopped, and each of its steps, tried     *)
(* over and over, is not interrupted every single time.                    *)
Alone(A) == A /\ UNCHANGED <<returnVars, scene>>
MoveFairness ==
    /\ WF_movesVars(Alone(MoveResume))
    /\ \A m \in Moves : WF_movesVars(Alone(MoveSweep(m))) /\ WF_movesVars(Alone(MoveDeadline(m)))
    /\ WF_movesVars(Alone(UploadNext))
    /\ SF_movesVars(Alone(DriveFetch)) /\ SF_movesVars(Alone(UploadAdmit))
    /\ SF_movesVars(Alone(MoveComplete)) /\ SF_movesVars(Alone(MoveAbort))
    /\ SF_movesVars(Alone(RequestRetire)) /\ SF_movesVars(Alone(MoveWait))
MovesFairSpec == MovesSpec /\ MoveFairness

-----------------------------------------------------------------------------
(* One type invariant for the composition. *)
MovesTypeOK == copy \in [Places -> Copies] /\ MoveTypeOK /\ ReturnTypeOK

(* Whatever the movers, the sessions and their crashes do, at most one     *)
(* placement may run the secretary (portable Seal, Activate, Abort).       *)
OneActive == Cardinality({p \in Places : copy[p].auth = "active"}) <= 1

(* The placement that runs the secretary holds the newest life and the     *)
(* highest writer generation of all copies: no bundle, retry or reclaim    *)
(* brings back an older state or lets an old runtime's lease be current.   *)
ActiveIsNewest ==
    \A p, q \in Places : copy[p].auth = "active" =>
        copy[q].lived <= copy[p].lived /\ copy[q].epoch <= copy[p].epoch

(* The secretary runs at one placement at most, on its newest state.       *)
OneNewestActive == OneActive /\ ActiveIsNewest

(* The two ledgers of a transfer never decide differently: the source      *)
(* surrenders only what its destination activated, and takes back only     *)
(* what its destination retired.                                           *)
LedgersAgree ==
    \A p \in Places, t \in Transfers :
        LET e == copy[p].exp[t] IN
        /\ e.st = "completed" => copy[e.dest].imp[t].st = "activated"
        /\ e.st = "aborted" => copy[e.dest].imp[t].st = "retired"

(* From the seal of a local-mode return to its end nothing may change the  *)
(* workspace being copied: the barrier is up and no terminal writer runs   *)
(* (bindAndSeal fences before it seals; quiesceTerminalWriters).           *)
SealedSourceIsStill ==
    \A r \in Returns : LocalMode(r) /\ copy[Cloud].exp[r].st \in {"sealed", "completed"} =>
        barrier.up /\ (copy[Cloud].auth = "sealed" => term = "none")

(* Every seal ends: the copy that was sealed for the move runs again or is *)
(* surrendered to the Cloud, where it runs.                                *)
SealEnds == copy[Home].auth = "sealed" ~> copy[Home].auth # "sealed"
=============================================================================
