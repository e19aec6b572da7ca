----------------------------- MODULE MCQuerySide ------------------------------
(* The parts that answer queries, each by itself: TLC checks them in one run.  *)
EXTENDS ContextLane, TLC

CONSTANTS
    Threads, sfMaxRetries, MaxGeneration, Paths, Contents, ovMaxEdits,
    ovMaxGeneration, MaxLives

VARIABLES
    part, generation, slot, flights, sfPc, pin, key, mine, first, sfTries,
    sfAnswer, base, ovGen, tree, edits, rows, changed, bound, ovPc, asked,
    authority, session, ovRead, todo, ovAnswer, life

Flight == INSTANCE SingleFlight WITH
    MaxRetries <- sfMaxRetries, pc <- sfPc, tries <- sfTries, answer <- sfAnswer
Overlay == INSTANCE WorktreeOverlay WITH
    MaxEdits <- ovMaxEdits, MaxGeneration <- ovMaxGeneration, gen <- ovGen,
    pc <- ovPc, read <- ovRead, answer <- ovAnswer

ASSUME PartAssumption ==
    /\ Flight!FlightAssumption
    /\ Overlay!OverlayAssumption

flightVars ==
    <<generation, slot, flights, sfPc, pin, key, mine, first, sfTries, sfAnswer>>
overlayVars ==
    <<base, ovGen, tree, edits, rows, changed, bound, ovPc, asked, authority,
      session, ovRead, todo, ovAnswer, life>>

\* One of the parts runs.
PartInit ==
    /\ part \in {"context", "flight", "overlay"}
    /\ Init /\ Flight!Init /\ Overlay!Init

PartNext ==
    \/ part = "context" /\ Next
       /\ UNCHANGED <<part, flightVars, overlayVars>>
    \/ part = "flight" /\ Flight!Next
       /\ UNCHANGED <<part, vars, overlayVars>>
    \/ part = "overlay" /\ Overlay!Next
       /\ UNCHANGED <<part, vars, flightVars>>

PartVars == <<part, vars, flightVars, overlayVars>>

\* Each part is as fair as it is by itself.
PartSpec ==
    /\ PartInit /\ [][PartNext]_PartVars
    /\ \A r \in Readers : WF_vars(part = "context" /\ Step(r))
    /\ \A t \in Threads : WF_flightVars(part = "flight" /\ Flight!Step(t))

(* The variables of the parts have their types. *)
PartTypes ==
    CASE part = "context" -> TypeOK
      [] part = "flight"  -> Flight!TypeOK
      [] part = "overlay" -> Overlay!TypeOK

(* SingleFlight: a caller is answered with what was read of its own generation. *)
OneGeneration == part = "flight" => Flight!OneGeneration

(* SingleFlight: every call comes back. *)
CallsReturn == Flight!CallsReturn

(* WorktreeOverlay: an answer is of one publication of the base. *)
AnswersOfOneBase == part = "overlay" => Overlay!AnswersOfOneBase
===============================================================================
