--------------------------- MODULE AggregateStore ---------------------------
(***************************************************************************)
(* What the artist repository promises: a stream of facts per artist, a    *)
(* load that returns the fold of all of them at one moment, and a save     *)
(* that adds facts to the stream its caller loaded, or nothing.            *)
(***************************************************************************)
EXTENDS ArtistFacts

CONSTANT Callers

VARIABLES history, \* history[a]: the facts of artist a
          held     \* held[c]: the artist, version and state a caller works on

agVars == <<history, held>>

Nothing == [artist |-> "none", version |-> 0, state |-> Unborn]

\* Streams that were there before, and nobody at work.
AGInit == history \in [Artists -> Seq(Facts)] /\ held = [c \in Callers |-> Nothing]

AGLoad(c) ==
    /\ \E a \in Artists :
          held' = [held EXCEPT ![c] = [artist |-> a, version |-> Len(history[a]),
                                       state |-> Folded(history[a])]]
    /\ UNCHANGED history

AGSave(c) ==
    LET a == held[c].artist
    IN  /\ a \in Artists /\ held[c].version = Len(history[a])
        /\ \E facts \in {<<f>> : f \in Facts} \cup (Facts \X Facts) :
              history' = [history EXCEPT ![a] = @ \o facts]
        /\ held' = [held EXCEPT ![c] = Nothing]

AGLeave(c) == held' = [held EXCEPT ![c] = Nothing] /\ UNCHANGED history

AGNext == \E c \in Callers : AGLoad(c) \/ AGSave(c) \/ AGLeave(c)
AGSpec == AGInit /\ [][AGNext]_agVars
=============================================================================
