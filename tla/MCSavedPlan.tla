------------------------------ MODULE MCSavedPlan ------------------------------
(***************************************************************************)
(* Saved plans where they are used: in the jobs of a shared backend, on    *)
(* several stacks; in jobs whose clocks differ, with two projects and two  *)
(* commits; and at a desk, on a local backend.  A behaviour is one of      *)
(* SavedPlan that stays in one of these places, within its bounds.         *)
(***************************************************************************)
EXTENDS SavedPlan

CONSTANTS a, b, c1, c2, main, other, desk

MCStackLists == {<<a>>, <<a, b>>}

Bound == [
  shared |-> [places |-> {main}, lists |-> MCStackLists, offsets |-> {0},
              commits |-> {c1}, stacks |-> {a, b},
              clock |-> 0, version |-> 4, events |-> 2,
              commands |-> {"plan", "up-plan", "refresh", "preview script",
                            "drift script", "drift"}],
  clocks |-> [places |-> {main, other}, lists |-> {<<a>>}, offsets |-> Offsets,
              commits |-> Commits, stacks |-> {a},
              clock |-> MaxClock, version |-> 2, events |-> 1,
              commands |-> {"plan", "up-plan"}],
  local |-> [places |-> {desk}, lists |-> MCStackLists, offsets |-> {0},
             commits |-> {c1}, stacks |-> {a, b},
             clock |-> 1, version |-> 2, events |-> 1,
             commands |-> Commands]]

VARIABLE part   \* which of them

(* What is bounded in each of them.                                        *)
Within ==
  LET B == Bound[part] IN
  /\ clock <= B.clock /\ events <= B.events /\ commit \in B.commits
  /\ \A at \in Places \X Stacks :
        checkpoint[at] <= IF at \in B.places \X B.stacks THEN B.version ELSE 0
  /\ proc # Idle =>
        /\ proc.command \in B.commands /\ proc.place \in B.places
        /\ proc.stacks \in B.lists /\ proc.offset \in B.offsets
        /\ proc.selected \in B.stacks \cup {"none"}

MCInit == part \in DOMAIN Bound /\ Init /\ Within
MCNext == Next /\ UNCHANGED part /\ Within'
MCSpec == MCInit /\ [][MCNext]_<<vars, part>>
================================================================================
