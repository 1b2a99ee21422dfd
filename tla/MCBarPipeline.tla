---------------------------- MODULE MCBarPipeline ----------------------------
(* Two windows of two minutes after a minute before the opening.            *)
EXTENDS BarPipeline

Bar1(id, source, start, received, level) ==
  [id |-> id, instrument |-> "i", source |-> source, start |-> start, received |-> received,
   complete |-> TRUE, marks |-> {}, level |-> level, volume |-> 1]

\* A late minute, a correction, another received at the same instant with a burst of
\* volume, one that jumps, one before the opening that a minute in the session jumps
\* from, one of another source, and one that the vendor stamped too early and marks as
\* incomplete.
MCObservation ==
  { Bar1(1, "s", 1, 2, 50), Bar1(2, "s", 2, 3, 50), Bar1(3, "s", 2, 4, 52),
    [Bar1(9, "s", 2, 4, 53) EXCEPT !.volume = 20],
    Bar1(4, "s", 3, 4, 50), Bar1(5, "s", 4, 5, 80), Bar1(6, "s", 0, 5, 10),
    Bar1(7, "t", 2, 3, 50), [Bar1(8, "s", 1, 1, 50) EXCEPT !.complete = FALSE] }

MCSession == [open |-> 1, close |-> 5]
MCWindow == {[start |-> 1, end |-> 5], [start |-> 1, end |-> 3]}

\* Batches of three bars; fewer are loaded when a later one is out of scope or refused.
MCNext ==
  \/ \E o \in Observation : IngestBar(o) \/ IngestRaises(o)
  \/ \E batch \in kSubset(3, Observation), window \in Window :
       LoadHistory(batch, "i", window)
  \/ Tick

MCSpec == Init /\ [][MCNext]_vars

=============================================================================
