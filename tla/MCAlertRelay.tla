---------------------------- MODULE MCAlertRelay ----------------------------
(* Batches of the first group: a data source that failed for two rules and *)
(* recovered for a third; an alert whose summary has two lines.  Of the    *)
(* second: an alert that is invalid beside one that is not.                *)
EXTENDS AlertRelay

CONSTANTS g1, g2

Alert(rule, source, status, text, valid) ==
  [rule |-> rule, source |-> source, status |-> status, text |-> text,
   valid |-> valid]

const_Batches ==
  [g \in Groups |->
     IF g = g1
     THEN {{Alert(1, "db", "firing", "plain", TRUE),
            Alert(2, "db", "firing", "plain", TRUE),
            Alert(3, "db", "resolved", "plain", TRUE)},
           {Alert(4, NoSource, "firing", "two lines", TRUE)}}
     ELSE {{Alert(5, NoSource, "firing", "plain", TRUE),
            Alert(6, NoSource, "firing", "plain", FALSE)}}]
const_Editions == [g \in Groups |-> IF g = g1 THEN 2 ELSE 1]
=============================================================================
