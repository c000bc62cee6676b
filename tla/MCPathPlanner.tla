----------------------------- MODULE MCPathPlanner -----------------------------
(* The planner's oracle with none, one or two flaws at a time. *)
EXTENDS PlannerOracle

UpToTwoFlaws == {{}} \cup {{x, y} : x, y \in Flaws}
===============================================================================
