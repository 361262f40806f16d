------------------------------ MODULE MCDecide ------------------------------
(* Instances of Decide for TLC: every boundary of the algorithm once (the   *)
(* loads 50/51 and 80/81, the priorities where the penalty of a load or the *)
(* bonus of a used SDR reverses the order, a profile that ends with the     *)
(* range, a range that ends beyond it, two profiles that both do).          *)
EXTENDS Decide

Profiles == [wide   |-> [center_freq |-> 10, sample_rate |-> 8],
             narrow |-> [center_freq |-> 10, sample_rate |-> 4],
             far    |-> [center_freq |-> 20, sample_rate |-> 4]]

SdrsOf(priorities) ==
  {[failed |-> st = "failed", disabled |-> st = "disabled", priority |-> pr,
    has_users |-> cur # "nobody", profiles |-> Profiles,
    cur_profile_id |-> IF cur = "nobody" THEN "wide" ELSE cur] :
     st \in {"failed", "disabled", "fine"}, pr \in priorities,
     cur \in {"nobody", "wide", "narrow", "far"}}

Loads == {[responding |-> FALSE, priority |-> 100, cpu |-> 0]} \union
         [responding : {TRUE}, priority : {0, 100}, cpu : {50, 51, 80, 81}] \union
         [responding : {TRUE}, priority : {120}, cpu : {51}]

ServerOf(load, sdrs) ==
  [responding |-> load.responding, priority |-> load.priority, cpu |-> load.cpu,
   sdrs |-> sdrs]

OneSdrEach ==
  {[s1 |-> ServerOf(l1, [d1 |-> a]), s2 |-> ServerOf(l2, [d2 |-> b])] :
     l1 \in Loads, l2 \in {l \in Loads : l.priority # 0 /\ l.cpu < 81},
     a \in SdrsOf({0, 95}), b \in {x \in SdrsOf({100}) : x.has_users => ~x.failed}}

Ranges == {[start_freq |-> 8, end_freq |-> 12], [start_freq |-> 6, end_freq |-> 13],
           [start_freq |-> 10, end_freq |-> 16]}

FailedSets == {{}, {"d1"}}
=============================================================================
