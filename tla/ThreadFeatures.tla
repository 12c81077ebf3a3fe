-------------------------- MODULE ThreadFeatures --------------------------
(***************************************************************************)
(* dataarray of source/tools/u0.cpp: the features of a program that Fini   *)
(* writes to output5.csv, one row for each thread in thlist, in            *)
(* hundredths.  The array has NTHREADS rows; a program that starts more    *)
(* threads, at once or not, makes Fini write past it.                      *)
(***************************************************************************)
EXTENDS ThreadModel, Functions

CONSTANT NTHREADS

ASSUME ThreadFeaturesAssumption == NTHREADS \in Nat \ {0}

\* A count of zero is reported as 0.15, and as 0.35 in the second column.
Feature(count, none) == IF count = 0 THEN none ELSE 100 * count

LenOf(f, t) == IF t \in DOMAIN f THEN Len(f[t]) ELSE 0

GlobalUpdates(t) ==
  SumFunction([ip \in glist |->
                 Cardinality({i \in DOMAIN globalinmap[ip] : globalinmap[ip][i] = t})])

\* The columns that hold a count for each thread, and start and exit.
Row(t) ==
  [create |-> Feature(LenOf(createmap, t), 15),
   signal |-> Feature(LenOf(signalmap, t), 15),
   wait   |-> Feature(LenOf(condmap, t), 15),
   global |-> Feature(GlobalUpdates(t), 15),
   join   |-> Feature(IF t \in DOMAIN joinmap THEN joinmap[t].join ELSE 0, 15),
   start  |-> IF t \in DOMAIN startmap THEN 10 * startmap[t] ELSE 15,
   exit   |-> IF t \in DOMAIN joinmap /\ joinmap[t].exit > 0 THEN 10 * joinmap[t].exit
              ELSE 15]

\* The columns that are the same in all rows.
TotalCreate == Feature(SumFunction([t \in DOMAIN createmap |-> Len(createmap[t])]), 35)

TotalGlobals == Feature(Cardinality(glist), 15)

Fits == Len(thlist) <= NTHREADS

Rows == [j \in 1..Len(thlist) |-> Row(thlist[j])]

\* The sum of what is counted in a column.
Total(col) ==
  SumFunction([j \in DOMAIN Rows |-> IF Rows[j][col] = 15 THEN 0 ELSE Rows[j][col]])

-----------------------------------------------------------------------------

\* The rows account for every call of the program exactly once, and agree with
\* the total, as long as the array holds them and no id is used again: then
\* the row of that id is there twice.
RowsAddUp ==
  Fits /\ ~reused =>
    /\ \A call \in Calls :
         Total(call) = 100 * SumFunction(made[call])
    /\ Total("global") = 100 * SumFunction([ip \in glist |-> Len(globalinmap[ip])])
    /\ TotalGlobals = 15 <=> Total("global") = 0
    /\ TotalCreate = IF Total("create") = 0 THEN 35 ELSE Total("create")

=============================================================================
