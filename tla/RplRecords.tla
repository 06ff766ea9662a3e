------------------------------ MODULE RplRecords ------------------------------
(***************************************************************************)
(* The contents of the RPL records of gnrc_rpl.c: instances, dags and      *)
(* parents each write a JSON array, with one element for each RPL instance *)
(* in use, or for each parent of its DODAG.  RPL itself, which joins and   *)
(* leaves instances and adds and drops parents, is external.  A text is    *)
(* the sequence of its elements and commas.  ReportRecords writes them.    *)
(***************************************************************************)
EXTENDS Integers, Sequences, FiniteSets, SequencesExt

CONSTANTS
  Instances,   \* GNRC_RPL_INSTANCES_NUMOF
  MaxParents   \* bound: parents of a DODAG

ASSUME RplAssumption == Instances \in Nat \ {0} /\ MaxParents \in Nat

VARIABLE parents   \* the number of parents of each instance; -1 when not in use

RplTypeOK == parents \in [1..Instances -> -1..MaxParents]
RplInit   == parents = [i \in 1..Instances |-> -1]

-----------------------------------------------------------------------------
(* RPL's own operations.                                                   *)

Join(i)  == parents[i] = -1 /\ parents' = [parents EXCEPT ![i] = 0]
Leave(i) == parents[i] # -1 /\ parents' = [parents EXCEPT ![i] = -1]
Adopt(i) == parents[i] \in 0..MaxParents - 1 /\ parents' = [parents EXCEPT ![i] = @ + 1]
Drop(i)  == parents[i] > 0 /\ parents' = [parents EXCEPT ![i] = @ - 1]

RplStep == \E i \in 1..Instances : Join(i) \/ Leave(i) \/ Adopt(i) \/ Drop(i)

-----------------------------------------------------------------------------
(* The texts.                                                              *)

ArrayKinds == {"instances", "dags", "parents"}
Text       == Seq({"element", "comma"})

\* Mutant: a comma after every element.
ListTrailing(n) == [k \in 1..2 * n |-> IF k % 2 = 1 THEN "element" ELSE "comma"]

\* n elements, with a comma before each but the first.
List(n) == [k \in 1..IF n = 0 THEN 0 ELSE 2 * n - 1 |->
              IF k % 2 = 1 THEN "element" ELSE "comma"]

\* The loop over the instances.  `first` is declared in the loop's body: the
\* branch that writes a comma between two instances is never taken.
ForEachInstance(body) ==
  FlattenSeq([i \in 1..Instances |-> IF parents[i] = -1 THEN <<>> ELSE body[i]])

InstancesText == ForEachInstance([i \in 1..Instances |-> List(1)])
DagsText      == ForEachInstance([i \in 1..Instances |-> List(1)])
ParentsText   == ForEachInstance([i \in 1..Instances |-> List(parents[i])])

ArrayText == [instances |-> InstancesText, dags |-> DagsText, parents |-> ParentsText]

\* The text is a list: elements separated by single commas.
IsList(text) ==
  /\ text # <<>> => Len(text) % 2 = 1
  /\ \A k \in 1..Len(text) : text[k] = IF k % 2 = 1 THEN "element" ELSE "comma"

\* The instances with an element in the array of this kind.
Contribute(kind) ==
  {i \in 1..Instances : parents[i] >= IF kind = "parents" THEN 1 ELSE 0}
=============================================================================
