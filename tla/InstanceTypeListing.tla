------------------------ MODULE InstanceTypeListing ------------------------
(***************************************************************************)
(* InstanceTypeList (provisioning/scheduling/node.go), which Node.String   *)
(* and the scheduler's error messages use to show a node's instance-type   *)
(* options: the first five names separated by ", ", then " and N other(s)" *)
(* for the rest.  The text is a sequence of tokens: a name, the separator, *)
(* or the closing phrase with the count it prints.                         *)
(*                                                                         *)
(* The option list is any list the filters can leave, built up one         *)
(* instance type at a time; every reachable list is an input checked.      *)
(***************************************************************************)
EXTENDS Naturals, Sequences

CONSTANTS
    Names,        \* instance-type names
    MaxOptions    \* longest option list checked

VARIABLE options  \* the InstanceTypeOptions handed to InstanceTypeList

Sep == ", "
AndOthers(n) == [others |-> n]   \* " and %d other(s)" with n printed

(* Mutant: the cut-off tested one index late, printing six names.         *)
RECURSIVE ListFromLate(_, _)
ListFromLate(its, i) ==
    IF i >= Len(its) THEN <<>>
    ELSE IF i > 5 THEN <<AndOthers(Len(its) - i)>>
    ELSE (IF i > 0 THEN <<Sep>> ELSE <<>>) \o <<its[i + 1]>> \o ListFromLate(its, i + 1)

(* The range loop from Go index i: past index 4 it writes the count of the *)
(* remaining types and breaks; otherwise a separator before every name but *)
(* the first, then the name.                                               *)
RECURSIVE ListFrom(_, _)
ListFrom(its, i) ==
    IF i >= Len(its) THEN <<>>
    ELSE IF i > 4 THEN <<AndOthers(Len(its) - i)>>
    ELSE (IF i > 0 THEN <<Sep>> ELSE <<>>) \o <<its[i + 1]>> \o ListFrom(its, i + 1)

InstanceTypeList(its) == ListFrom(its, 0)

(* Reference: the first min(5, n) names joined by the separator, and the   *)
(* number of names left out when there are any.                            *)
Shown(its) == IF Len(its) < 5 THEN Len(its) ELSE 5
Joined(its) == [j \in 1 .. 2 * Shown(its) - 1 |-> IF j % 2 = 1 THEN its[(j + 1) \div 2] ELSE Sep]
ReferenceListing(its) ==
    Joined(its) \o (IF Len(its) > Shown(its) THEN <<AndOthers(Len(its) - Shown(its))>> ELSE <<>>)

Init == options = <<>>

(* The filters leave one more instance type in the list. *)
Grow ==
    /\ Len(options) < MaxOptions
    /\ \E n \in Names : options' = Append(options, n)

Spec == Init /\ [][Grow]_options

-----------------------------------------------------------------------------

(* Every option list is shown as its first five names in order, separated, *)
(* followed by the exact count of the names not shown: the index cut-off   *)
(* and the len-i count agree at the boundary of five and six options.      *)
ListingIsExact == InstanceTypeList(options) = ReferenceListing(options)
=============================================================================
