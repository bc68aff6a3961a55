------------------------------ MODULE MCModify ------------------------------
(* An instance of Modify for TLC: three users, one of them to be added,    *)
(* four groups, one of them to be added and one that is not found, and an   *)
(* entry of no kind.                                                        *)
EXTENDS Modify

CONSTANTS alice, bob, carol, admins, staff, Upper, devs, unit, x, y, z

MCKind ==
  [e \in Entries |-> CASE e \in {alice, bob, carol} -> "user"
                       [] e = unit -> "plain"
                       [] OTHER -> "group"]

Mod(op, field, vals) == [op |-> op, field |-> field, vals |-> vals]
Ask(kind, e, changes, groups) ==
  [kind |-> kind, entry |-> e, changes |-> changes, groups |-> groups]

GroupChanges ==
  {Mod("add", "memberOf", {devs}), Mod("add", "memberOf", {admins, staff}),
   Mod("delete", "memberOf", {admins}), Mod("delete", "memberOf", {}),
   Mod("replace", "memberOf", {staff, devs, Upper}), Mod("replace", "memberOf", {admins})}

ValueChanges ==
  {Mod("add", "attribute", {x}), Mod("delete", "attribute", {x}),
   Mod("delete", "attribute", {}), Mod("replace", "attribute", {y})}

ColumnChanges ==
  {Mod("replace", "column", {x}), Mod("add", "column", {x, y}),
   Mod("delete", "column", {x}), Mod("add", "column", {y, z})}

OneChange(S) == {<<c>> : c \in S}
TwoChanges(S) == S \X S

MCArgs ==
  {Ask("modify", alice, s, {}) :
     s \in TwoChanges(GroupChanges) \cup TwoChanges(ValueChanges)
           \cup OneChange(ColumnChanges)
           \cup {<<c, Mod("replace", "readOnly", {}), Mod("replace", "column", {y})>> :
                   c \in GroupChanges}}
  \cup {Ask("modify", e, s, {}) :
          e \in {admins, unit}, s \in OneChange(GroupChanges \cup ValueChanges)}
  \cup {Ask("add", bob, <<>>, {admins, Upper}), Ask("add", devs, <<>>, {staff})}
  \cup {Ask("delete", e, <<>>, {}) : e \in {alice, admins, staff}}

MCSeedAlive == {alice, carol, admins, staff, Upper, unit}
MCSeedMember == {<<alice, admins>>, <<admins, staff>>}
MCSeedColumn ==
  [e \in Entries |-> CASE e = alice -> y [] e = carol -> z [] OTHER -> NoValue]
MCSeedValues == [e \in Entries |-> IF e \in {alice, unit} THEN {x} ELSE {}]
=============================================================================
