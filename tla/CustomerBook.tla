---------------------------- MODULE CustomerBook ----------------------------
(***************************************************************************)
(* The customers of a company and their addresses, written by concurrent   *)
(* READ COMMITTED transactions.  OrderMoney extends this module with the   *)
(* orders, and with the rest of a merge.                                   *)
(*                                                                         *)
(* A customer or an address is named by the request that created it.  An   *)
(* updateMany takes two steps: it finds the rows committed when it begins, *)
(* and once none of them is locked it writes those that still match.       *)
(***************************************************************************)
EXTENDS Integers, FiniteSets

CONSTANTS
  Known,          \* customers there from the start
  NewCustomers, CustomerEdits, Archivals,
  Registered,     \* addresses there from the start
  NewAddresses, AddressEdits,
  Merges,
  Body,           \* what a request carries: path, idempotency key and body
  Phones, Keys, Governorates,
  Absent,         \* a field the body leaves out
  NoKey, NoRow

Customers == Known \cup NewCustomers
Addresses == Registered \cup NewAddresses
Optional(S) == S \cup {Absent}

\* What the pipe that validates bodies lets through.  Names, notes, lines and
\* the carrier's ids are left out.
CreateCustomerDto == [phone : Phones, key : Keys \cup {NoKey}]
UpdateCustomerDto == [customer : Customers, phone : Optional(Phones)]
CreateAddressDto == [customer : Customers, governorateId : Optional(Governorates \cup {"unknown"}),
                     isDefault : Optional(BOOLEAN)]
UpdateAddressDto == [customer : Customers, address : Addresses, isDefault : Optional(BOOLEAN),
                     governorateId : Optional(Governorates \cup {"unknown"}), active : Optional(BOOLEAN)]
MergeCustomersDto == [from : Customers, into : Customers]

ASSUME CustomerBookAssumption ==
  /\ \A c \in Customers : Body[c] \in CreateCustomerDto
  /\ \A e \in CustomerEdits : Body[e] \in UpdateCustomerDto
  /\ \A h \in Archivals : Body[h].customer \in Customers
  /\ \A a \in Addresses : Body[a] \in CreateAddressDto
  /\ \A e \in AddressEdits : Body[e] \in UpdateAddressDto
  /\ \A g \in Merges : Body[g] \in MergeCustomersDto
  /\ NewAddresses \cap (Registered \cup AddressEdits \cup NewCustomers \cup CustomerEdits \cup Archivals) = {}
  /\ AddressEdits \cap (NewCustomers \cup CustomerEdits \cup Archivals) = {}
  /\ Absent \notin BOOLEAN

\* The columns of an address.
AddressRow == [customer : Customers, isDefault : BOOLEAN, isActive : BOOLEAN]

ASSUME NoAddressAssumption == NoRow \notin AddressRow

VARIABLES
  people,     \* customers, committed: [phone, key, isActive]
  addresses,  \* customer_addresses, committed: [customer, isDefault, isActive]
  at,         \* the statement a request's transaction is at
  swept,      \* the rows that its updateMany or deleteMany found
  taken,      \* the addresses it has written
  bare        \* history: customers whose default was taken on request, by a merge, or by
              \*   an edit of an address that is not theirs

bookVars == <<people, addresses, bare>>

Given(value, old) == IF value = Absent THEN old ELSE value
Goto(r, stmt) == at' = [at EXCEPT ![r] = stmt]

NewPerson(c) == [phone |-> Body[c].phone, key |-> Body[c].key, isActive |-> TRUE]
NewAddress(a) ==
  [customer |-> Body[a].customer, isDefault |-> Given(Body[a].isDefault, FALSE), isActive |-> TRUE]

StoredCustomers == {c \in Customers : people[c] # NoRow}
Marks(row, c) == row # NoRow /\ row.customer = c /\ row.isDefault
HasDefault(c, table) == \E a \in Addresses : Marks(table[a], c)

BookInit ==
  /\ people = [c \in Customers |-> IF c \in Known THEN NewPerson(c) ELSE NoRow]
  /\ addresses = [a \in Addresses |-> IF a \in Registered THEN NewAddress(a) ELSE NoRow]
  /\ bare = {c \in Customers : ~HasDefault(c, addresses)}

-----------------------------------------------------------------------------
(* Customers.                                                              *)

WithKey(c) == {d \in StoredCustomers : Body[c].key # NoKey /\ people[d].key = Body[c].key}
WithPhone(phone) == {d \in StoredCustomers : people[d].phone = phone}

LookupCustomer(c) ==
  /\ at[c] = "idle"
  /\ Goto(c, IF WithKey(c) # {} THEN "replayed" ELSE "enter")
  /\ UNCHANGED <<bookVars, swept, taken>>

\* A phone or key that an open transaction has written, or is giving up: the
\* index waits for it.
PhoneBusy(r) ==
  \E q \in (NewCustomers \cup CustomerEdits) \ {r} :
    /\ at[q] = "commit"
    /\ \/ Body[q].phone = Body[r].phone
       \/ q \in CustomerEdits /\ people[Body[q].customer].phone = Body[r].phone
KeyBusy(c) ==
  \E d \in NewCustomers \ {c} : at[d] = "commit" /\ Body[c].key # NoKey /\ Body[d].key = Body[c].key

\* The unique phone is checked before the unique key.  A second create with a
\* key that was stored meanwhile is a duplicate phone, or an error: the read of
\* the replay fails in the transaction that the violation aborted.
Conflict(c) ==
  IF WithPhone(Body[c].phone) # {} THEN "refused" ELSE IF WithKey(c) # {} THEN "error" ELSE "commit"

InsertCustomer(c) ==
  /\ at[c] = "enter"
  /\ ~PhoneBusy(c) /\ ~KeyBusy(c)
  /\ Goto(c, Conflict(c))
  /\ UNCHANGED <<bookVars, swept, taken>>

\* One statement writes the customer's row.
UpdateCustomer(r) ==
  /\ at[r] = "idle" /\ Body[r].customer \in StoredCustomers
  /\ Body[r].phone # Absent => ~PhoneBusy(r)
  /\ Goto(r, IF WithPhone(Body[r].phone) \ {Body[r].customer} # {} THEN "refused" ELSE "commit")
  /\ UNCHANGED <<bookVars, swept, taken>>

ArchiveCustomer(r) ==
  /\ at[r] = "idle" /\ Body[r].customer \in StoredCustomers
  /\ Goto(r, "commit")
  /\ UNCHANGED <<bookVars, swept, taken>>

Archived(c) == [people EXCEPT ![c].isActive = FALSE]

CommitCustomer(r) ==
  /\ at[r] = "commit"
  /\ people' =
       CASE r \in NewCustomers -> [people EXCEPT ![r] = NewPerson(r)]
         [] r \in CustomerEdits -> [people EXCEPT ![Body[r].customer].phone = Given(Body[r].phone, @)]
         [] r \in Archivals -> Archived(Body[r].customer)
  /\ Goto(r, "ok")
  /\ UNCHANGED <<addresses, bare, swept, taken>>

-----------------------------------------------------------------------------
(* Addresses.                                                              *)

AddressHeld(r, a) == \E q \in DOMAIN taken \ {r} : a \in taken[q]
TargetOf(r) == IF r \in NewAddresses THEN r ELSE Body[r].address

\* A row the transaction has written, as it leaves it.
Left(r, a) ==
  CASE r \in NewAddresses /\ a = r -> NewAddress(r)
    [] r \in AddressEdits /\ a = Body[r].address ->
         [addresses[a] EXCEPT !.isDefault = Given(Body[r].isDefault, @),
                              !.isActive = Given(Body[r].active, @)]
    [] r \in Merges -> [addresses[a] EXCEPT !.customer = Body[r].into, !.isDefault = FALSE]
    [] OTHER -> [addresses[a] EXCEPT !.isDefault = FALSE]

AddressesAfter(r) == [a \in Addresses |-> IF a \in taken[r] THEN Left(r, a) ELSE addresses[a]]

\* Governorates are reference data: nobody writes them.
UnknownGovernorate(r) == Body[r].governorateId \notin Optional(Governorates)

\* assertGovernorate, and demoteDefault begins.
FindDefault(r) ==
  /\ at[r] = "idle" /\ Body[r].customer \in StoredCustomers
  /\ IF UnknownGovernorate(r)
     THEN Goto(r, "refused") /\ UNCHANGED swept
     ELSE /\ swept' = [swept EXCEPT ![r] =
                         {a \in Addresses \ {TargetOf(r)} :
                            Body[r].isDefault = TRUE /\ Marks(addresses[a], Body[r].customer)}]
          /\ Goto(r, "demote")
  /\ UNCHANGED <<bookVars, taken>>

DemoteDefault(r) ==
  /\ at[r] = "demote"
  /\ \A a \in swept[r] : ~AddressHeld(r, a)
  /\ taken' = [taken EXCEPT ![r] = {a \in swept[r] : Marks(addresses[a], Body[r].customer)}]
  /\ swept' = [swept EXCEPT ![r] = {}]
  /\ Goto(r, "address")
  /\ UNCHANGED bookVars

\* The partial unique index: at most one default for a customer.  It waits for
\* a transaction that has written a row which is, or was, the default.
DefaultBusy(r) ==
  \E q \in DOMAIN taken \ {r} : \E a \in taken[q] :
    Marks(addresses[a], Body[r].customer) \/ Marks(Left(q, a), Body[r].customer)
DefaultTaken(r) == HasDefault(Body[r].customer, [a \in Addresses |->
                                 IF a \in taken[r] \cup {TargetOf(r)} THEN NoRow ELSE addresses[a]])

\* An address that is not there, or is somebody else's, is not written; what
\* was demoted for it stays demoted.
Missing(r) ==
  r \in AddressEdits /\ (addresses[TargetOf(r)] = NoRow
                         \/ addresses[TargetOf(r)].customer # Body[r].customer)

WriteAddress(r) ==
  /\ at[r] = "address"
  /\ r \in AddressEdits => ~AddressHeld(r, TargetOf(r))
  /\ IF Missing(r) THEN Goto(r, "commit") /\ UNCHANGED taken
     ELSE /\ Body[r].isDefault = TRUE => ~DefaultBusy(r)
          /\ IF Body[r].isDefault = TRUE /\ DefaultTaken(r)
             THEN Goto(r, "error") /\ taken' = [taken EXCEPT ![r] = {}]
             ELSE /\ taken' = [taken EXCEPT ![r] = @ \cup {TargetOf(r)}]
                  /\ Goto(r, "commit")
  /\ UNCHANGED <<bookVars, swept>>

Unsets(r) ==
  \/ r \in Merges
  \/ r \in AddressEdits /\ (Body[r].isDefault = FALSE \/ TargetOf(r) \notin taken[r])

\* The addresses of a transaction that commits.
StoreAddresses(r) ==
  /\ addresses' = AddressesAfter(r)
  /\ bare' = {c \in Customers : ~HasDefault(c, AddressesAfter(r))}
               \cap (bare \cup IF Unsets(r) THEN {IF r \in Merges THEN Body[r].from ELSE Body[r].customer}
                               ELSE {})

CommitAddress(r) ==
  /\ at[r] = "commit"
  /\ StoreAddresses(r)
  /\ taken' = [taken EXCEPT ![r] = {}]
  /\ Goto(r, "ok")
  /\ UNCHANGED <<people, swept>>

\* The addresses of a merge: every address of the one customer goes to the
\* other, and is nobody's default.
GatherAddresses(g) ==
  /\ at[g] = "gather"
  /\ swept' = [swept EXCEPT ![g] =
                 {a \in Addresses : addresses[a] # NoRow /\ addresses[a].customer = Body[g].from}]
  /\ Goto(g, "rehome")
  /\ UNCHANGED <<bookVars, taken>>

Rehome(g) ==
  /\ at[g] = "rehome"
  /\ \A a \in swept[g] : ~AddressHeld(g, a)
  /\ taken' = [taken EXCEPT ![g] = {a \in swept[g] : addresses[a].customer = Body[g].from}]
  /\ Goto(g, "sweep")
  /\ UNCHANGED <<bookVars, swept>>

\* A merge takes the addresses one by one, and an edit the old default before
\* the new: each may wait for the other, and PostgreSQL kills one.
AddressDeadlock(g, r) ==
  /\ at[g] = "rehome" /\ at[r] = "address"
  /\ Body[r].address \in swept[g] /\ taken[r] \cap swept[g] # {}

-----------------------------------------------------------------------------
(* Properties.                                                             *)

BookTypeOK ==
  /\ \A c \in StoredCustomers :
       people[c] \in [phone : Phones, key : Keys \cup {NoKey}, isActive : BOOLEAN]
  /\ \A a \in Addresses : addresses[a] # NoRow =>
       addresses[a] \in [customer : StoredCustomers, isDefault : BOOLEAN, isActive : BOOLEAN]
  /\ taken \in [DOMAIN taken -> SUBSET Addresses]
  /\ bare \subseteq Customers
=============================================================================
