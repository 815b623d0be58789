---------------------------- MODULE ConsoleProofs ----------------------------
(***************************************************************************)
(* Proofs about Console, for tables and pages of any size, any number of   *)
(* inputs and troubles, and answers and failures in any order.  The        *)
(* invariant is one of the tables, which stay when a page is left, and one *)
(* of each page while it is mounted.  What is said of visitors follows     *)
(* from the proofs about Registration.                                     *)
(***************************************************************************)
EXTENDS Console, ListingProofs, TLAPS

-----------------------------------------------------------------------------
(* Requests. *)

IsCall(c) ==
  /\ c = [op |-> c.op, arg |-> c.arg, stage |-> c.stage, answer |-> c.answer, id |-> c.id]
  /\ c.stage \in {"sent", "served", "refused"}
  /\ c.id \in Nat \ {0}

\* Requests that are under way together have different numbers.
Numbered(T) ==
  /\ IsFiniteSet(T)
  /\ \A c \in T : IsCall(c)
  /\ \A c, d \in T : c.id = d.id => c = d

\* There is a number left for one more.
LEMMA FreeNumber ==
  ASSUME NEW T, IsFiniteSet(T)
  PROVE  \E n \in 1..Cardinality(T) + 1 : \A c \in T : c.id # n
<1> DEFINE k == Cardinality(T)
           f == [n \in 1..k + 1 |-> CHOOSE c \in T : c.id = n]
<1>1. k \in Nat
  BY FS_CardinalityType
<1> SUFFICES ASSUME \A n \in 1..k + 1 : \E c \in T : c.id = n
             PROVE  FALSE
  OBVIOUS
<1>2. \A n \in 1..k + 1 : f[n] \in T /\ f[n].id = n
  OBVIOUS
<1> HIDE DEF k
<1>3. f \in [1..k + 1 -> T]
  BY <1>2
<1> HIDE DEF f
<1>4. f \in Injection(1..k + 1, T)
  BY <1>2, <1>3 DEF Injection, IsInjective
<1>5. Cardinality(1..k + 1) <= k
  BY <1>4, FS_Injection DEF k
<1>6. Cardinality(1..k + 1) = k + 1
  BY <1>1, FS_Interval
<1> QED BY <1>1, <1>5, <1>6

LEMMA Asked ==
  ASSUME NEW T, Numbered(T), NEW op, NEW arg, NEW k, k = NewCall(op, arg, T)
  PROVE  /\ IsCall(k) /\ k.op = op /\ k.arg = arg /\ k.stage = "sent" /\ k.answer = {}
         /\ \A c \in T : c.id # k.id
         /\ Numbered(T \cup {k})
<1> DEFINE n == CHOOSE n \in 1..Cardinality(T) + 1 : \A c \in T : c.id # n
<1>1. n \in 1..Cardinality(T) + 1 /\ \A c \in T : c.id # n
  BY FreeNumber DEF Numbered
<1>2. Cardinality(T) \in Nat
  BY FS_CardinalityType DEF Numbered
<1>3. n \in Nat \ {0}
  BY <1>1, <1>2
<1>4. k = [op |-> op, arg |-> arg, stage |-> "sent", answer |-> {}, id |-> n]
  BY DEF NewCall
<1> HIDE DEF n
<1>5. IsCall(k) /\ k.op = op /\ k.arg = arg /\ k.stage = "sent" /\ k.answer = {} /\ k.id = n
  BY <1>3, <1>4 DEF IsCall
<1>6. IsFiniteSet(T \cup {k})
  BY FS_AddElement DEF Numbered
<1>7. Numbered(T \cup {k})
  BY <1>1, <1>5, <1>6 DEF Numbered
<1> QED BY <1>1, <1>5, <1>7

IsNew(k, op, arg, T) ==
  /\ IsCall(k) /\ k.op = op /\ k.arg = arg /\ k.stage = "sent" /\ k.answer = {}
  /\ \A c \in T : c.id # k.id
  /\ Numbered(T \cup {k})

LEMMA AskedFor ==
  ASSUME NEW T, Numbered(T), NEW op, NEW arg
  PROVE  IsNew(NewCall(op, arg, T), op, arg, T)
<1>1. PICK k : k = NewCall(op, arg, T)
  OBVIOUS
<1>2. IsNew(k, op, arg, T)
  BY <1>1, Asked DEF IsNew
<1> QED BY <1>1, <1>2

LEMMA Fewer ==
  ASSUME NEW T, Numbered(T), NEW S, S \subseteq T
  PROVE  Numbered(S)
BY FS_Subset DEF Numbered

\* A request moves on.
LEMMA Replaced ==
  ASSUME NEW T, Numbered(T), NEW c \in T, NEW k, IsCall(k), k.id = c.id
  PROVE  Numbered((T \ {c}) \cup {k})
<1>1. Numbered(T \ {c})
  BY Fewer
<1>2. IsFiniteSet((T \ {c}) \cup {k})
  BY <1>1, FS_AddElement DEF Numbered
<1>3. \A d \in T \ {c} : d.id # k.id
  BY DEF Numbered
<1> QED BY <1>1, <1>2, <1>3 DEF Numbered

LEMMA ServedCall ==
  ASSUME NEW T, Numbered(T), NEW c \in T, NEW answer,
         NEW k, k = [c EXCEPT !.stage = "served", !.answer = answer]
  PROVE  /\ IsCall(k) /\ k.op = c.op /\ k.arg = c.arg /\ k.id = c.id
         /\ k.stage = "served" /\ k.answer = answer
         /\ Numbered((T \ {c}) \cup {k})
<1>1. IsCall(c)
  BY DEF Numbered
<1>2. /\ k = [op |-> c.op, arg |-> c.arg, stage |-> "served", answer |-> answer, id |-> c.id]
      /\ c.id \in Nat \ {0}
  BY <1>1 DEF IsCall
<1>3. /\ IsCall(k) /\ k.op = c.op /\ k.arg = c.arg /\ k.id = c.id
      /\ k.stage = "served" /\ k.answer = answer
  BY <1>2 DEF IsCall
<1> QED BY <1>3, Replaced

LEMMA RefusedCall ==
  ASSUME NEW T, Numbered(T), NEW c \in T, NEW k, k = [c EXCEPT !.stage = "refused"]
  PROVE  /\ IsCall(k) /\ k.op = c.op /\ k.arg = c.arg /\ k.id = c.id
         /\ k.stage = "refused" /\ k.answer = c.answer
         /\ Numbered((T \ {c}) \cup {k})
<1>1. IsCall(c)
  BY DEF Numbered
<1>2. /\ k = [op |-> c.op, arg |-> c.arg, stage |-> "refused", answer |-> c.answer, id |-> c.id]
      /\ c.id \in Nat \ {0}
  BY <1>1 DEF IsCall
<1>3. /\ IsCall(k) /\ k.op = c.op /\ k.arg = c.arg /\ k.id = c.id
      /\ k.stage = "refused" /\ k.answer = c.answer
  BY <1>2 DEF IsCall
<1> QED BY <1>3, Replaced

\* The three ways in which a step changes the requests.
Sends(T, k) == calls' = T \cup {k} /\ k.stage = "sent" /\ k.answer = {} /\ \A d \in T : d.id # k.id
Serves(c, k, answer) ==
  /\ calls' = (calls \ {c}) \cup {k}
  /\ k.op = c.op /\ k.arg = c.arg /\ k.id = c.id /\ k.stage = "served" /\ k.answer = answer
Refuses(c, k) ==
  /\ calls' = (calls \ {c}) \cup {k}
  /\ k.op = c.op /\ k.arg = c.arg /\ k.id = c.id /\ k.stage = "refused" /\ k.answer = c.answer

LEMMA Sending ==
  ASSUME Numbered(calls), NEW T, T \subseteq calls, NEW op, NEW arg, calls' = With(T, op, arg)
  PROVE  \E k : Sends(T, k) /\ IsCall(k) /\ k.op = op /\ k.arg = arg /\ Numbered(calls')
<1>1. PICK k : k = NewCall(op, arg, T)
  OBVIOUS
<1>2. Numbered(T)
  BY Fewer
<1>3. /\ IsCall(k) /\ k.op = op /\ k.arg = arg /\ k.stage = "sent" /\ k.answer = {}
      /\ \A c \in T : c.id # k.id
      /\ Numbered(T \cup {k})
  BY <1>1, <1>2, Asked
<1>4. calls' = T \cup {k}
  BY <1>1 DEF With
<1> QED BY <1>3, <1>4 DEF Sends

LEMMA Serving ==
  ASSUME Numbered(calls), NEW c \in calls, NEW answer, Serve(c, answer)
  PROVE  \E k : Serves(c, k, answer) /\ Numbered(calls')
<1>1. PICK k : k = [c EXCEPT !.stage = "served", !.answer = answer]
  OBVIOUS
<1>2. /\ k.op = c.op /\ k.arg = c.arg /\ k.id = c.id /\ k.stage = "served" /\ k.answer = answer
      /\ Numbered((calls \ {c}) \cup {k})
  BY <1>1, ServedCall
<1>3. calls' = (calls \ {c}) \cup {k}
  BY <1>1 DEF Serve
<1> QED BY <1>2, <1>3 DEF Serves

LEMMA Refusing ==
  ASSUME Numbered(calls), NEW c \in calls, Refuse(c)
  PROVE  \E k : Refuses(c, k) /\ Numbered(calls')
<1>1. PICK k : k = [c EXCEPT !.stage = "refused"]
  OBVIOUS
<1>2. /\ k.op = c.op /\ k.arg = c.arg /\ k.id = c.id /\ k.stage = "refused" /\ k.answer = c.answer
      /\ Numbered((calls \ {c}) \cup {k})
  BY <1>1, RefusedCall
<1>3. calls' = (calls \ {c}) \cup {k}
  BY <1>1 DEF Refuse
<1> QED BY <1>2, <1>3 DEF Refuses

-----------------------------------------------------------------------------
(* Devices. *)

DeviceRows == [id : 1..created, token : BOOLEAN]
DeviceTable == created \in Nat /\ devices \subseteq DeviceRows

DeviceViews ==
  [list : SUBSET DeviceRows, loadingList : BOOLEAN, actionLoading : BOOLEAN, createOpen : BOOLEAN,
   createdToken : 0..created, revokeTarget : 0..created, deleteTarget : 0..created,
   newest : Nat, listed : BOOLEAN]

\* A change has been made of which the page does not know yet.
DeviceChanged == \E c \in calls : c.op # "list" /\ c.stage = "served"

\* One change at a time is asked for; a token that is shown while a device is
\* being created was shown when that was asked for; and the latest list is up to date but for a change that will be followed by
\* another list.
DevicesInv ==
  /\ view \in DeviceViews
  /\ \A c \in calls : c.op \in {"list", "create", "revoke", "delete"} /\ c.answer \subseteq DeviceRows
  /\ view.loadingList => \E c \in calls : c.op = "list"
  /\ view.actionLoading => \E c \in calls : c.op # "list"
  /\ \A c \in calls : c.op # "list" => view.actionLoading
  /\ \A c, d \in calls : c.op # "list" /\ d.op # "list" => c = d
  /\ \A c \in calls : c.op = "create" => view.createdToken \in {0, c.arg}
  /\ view.listed => view.list = devices \/ DeviceChanged
  /\ \A c \in calls : c.op = "list" /\ c.id = view.newest /\ c.stage = "served" =>
       c.answer = devices \/ DeviceChanged

LEMMA DevicesCardinality == \A T : Devices!Cardinality(T) = Cardinality(T)
BY DEF Devices!Cardinality, Cardinality

LEMMA DevicesWords ==
  /\ \A T, op, arg : Devices!With(T, op, arg) = With(T, op, arg)
                     /\ Devices!NewCall(op, arg, T) = NewCall(op, arg, T)
  /\ \A c, answer : Devices!Serve(c, answer) <=> Serve(c, answer)
  /\ \A c : Devices!Refuse(c) <=> Refuse(c)
BY DevicesCardinality
   DEF Devices!With, Devices!NewCall, With, NewCall, Devices!Serve, Serve, Devices!Refuse, Refuse

LEMMA DevicesFetch ==
  ASSUME Numbered(calls), NEW v \in DeviceViews, NEW c, Devices!FetchAfter(v, c)
  PROVE  \E k : /\ Sends(calls \ {c}, k) /\ IsCall(k) /\ k.op = "list" /\ Numbered(calls')
                /\ view' = [v EXCEPT !.loadingList = TRUE, !.newest = k.id, !.listed = FALSE]
<1>1. PICK T, op, arg, k :
        T = calls \ {c} /\ op = "list" /\ arg = 0 /\ k = NewCall(op, arg, T)
  OBVIOUS
<1>2. k = NewCall(op, arg, T)
  BY <1>1
<1>3. Numbered(T)
  BY <1>1, Fewer
<1>4. /\ IsCall(k) /\ k.op = op /\ k.stage = "sent" /\ k.answer = {}
      /\ \A d \in T : d.id # k.id
      /\ Numbered(T \cup {k})
  BY <1>2, <1>3, Asked
<1>5. Devices!NewCall("list", 0, calls \ {c}) = k
  BY <1>1, DevicesWords
<1>6. /\ calls' = T \cup {k}
      /\ view' = [v EXCEPT !.loadingList = TRUE, !.newest = k.id, !.listed = FALSE]
  BY <1>1, <1>5 DEF Devices!FetchAfter
<1> QED BY <1>1, <1>4, <1>6 DEF Sends

\* A change has been answered, and the list is asked for.
LEMMA DevicesAnswered ==
  ASSUME Numbered(calls), DeviceTable, DevicesInv, NEW c \in calls, c.op # "list",
         NEW v \in DeviceViews, v.actionLoading = FALSE, Devices!FetchAfter(v, c),
         UNCHANGED <<devices, created>>
  PROVE  DevicesInv' /\ Numbered(calls')
<1>1. PICK k : /\ Sends(calls \ {c}, k) /\ IsCall(k) /\ k.op = "list" /\ Numbered(calls')
               /\ view' = [v EXCEPT !.loadingList = TRUE, !.newest = k.id, !.listed = FALSE]
  BY DevicesFetch
<1>2. calls' = (calls \ {c}) \cup {k} /\ k.stage = "sent" /\ k.answer = {}
      /\ \A d \in calls \ {c} : d.id # k.id
  BY <1>1 DEF Sends
<1>3. view' \in DeviceViews /\ DeviceViews' = DeviceViews /\ DeviceRows' = DeviceRows
  <2>1. k.id \in Nat
    BY <1>1 DEF IsCall
  <2> QED BY <1>1, <2>1 DEF DeviceViews, DeviceRows
<1>4. /\ view'.loadingList = TRUE /\ view'.actionLoading = FALSE /\ view'.listed = FALSE
      /\ view'.newest = k.id
  BY <1>1 DEF DeviceViews
<1>5. \A d \in calls' : d.op = "list"
  BY <1>1, <1>2 DEF DevicesInv
<1>6. \A d \in calls' : d.answer \subseteq DeviceRows'
  BY <1>2, <1>3 DEF DevicesInv
<1>7. \A d \in calls' : d.id = view'.newest => d.stage = "sent"
  BY <1>2, <1>4
<1>8. k \in calls'
  BY <1>2
<1> QED BY <1>1, <1>3, <1>4, <1>5, <1>6, <1>7, <1>8 DEF DevicesInv

\* Only modals change.
LEMMA DevicesModals ==
  ASSUME DevicesInv, DeviceTable, UNCHANGED <<devices, created, calls>>,
         view' \in DeviceViews, view'.createdToken \in {0, view.createdToken},
         view'.list = view.list, view'.loadingList = view.loadingList,
         view'.actionLoading = view.actionLoading, view'.newest = view.newest,
         view'.listed = view.listed
  PROVE  DevicesInv'
<1>1. view' \in DeviceViews' /\ DeviceRows' = DeviceRows /\ (DeviceChanged' <=> DeviceChanged)
  BY DEF DeviceViews, DeviceRows, DeviceChanged
<1> QED BY <1>1 DEF DevicesInv

LEMMA DevicesStart ==
  ASSUME Numbered(calls), DeviceTable, DevicesInv, ~view.actionLoading,
         NEW op \in {"create", "revoke", "delete"}, NEW id, Devices!Start(op, id),
         op = "create" => view.createdToken = id
  PROVE  DevicesInv' /\ Numbered(calls')
<1>1. /\ calls' = With(calls, op, id) /\ view' = [view EXCEPT !.actionLoading = TRUE]
      /\ UNCHANGED <<devices, created>>
  BY DevicesWords DEF Devices!Start, Devices!table
<1>2. PICK k : Sends(calls, k) /\ IsCall(k) /\ k.op = op /\ k.arg = id /\ Numbered(calls')
  BY <1>1, Sending
<1>3. calls' = calls \cup {k} /\ k.stage = "sent" /\ k.answer = {} /\ k.op # "list"
  BY <1>2 DEF Sends
<1>4. view' \in DeviceViews' /\ DeviceRows' = DeviceRows
  BY <1>1 DEF DevicesInv, DeviceViews, DeviceRows
<1>5. /\ view'.actionLoading = TRUE /\ view'.loadingList = view.loadingList
      /\ view'.createdToken = view.createdToken /\ view'.newest = view.newest
      /\ view'.listed = view.listed /\ view'.list = view.list
  BY <1>1 DEF DevicesInv, DeviceViews
<1>6. \A c \in calls : c.op = "list"
  BY DEF DevicesInv
<1>7. (DeviceChanged' <=> FALSE) /\ (DeviceChanged <=> FALSE)
  BY <1>3, <1>6 DEF DeviceChanged
<1>8. \A c \in calls' : c \in calls \/ c = k
  BY <1>3
<1>9. \A c \in calls' : c.op \in {"list", "create", "revoke", "delete"} /\ c.answer \subseteq DeviceRows'
  BY <1>2, <1>3, <1>4, <1>8 DEF DevicesInv
<1>10. \A c \in calls' : c.op = "list" /\ c.id = view'.newest /\ c.stage = "served" => c.answer = devices'
  BY <1>1, <1>3, <1>5, <1>7, <1>8 DEF DevicesInv
<1>11. view'.listed => view'.list = devices'
  BY <1>1, <1>5, <1>7 DEF DevicesInv
<1>12. view'.loadingList => \E c \in calls' : c.op = "list"
  BY <1>3, <1>5 DEF DevicesInv
<1>13. \A c \in calls' : c.op = "create" => view'.createdToken \in {0, c.arg}
  BY <1>2, <1>5, <1>6, <1>8
<1>14. k \in calls' /\ \A c, d \in calls' : c.op # "list" /\ d.op # "list" => c = d
  BY <1>3, <1>6, <1>8
<1> QED BY <1>2, <1>3, <1>4, <1>5, <1>9, <1>10, <1>11, <1>12, <1>13, <1>14 DEF DevicesInv

\* The server has made a change.
LEMMA DevicesServed ==
  ASSUME Numbered(calls), DeviceTable, DevicesInv, NEW c \in calls, c.op # "list",
         NEW k, NEW answer, Serves(c, k, answer), Numbered(calls'),
         created' \in Nat, created <= created', devices' \subseteq DeviceRows',
         answer \subseteq DeviceRows', UNCHANGED view
  PROVE  DevicesInv'
<1>1. /\ calls' = (calls \ {c}) \cup {k} /\ k.op = c.op /\ k.arg = c.arg /\ k.id = c.id /\ k.stage = "served"
      /\ k.answer = answer
  BY DEF Serves
<1>2. DeviceRows \subseteq DeviceRows' /\ DeviceViews \subseteq DeviceViews'
  <2>1. 1..created \subseteq 1..created' /\ 0..created \subseteq 0..created'
    BY DEF DeviceTable
  <2>2. DeviceRows \subseteq DeviceRows'
    BY <2>1 DEF DeviceRows
  <2> QED BY <2>1, <2>2 DEF DeviceViews
<1>3. view' \in DeviceViews'
  BY <1>2 DEF DevicesInv
<1>4. k \in calls' /\ k.op # "list" /\ DeviceChanged'
  BY <1>1 DEF DeviceChanged
<1>5. \A d \in calls' : d = k \/ (d \in calls /\ d # c)
  BY <1>1
<1>6. \A d \in calls' : d.op \in {"list", "create", "revoke", "delete"} /\ d.answer \subseteq DeviceRows'
  BY <1>1, <1>2, <1>5 DEF DevicesInv
<1>7. view.actionLoading
  BY DEF DevicesInv
<1>8. \A d, e \in calls' : d.op # "list" /\ e.op # "list" => d = e
  BY <1>1, <1>5 DEF DevicesInv
<1>9. \A d \in calls' : d.op = "create" => view.createdToken \in {0, d.arg}
  BY <1>1, <1>5 DEF DevicesInv
<1>10. view.loadingList => \E d \in calls' : d.op = "list"
  <2>1. ASSUME view.loadingList PROVE \E d \in calls' : d.op = "list"
    <3>1. PICK d \in calls : d.op = "list"
      BY <2>1 DEF DevicesInv
    <3> QED BY <1>1, <3>1
  <2> QED BY <2>1
<1> QED BY <1>3, <1>4, <1>6, <1>7, <1>8, <1>9, <1>10 DEF DevicesInv

LEMMA DevicesRefused ==
  ASSUME Numbered(calls), DevicesInv, NEW c \in calls, c.op # "list", c.stage # "served",
         NEW k, Refuses(c, k), Numbered(calls'), UNCHANGED <<devices, created, view>>
  PROVE  DevicesInv'
<1>1. /\ calls' = (calls \ {c}) \cup {k} /\ k.op = c.op /\ k.arg = c.arg /\ k.id = c.id /\ k.stage = "refused"
      /\ k.answer = c.answer
  BY DEF Refuses
<1>2. DeviceRows' = DeviceRows /\ DeviceViews' = DeviceViews
  BY DEF DeviceRows, DeviceViews
<1>3. \A d \in calls' : d = k \/ (d \in calls /\ d # c)
  BY <1>1
<1>4. \A d \in calls : d = c \/ d \in calls'
  BY <1>1
<1>5. k \in calls' /\ k.op # "list"
  BY <1>1
<1>6. DeviceChanged => DeviceChanged'
  BY <1>4 DEF DeviceChanged
<1>7. \A d \in calls' : d.op \in {"list", "create", "revoke", "delete"} /\ d.answer \subseteq DeviceRows'
  BY <1>1, <1>2, <1>3 DEF DevicesInv
<1>8. view.actionLoading /\ \A d, e \in calls' : d.op # "list" /\ e.op # "list" => d = e
  BY <1>1, <1>3 DEF DevicesInv
<1>9. \A d \in calls' : d.op = "create" => view.createdToken \in {0, d.arg}
  BY <1>1, <1>3 DEF DevicesInv
<1>10. view.loadingList => \E d \in calls' : d.op = "list"
  BY <1>4 DEF DevicesInv
<1>11. \A d \in calls' : d.op = "list" /\ d.id = view.newest /\ d.stage = "served" =>
         d.answer = devices \/ DeviceChanged'
  BY <1>1, <1>3, <1>6 DEF DevicesInv
<1> QED BY <1>2, <1>5, <1>6, <1>7, <1>8, <1>9, <1>10, <1>11 DEF DevicesInv

LEMMA DevicesStep ==
  ASSUME Numbered(calls), DeviceTable, DevicesInv, Devices!Next
  PROVE  DevicesInv' /\ DeviceTable' /\ Numbered(calls')
<1>1. CASE Devices!OpenCreate
  <2>1. view' = [view EXCEPT !.createOpen = TRUE] /\ UNCHANGED <<devices, created, calls>>
    BY <1>1 DEF Devices!OpenCreate, Devices!table
  <2>2. /\ view' \in DeviceViews /\ view'.createdToken = view.createdToken
        /\ view'.list = view.list /\ view'.loadingList = view.loadingList
        /\ view'.actionLoading = view.actionLoading /\ view'.newest = view.newest
        /\ view'.listed = view.listed
    BY <2>1 DEF DevicesInv, DeviceViews
  <2> QED BY <2>1, <2>2, DevicesModals DEF DeviceTable, DeviceRows
<1>2. CASE Devices!Dismiss
  <2>1. PICK S : view' = [view EXCEPT !.createOpen = @ /\ 1 \notin S,
                            !.createdToken = IF 2 \in S THEN 0 ELSE @,
                            !.revokeTarget = IF 3 \in S THEN 0 ELSE @,
                            !.deleteTarget = IF 4 \in S THEN 0 ELSE @]
    BY <1>2 DEF Devices!Dismiss
  <2>2. UNCHANGED <<devices, created, calls>>
    BY <1>2 DEF Devices!Dismiss, Devices!table
  <2>3. /\ view' \in DeviceViews /\ view'.createdToken \in {0, view.createdToken}
        /\ view'.list = view.list /\ view'.loadingList = view.loadingList
        /\ view'.actionLoading = view.actionLoading /\ view'.newest = view.newest
        /\ view'.listed = view.listed
    <3>1. PICK b, t, r, d :
            /\ b = (view.createOpen /\ 1 \notin S) /\ t = (IF 2 \in S THEN 0 ELSE view.createdToken)
            /\ r = (IF 3 \in S THEN 0 ELSE view.revokeTarget)
            /\ d = (IF 4 \in S THEN 0 ELSE view.deleteTarget)
      OBVIOUS
    <3>2. view' = [view EXCEPT !.createOpen = b, !.createdToken = t, !.revokeTarget = r,
                               !.deleteTarget = d]
      BY <2>1, <3>1
    <3>3. 0 \in 0..created /\ view \in DeviceViews
      BY DEF DeviceTable, DevicesInv
    <3>4. b \in BOOLEAN /\ {t, r, d} \subseteq 0..created /\ t \in {0, view.createdToken}
      BY <3>1, <3>3 DEF DeviceViews
    <3> QED BY <3>2, <3>3, <3>4 DEF DeviceViews
  <2> QED BY <2>2, <2>3, DevicesModals DEF DeviceTable, DeviceRows
<1>3. ASSUME NEW d \in view.list, Devices!OpenConfirm(d)
      PROVE  DevicesInv' /\ DeviceTable' /\ Numbered(calls')
  <2>1. d.id \in 0..created
    <3>1. d \in DeviceRows
      BY DEF DevicesInv, DeviceViews
    <3> QED BY <3>1 DEF DeviceRows, DeviceTable
  <2>2. \/ view' = [view EXCEPT !.revokeTarget = d.id]
        \/ view' = [view EXCEPT !.deleteTarget = d.id]
    BY <1>3 DEF Devices!OpenConfirm
  <2>3. UNCHANGED <<devices, created, calls>>
    BY <1>3 DEF Devices!OpenConfirm, Devices!table
  <2>4. /\ view' \in DeviceViews /\ view'.createdToken = view.createdToken
        /\ view'.list = view.list /\ view'.loadingList = view.loadingList
        /\ view'.actionLoading = view.actionLoading /\ view'.newest = view.newest
        /\ view'.listed = view.listed
    BY <2>1, <2>2 DEF DevicesInv, DeviceViews
  <2> QED BY <2>3, <2>4, DevicesModals DEF DeviceTable, DeviceRows
<1>4. CASE Devices!HandleCreate \/ Devices!HandleRevoke \/ Devices!HandleDelete
  <2>1. PICK op, id :
          /\ op \in {"create", "revoke", "delete"}
          /\ Devices!Start(op, id) /\ ~view.actionLoading
          /\ op = "create" => view.createdToken = id
    BY <1>4 DEF Devices!HandleCreate, Devices!HandleRevoke, Devices!HandleDelete, Devices!Pressable
  <2>2. UNCHANGED <<devices, created>>
    BY <2>1 DEF Devices!Start, Devices!table
  <2> QED BY <2>1, <2>2, DevicesStart DEF DeviceTable, DeviceRows
<1>5. ASSUME NEW d \in devices, Devices!DeleteElsewhere(d)
      PROVE  DevicesInv' /\ DeviceTable' /\ Numbered(calls')
  <2>1. /\ devices' = devices \ {d} /\ view' = [view EXCEPT !.newest = 0, !.listed = FALSE]
        /\ UNCHANGED <<created, calls>>
    BY <1>5 DEF Devices!DeleteElsewhere
  <2>2. view' \in DeviceViews' /\ DeviceRows' = DeviceRows
    BY <2>1 DEF DevicesInv, DeviceViews, DeviceRows
  <2>3. /\ view'.loadingList = view.loadingList /\ view'.actionLoading = view.actionLoading
        /\ view'.createdToken = view.createdToken /\ view'.newest = 0 /\ view'.listed = FALSE
    BY <2>1 DEF DevicesInv, DeviceViews
  <2>4. \A c \in calls : c.id # 0
    BY DEF Numbered, IsCall
  <2> QED BY <2>1, <2>2, <2>3, <2>4 DEF DevicesInv, DeviceTable
<1>6. ASSUME NEW c \in calls, Devices!ServeList(c)
      PROVE  DevicesInv' /\ DeviceTable' /\ Numbered(calls')
  <2>1. Serve(c, devices) /\ c.op = "list" /\ UNCHANGED <<devices, created, view>>
    BY <1>6, DevicesWords DEF Devices!ServeList, Devices!Sent, Devices!table
  <2>2. PICK k : Serves(c, k, devices) /\ Numbered(calls')
    BY <2>1, Serving
  <2>3. /\ calls' = (calls \ {c}) \cup {k} /\ k.op = "list" /\ k.answer = devices
    BY <2>1, <2>2 DEF Serves
  <2>4. DeviceRows' = DeviceRows /\ DeviceViews' = DeviceViews
    BY <2>1 DEF DeviceRows, DeviceViews
  <2>5. /\ k \in calls' /\ \A d \in calls' : d = k \/ d \in calls
        /\ \A d \in calls : d.op # "list" => d \in calls'
    BY <2>1, <2>3
  <2>6. DeviceChanged <=> DeviceChanged'
    BY <2>3, <2>5 DEF DeviceChanged
  <2>7. \A d \in calls' : d.op \in {"list", "create", "revoke", "delete"} /\ d.answer \subseteq DeviceRows'
    BY <2>3, <2>4, <2>5 DEF DevicesInv, DeviceTable
  <2>8. view.actionLoading => \E d \in calls' : d.op # "list"
    BY <2>5 DEF DevicesInv
  <2>9. /\ \A d \in calls' : d.op # "list" => view.actionLoading
        /\ \A d, e \in calls' : d.op # "list" /\ e.op # "list" => d = e
        /\ \A d \in calls' : d.op = "create" => view.createdToken \in {0, d.arg}
    BY <2>3, <2>5 DEF DevicesInv
  <2>10. \A d \in calls' : d.op = "list" /\ d.id = view.newest /\ d.stage = "served" =>
           d.answer = devices \/ DeviceChanged'
    BY <2>3, <2>5, <2>6 DEF DevicesInv
  <2>11. view' \in DeviceViews' /\ (view.listed => view.list = devices \/ DeviceChanged')
    BY <2>1, <2>4, <2>6 DEF DevicesInv
  <2> QED BY <2>1, <2>2, <2>3, <2>4, <2>5, <2>7, <2>8, <2>9, <2>10, <2>11 DEF DevicesInv, DeviceTable
<1>7. ASSUME NEW c \in calls, Devices!ServeCreate(c)
      PROVE  DevicesInv' /\ DeviceTable' /\ Numbered(calls')
  <2> DEFINE row == Devices!Row(created + 1, TRUE)
  <2>1. /\ Serve(c, {row}) /\ c.op = "create" /\ created' = created + 1
        /\ devices' = devices \cup {row} /\ UNCHANGED view
    BY <1>7, DevicesWords DEF Devices!ServeCreate, Devices!Sent
  <2>2. PICK k : Serves(c, k, {row}) /\ Numbered(calls')
    BY <2>1, Serving
  <2>3. created' \in Nat /\ created <= created' /\ created + 1 \in 1..created'
    BY <2>1 DEF DeviceTable
  <2>4. row \in DeviceRows'
    BY <2>3 DEF DeviceRows, Devices!Row
  <2>5. DeviceRows \subseteq DeviceRows'
    <3>1. 1..created \subseteq 1..created'
      BY <2>3 DEF DeviceTable
    <3> QED BY <3>1 DEF DeviceRows
  <2> HIDE DEF row
  <2>6. devices' \subseteq DeviceRows' /\ {row} \subseteq DeviceRows'
    BY <2>1, <2>4, <2>5 DEF DeviceTable
  <2> QED BY <2>1, <2>2, <2>3, <2>6, DevicesServed DEF DeviceTable
<1>8. ASSUME NEW c \in calls, Devices!ServeRevoke(c) \/ Devices!ServeDelete(c)
      PROVE  DevicesInv' /\ DeviceTable' /\ Numbered(calls')
  <2>1. /\ c.op # "list" /\ c.stage = "sent" /\ UNCHANGED <<created, view>>
        /\ \/ Refuse(c) /\ Devices!WithId(devices, c.arg) = {} /\ UNCHANGED devices
           \/ /\ Serve(c, {}) /\ Devices!WithId(devices, c.arg) # {}
              /\ \/ devices' = (devices \ Devices!WithId(devices, c.arg)) \cup {Devices!Row(c.arg, FALSE)}
                 \/ devices' = devices \ Devices!WithId(devices, c.arg)
    BY <1>8, DevicesWords DEF Devices!ServeRevoke, Devices!ServeDelete, Devices!Sent
  <2>2. CASE Refuse(c) /\ UNCHANGED devices
    <3>1. PICK k : Refuses(c, k) /\ Numbered(calls')
      BY <2>2, Refusing
    <3>2. DevicesInv'
      BY <2>1, <2>2, <3>1, DevicesRefused
    <3> QED BY <2>1, <2>2, <3>1, <3>2 DEF DeviceTable, DeviceRows
  <2>3. CASE /\ Serve(c, {}) /\ Devices!WithId(devices, c.arg) # {}
             /\ \/ devices' = (devices \ Devices!WithId(devices, c.arg)) \cup {Devices!Row(c.arg, FALSE)}
                \/ devices' = devices \ Devices!WithId(devices, c.arg)
    <3>1. PICK k : Serves(c, k, {}) /\ Numbered(calls')
      BY <2>3, Serving
    <3>2. c.arg \in 1..created
      BY <2>3 DEF Devices!WithId, DeviceTable, DeviceRows
    <3>3. Devices!Row(c.arg, FALSE) \in DeviceRows /\ DeviceRows' = DeviceRows
      BY <2>1, <3>2 DEF Devices!Row, DeviceRows
    <3>4. devices' \subseteq DeviceRows'
      BY <2>3, <3>3 DEF DeviceTable
    <3>5. created' \in Nat /\ created <= created'
      BY <2>1 DEF DeviceTable
    <3>6. DevicesInv'
      BY <2>1, <3>1, <3>4, <3>5, DevicesServed
    <3> QED BY <3>1, <3>4, <3>5, <3>6 DEF DeviceTable
  <2> QED BY <2>1, <2>2, <2>3
<1>9. ASSUME NEW c \in calls, Devices!ListAnswered(c)
      PROVE  DevicesInv' /\ DeviceTable' /\ Numbered(calls')
  <2>1. /\ c.op = "list" /\ c.stage = "served" /\ calls' = calls \ {c}
        /\ view' = [view EXCEPT !.list = c.answer, !.loadingList = FALSE,
                                !.listed = (c.id = view.newest)]
        /\ UNCHANGED <<devices, created>>
    BY <1>9 DEF Devices!ListAnswered, Devices!Answered, Devices!table
  <2>2. DeviceRows' = DeviceRows /\ DeviceViews' = DeviceViews
    BY <2>1 DEF DeviceRows, DeviceViews
  <2>3. c.answer \in SUBSET DeviceRows /\ (c.id = view.newest) \in BOOLEAN
    BY DEF DevicesInv
  <2>4. /\ view' \in DeviceViews /\ view'.list = c.answer /\ view'.loadingList = FALSE
        /\ view'.listed = (c.id = view.newest) /\ view'.actionLoading = view.actionLoading
        /\ view'.createdToken = view.createdToken /\ view'.newest = view.newest
    BY <2>1, <2>3 DEF DevicesInv, DeviceViews
  <2>5. (DeviceChanged <=> DeviceChanged') /\ \A d \in calls : d.op # "list" => d \in calls'
    BY <2>1 DEF DeviceChanged
  <2>6. view'.listed => view'.list = devices \/ DeviceChanged'
    BY <2>1, <2>4, <2>5 DEF DevicesInv
  <2>7. Numbered(calls')
    BY <2>1, Fewer
  <2> QED BY <2>1, <2>2, <2>4, <2>5, <2>6, <2>7 DEF DevicesInv, DeviceTable
<1>10. ASSUME NEW c \in calls, Devices!CreateAnswered(c)
       PROVE  DevicesInv' /\ DeviceTable' /\ Numbered(calls')
  <2>1. PICK d \in c.answer :
          Devices!FetchAfter([view EXCEPT !.createdToken = d.id, !.createOpen = FALSE,
                                          !.actionLoading = FALSE], c)
    BY <1>10 DEF Devices!CreateAnswered
  <2>2. PICK v : v = [view EXCEPT !.createdToken = d.id, !.createOpen = FALSE, !.actionLoading = FALSE]
    OBVIOUS
  <2>3. c.op # "list" /\ UNCHANGED <<devices, created>>
    BY <1>10 DEF Devices!CreateAnswered, Devices!Answered, Devices!table
  <2>4. d.id \in 0..created
    <3>1. d \in DeviceRows
      BY DEF DevicesInv
    <3> QED BY <3>1 DEF DeviceRows, DeviceTable
  <2>5. v \in DeviceViews /\ v.actionLoading = FALSE
    BY <2>2, <2>4 DEF DevicesInv, DeviceViews
  <2>6. DevicesInv' /\ Numbered(calls')
    BY <2>1, <2>2, <2>3, <2>5, DevicesAnswered
  <2> QED BY <2>3, <2>6 DEF DeviceTable, DeviceRows
<1>11. ASSUME NEW c \in calls, Devices!RevokeAnswered(c) \/ Devices!DeleteAnswered(c)
       PROVE  DevicesInv' /\ DeviceTable' /\ Numbered(calls')
  <2>1. PICK v : /\ Devices!FetchAfter(v, c)
                 /\ \/ v = [view EXCEPT !.revokeTarget = 0, !.actionLoading = FALSE]
                    \/ v = [view EXCEPT !.deleteTarget = 0, !.actionLoading = FALSE]
    BY <1>11 DEF Devices!RevokeAnswered, Devices!DeleteAnswered
  <2>2. c.op # "list" /\ UNCHANGED <<devices, created>>
    BY <1>11 DEF Devices!RevokeAnswered, Devices!DeleteAnswered, Devices!Answered, Devices!table
  <2>3. v \in DeviceViews /\ v.actionLoading = FALSE
    <3>1. 0 \in 0..created /\ view \in DeviceViews
      BY DEF DeviceTable, DevicesInv
    <3>2. CASE v = [view EXCEPT !.revokeTarget = 0, !.actionLoading = FALSE]
      BY <3>1, <3>2 DEF DeviceViews
    <3>3. CASE v = [view EXCEPT !.deleteTarget = 0, !.actionLoading = FALSE]
      BY <3>1, <3>3 DEF DeviceViews
    <3> QED BY <2>1, <3>2, <3>3
  <2>4. DevicesInv' /\ Numbered(calls')
    BY <2>1, <2>2, <2>3, DevicesAnswered
  <2> QED BY <2>2, <2>4 DEF DeviceTable, DeviceRows
<1>12. ASSUME NEW c \in calls, Devices!CallFails(c)
       PROVE  DevicesInv' /\ DeviceTable' /\ Numbered(calls')
  <2>1. calls' = calls \ {c} /\ UNCHANGED <<devices, created>>
    BY <1>12 DEF Devices!CallFails, Devices!table
  <2>2. Numbered(calls') /\ \A d \in calls : d.id # 0
    BY <2>1, Fewer DEF Numbered, IsCall
  <2>3. DeviceRows' = DeviceRows /\ DeviceViews' = DeviceViews
    BY <2>1 DEF DeviceRows, DeviceViews
  <2>4. CASE c.op = "list"
    <3>1. view' = [view EXCEPT !.loadingList = FALSE]
      BY <1>12, <2>4 DEF Devices!CallFails
    <3>2. /\ view' \in DeviceViews /\ view'.list = view.list /\ view'.loadingList = FALSE
          /\ view'.listed = view.listed /\ view'.actionLoading = view.actionLoading
          /\ view'.createdToken = view.createdToken /\ view'.newest = view.newest
      BY <3>1 DEF DevicesInv, DeviceViews
    <3>3. (DeviceChanged <=> DeviceChanged') /\ \A d \in calls : d.op # "list" => d \in calls'
      BY <2>1, <2>4 DEF DeviceChanged
    <3> QED BY <2>1, <2>2, <2>3, <3>2, <3>3 DEF DevicesInv, DeviceTable
  <2>5. CASE c.op # "list"
    <3>1. view' = [view EXCEPT !.actionLoading = FALSE, !.newest = 0, !.listed = FALSE]
      BY <1>12, <2>5 DEF Devices!CallFails
    <3>2. /\ view' \in DeviceViews /\ view'.loadingList = view.loadingList
          /\ view'.listed = FALSE /\ view'.actionLoading = FALSE
          /\ view'.createdToken = view.createdToken /\ view'.newest = 0
      BY <3>1 DEF DevicesInv, DeviceViews
    <3>3. \A d \in calls' : d.op = "list" /\ d \in calls
      BY <2>1, <2>5 DEF DevicesInv
    <3>4. view.loadingList => \E d \in calls' : d.op = "list"
      BY <2>1, <2>5 DEF DevicesInv
    <3> QED BY <2>1, <2>2, <2>3, <3>2, <3>3, <3>4 DEF DevicesInv, DeviceTable
  <2> QED BY <2>4, <2>5
<1> QED BY <1>1, <1>2, <1>3, <1>4, <1>5, <1>6, <1>7, <1>8, <1>9, <1>10, <1>11, <1>12
        DEF Devices!Next, Devices!CallStep

-----------------------------------------------------------------------------
(* The dashboard. *)

StatsViews == [stats : 0..count, loading : BOOLEAN, refreshing : BOOLEAN, error : BOOLEAN]

\* Whoever waits has a request, and without a count there is one, or an error.
DashboardInv ==
  /\ view \in StatsViews
  /\ \A c \in calls : c.op = "stats" /\ c.answer \subseteq 1..count
  /\ view.loading \/ view.refreshing => calls # {}
  /\ view.stats # 0 \/ view.error \/ calls # {}

CountTable == count \in Nat \ {0}

LEMMA DashboardCardinality == \A T : Dashboard!Cardinality(T) = Cardinality(T)
BY DEF Dashboard!Cardinality, Cardinality

LEMMA DashboardWords ==
  /\ \A T, op, arg : Dashboard!With(T, op, arg) = With(T, op, arg)
  /\ \A c, answer : Dashboard!Serve(c, answer) <=> Serve(c, answer)
BY DashboardCardinality
   DEF Dashboard!With, Dashboard!NewCall, With, NewCall, Dashboard!Serve, Serve

LEMMA DashboardStep ==
  ASSUME Numbered(calls), CountTable, DashboardInv, Dashboard!Next
  PROVE  DashboardInv' /\ CountTable' /\ Numbered(calls')
<1>1. ASSUME NEW v \in StatsViews, NEW r \in BOOLEAN, Dashboard!FetchStats(r, v), count' = count
      PROVE  DashboardInv' /\ CountTable' /\ Numbered(calls')
  <2>1. calls' = With(calls, "stats", 0)
    BY <1>1, DashboardWords DEF Dashboard!FetchStats
  <2>2. PICK k : Sends(calls, k) /\ k.op = "stats" /\ Numbered(calls')
    BY <2>1, Sending
  <2>3. calls' = calls \cup {k} /\ k.answer = {}
    BY <2>2 DEF Sends
  <2>4. view' \in StatsViews'
    <3>1. view' = [v EXCEPT !.refreshing = @ \/ r, !.error = FALSE]
      BY <1>1 DEF Dashboard!FetchStats
    <3>2. (v.refreshing \/ r) \in BOOLEAN
      OBVIOUS
    <3> QED BY <1>1, <3>1, <3>2 DEF StatsViews
  <2>5. \A c \in calls' : c.op = "stats" /\ c.answer \subseteq 1..count'
    BY <1>1, <2>2, <2>3 DEF DashboardInv
  <2>6. calls' # {}
    BY <2>3
  <2> QED BY <1>1, <2>2, <2>4, <2>5, <2>6 DEF DashboardInv, CountTable
<1>2. CASE Dashboard!Tick \/ Dashboard!Refresh
  <2>1. Dashboard!FetchStats(TRUE, view) /\ count' = count
    BY <1>2 DEF Dashboard!Tick, Dashboard!Refresh
  <2> QED BY <1>1, <2>1 DEF DashboardInv
<1>3. CASE Dashboard!HandleRetry
  <2>1. PICK v : v = [view EXCEPT !.loading = TRUE]
    OBVIOUS
  <2>2. Dashboard!FetchStats(FALSE, v) /\ count' = count
    BY <1>3, <2>1 DEF Dashboard!HandleRetry
  <2>3. v \in StatsViews
    BY <2>1 DEF DashboardInv, StatsViews
  <2> QED BY <1>1, <2>2, <2>3
<1>4. CASE Dashboard!Grow
  <2>1. count' = count + 1 /\ UNCHANGED <<view, calls>>
    BY <1>4 DEF Dashboard!Grow
  <2>2. 0..count \subseteq 0..count' /\ 1..count \subseteq 1..count' /\ count' \in Nat
    BY <2>1 DEF CountTable
  <2>3. StatsViews \subseteq StatsViews'
    BY <2>2 DEF StatsViews
  <2>4. \A c \in calls' : c.op = "stats" /\ c.answer \subseteq 1..count'
    BY <2>1, <2>2 DEF DashboardInv
  <2> QED BY <2>1, <2>2, <2>3, <2>4 DEF DashboardInv, CountTable
<1>5. ASSUME NEW c \in calls, Dashboard!ServeStats(c)
      PROVE  DashboardInv' /\ CountTable' /\ Numbered(calls')
  <2>1. Serve(c, {count}) /\ UNCHANGED <<count, view>>
    BY <1>5, DashboardWords DEF Dashboard!ServeStats
  <2>2. PICK k : Serves(c, k, {count}) /\ Numbered(calls')
    BY <2>1, Serving
  <2>3. calls' = (calls \ {c}) \cup {k} /\ k.op = c.op /\ k.answer = {count}
    BY <2>2 DEF Serves
  <2>4. count \in 1..count
    BY DEF CountTable
  <2> QED BY <2>1, <2>2, <2>3, <2>4 DEF DashboardInv, CountTable, StatsViews
<1>6. ASSUME NEW c \in calls, Dashboard!StatsAnswered(c)
      PROVE  DashboardInv' /\ CountTable' /\ Numbered(calls')
  <2>1. PICK n \in c.answer :
          view' = [view EXCEPT !.stats = n, !.loading = FALSE, !.refreshing = FALSE]
    BY <1>6 DEF Dashboard!StatsAnswered
  <2>2. calls' = calls \ {c} /\ count' = count
    BY <1>6 DEF Dashboard!StatsAnswered
  <2>3. n \in 0..count /\ n # 0
    <3>1. n \in 1..count
      BY DEF DashboardInv
    <3> QED BY <3>1 DEF CountTable
  <2>4. /\ view' \in StatsViews /\ view'.stats # 0 /\ view'.loading = FALSE
        /\ view'.refreshing = FALSE
    BY <2>1, <2>3 DEF DashboardInv, StatsViews
  <2>5. Numbered(calls')
    BY <2>2, Fewer
  <2> QED BY <2>2, <2>4, <2>5 DEF DashboardInv, CountTable, StatsViews
<1>7. ASSUME NEW c \in calls, Dashboard!CallFails(c)
      PROVE  DashboardInv' /\ CountTable' /\ Numbered(calls')
  <2>1. /\ calls' = calls \ {c} /\ count' = count
        /\ view' = [view EXCEPT !.error = TRUE, !.loading = FALSE, !.refreshing = FALSE]
    BY <1>7 DEF Dashboard!CallFails
  <2>2. /\ view' \in StatsViews /\ view'.error = TRUE /\ view'.loading = FALSE
        /\ view'.refreshing = FALSE
    BY <2>1 DEF DashboardInv, StatsViews
  <2>3. Numbered(calls')
    BY <2>1, Fewer
  <2> QED BY <2>1, <2>2, <2>3 DEF DashboardInv, CountTable, StatsViews
<1> QED BY <1>2, <1>3, <1>4, <1>5, <1>6, <1>7 DEF Dashboard!Next

-----------------------------------------------------------------------------
(* The system's settings. *)

SystemViews ==
  [systemConfig : BOOLEAN, systemError : BOOLEAN, meData : BOOLEAN, meError : BOOLEAN,
   opening : SUBSET {"config", "me"}, refreshing : BOOLEAN]

\* Whoever waits has a request, and each half of the page shows data or an
\* error unless it has.
SystemInv ==
  /\ view \in SystemViews
  /\ \A c \in calls : c.op \in {"config", "me"} /\ c.arg \in BOOLEAN
  /\ \A op \in view.opening : \E c \in calls : c.op = op /\ ~c.arg
  /\ view.refreshing => \E c \in calls : c.op = "config" /\ c.arg
  /\ view.systemConfig \/ view.systemError \/ \E c \in calls : c.op = "config"
  /\ view.meData \/ view.meError \/ \E c \in calls : c.op = "me"

LEMMA SystemCardinality == \A T : System!Cardinality(T) = Cardinality(T)
BY DEF System!Cardinality, Cardinality

LEMMA SystemWords ==
  /\ \A T, op, arg : System!With(T, op, arg) = With(T, op, arg)
  /\ \A c, answer : System!Serve(c, answer) <=> Serve(c, answer)
  /\ \A c : System!Refuse(c) <=> Refuse(c)
BY SystemCardinality
   DEF System!With, System!NewCall, With, NewCall, System!Serve, Serve, System!Refuse, Refuse

\* A request has ended, with what its outcome makes of the view.
LEMMA SystemEnded ==
  ASSUME Numbered(calls), SystemInv, NEW c \in calls, calls' = calls \ {c},
         NEW v \in SystemViews, view' = System!Ended(v, c),
         v.opening = view.opening, v.refreshing = view.refreshing,
         view.systemConfig => v.systemConfig, view.systemError => v.systemError,
         view.meData => v.meData, view.meError => v.meError,
         c.op = "config" => v.systemConfig \/ v.systemError,
         c.op = "me" => v.meData \/ v.meError
  PROVE  SystemInv' /\ Numbered(calls')
<1>1. c.arg \in BOOLEAN /\ c.op \in {"config", "me"}
  BY DEF SystemInv
<1>2. PICK o, f : /\ o = (IF c.arg THEN v.opening ELSE v.opening \ {c.op})
                  /\ f = (v.refreshing /\ ~(c.op = "config" /\ c.arg))
  OBVIOUS
<1>3. o \in SUBSET {"config", "me"} /\ f \in BOOLEAN
  BY <1>2 DEF SystemViews
<1>4. view' = [v EXCEPT !.opening = o, !.refreshing = f]
  BY <1>2 DEF System!Ended
<1>5. /\ view' \in SystemViews /\ view'.opening = o /\ view'.refreshing = f
      /\ view'.systemConfig = v.systemConfig /\ view'.systemError = v.systemError
      /\ view'.meData = v.meData /\ view'.meError = v.meError
  BY <1>3, <1>4 DEF SystemViews
<1>6. \A op \in o : \E d \in calls' : d.op = op /\ ~d.arg
  <2> SUFFICES ASSUME NEW op \in o PROVE \E d \in calls' : d.op = op /\ ~d.arg
    OBVIOUS
  <2>1. op \in view.opening /\ (~c.arg => op # c.op)
    BY <1>2
  <2>2. PICK d \in calls : d.op = op /\ ~d.arg
    BY <2>1 DEF SystemInv
  <2>3. d # c
    BY <2>1, <2>2
  <2> QED BY <2>2, <2>3
<1>7. f => \E d \in calls' : d.op = "config" /\ d.arg
  <2> SUFFICES ASSUME f PROVE \E d \in calls' : d.op = "config" /\ d.arg
    OBVIOUS
  <2>1. view.refreshing /\ ~(c.op = "config" /\ c.arg)
    BY <1>2
  <2>2. PICK d \in calls : d.op = "config" /\ d.arg
    BY <2>1 DEF SystemInv
  <2> QED BY <2>1, <2>2
<1>8. v.systemConfig \/ v.systemError \/ \E d \in calls' : d.op = "config"
  BY DEF SystemInv
<1>9. v.meData \/ v.meError \/ \E d \in calls' : d.op = "me"
  BY DEF SystemInv
<1>10. Numbered(calls') /\ \A d \in calls' : d.op \in {"config", "me"} /\ d.arg \in BOOLEAN
  BY Fewer DEF SystemInv
<1> QED BY <1>5, <1>6, <1>7, <1>8, <1>9, <1>10 DEF SystemInv, SystemViews

\* A request is sent, and the error it shall mend is taken away.
LEMMA SystemSent ==
  ASSUME Numbered(calls), SystemInv, view.opening = {},
         System!HandleRefresh \/ System!RetryConfig
  PROVE  SystemInv' /\ Numbered(calls')
<1>1. CASE System!HandleRefresh
  <2>1. PICK config, me, yes, T :
          config = "config" /\ me = "me" /\ yes = TRUE /\ T = With(calls, config, yes)
    OBVIOUS
  <2>2. /\ calls' = With(T, me, yes)
        /\ view' = [view EXCEPT !.refreshing = TRUE, !.systemError = FALSE, !.meError = FALSE]
    BY <1>1, <2>1, SystemWords DEF System!HandleRefresh
  <2>3. PICK j : j = NewCall(config, yes, calls)
    OBVIOUS
  <2>4. j.op = config /\ j.arg = yes /\ Numbered(calls \cup {j})
    BY <2>3, Asked
  <2>5. T = calls \cup {j}
    BY <2>1, <2>3 DEF With
  <2>6. PICK k : k = NewCall(me, yes, T)
    OBVIOUS
  <2>7. Numbered(T)
    BY <2>4, <2>5
  <2>8. k.op = me /\ k.arg = yes /\ Numbered(T \cup {k})
    BY <2>6, <2>7, Asked
  <2>9. calls' = T \cup {k}
    BY <2>2, <2>6 DEF With
  <2>10. /\ j.op = "config" /\ j.arg = TRUE /\ k.op = "me" /\ k.arg = TRUE /\ Numbered(calls')
         /\ calls' = calls \cup {j, k}
    BY <2>1, <2>4, <2>5, <2>8, <2>9
  <2>11. j \in calls' /\ k \in calls' /\ \A c \in calls' : c \in calls \/ c \in {j, k}
    BY <2>10
  <2>12. view' \in SystemViews /\ view'.opening = {}
    BY <2>2 DEF SystemInv, SystemViews
  <2>13. \A c \in calls' : c.op \in {"config", "me"} /\ c.arg \in BOOLEAN
    BY <2>10, <2>11 DEF SystemInv
  <2> QED BY <2>10, <2>11, <2>12, <2>13 DEF SystemInv, SystemViews
<1>2. CASE System!RetryConfig
  <2>1. PICK config, yes : /\ config = "config" /\ yes = TRUE
                           /\ calls' = With(calls, config, yes)
    BY <1>2, SystemWords DEF System!RetryConfig
  <2>2. PICK k : Sends(calls, k) /\ k.op = config /\ k.arg = yes /\ Numbered(calls')
    <3>1. calls' = With(calls, config, yes)
      BY <2>1
    <3> QED BY <3>1, Sending
  <2>3. calls' = calls \cup {k}
    BY <2>2 DEF Sends
  <2>4. /\ view' \in SystemViews /\ view'.opening = {}
        /\ view'.meData = view.meData /\ view'.meError = view.meError
    <3>1. view' = [view EXCEPT !.refreshing = TRUE, !.systemError = FALSE]
      BY <1>2 DEF System!RetryConfig
    <3> QED BY <3>1 DEF SystemInv, SystemViews
  <2> QED BY <2>1, <2>2, <2>3, <2>4 DEF SystemInv, SystemViews
<1> QED BY <1>1, <1>2

LEMMA SystemStep ==
  ASSUME Numbered(calls), SystemInv, System!Next
  PROVE  SystemInv' /\ Numbered(calls')
<1>1. CASE System!HandleRefresh \/ System!RetryConfig
  <2>1. view.opening = {}
    BY <1>1 DEF System!HandleRefresh, System!RetryConfig, System!loading
  <2> QED BY <1>1, <2>1, SystemSent
<1>2. ASSUME NEW c \in calls, System!ServeMe(c) \/ System!ServeConfig(c)
      PROVE  SystemInv' /\ Numbered(calls')
  <2>1. view' = view /\ (Serve(c, {}) \/ Refuse(c))
    BY <1>2, SystemWords DEF System!ServeMe, System!ServeConfig
  <2>2. PICK k : Numbered(calls') /\ (Serves(c, k, {}) \/ Refuses(c, k))
    BY <2>1, Serving, Refusing
  <2>3. calls' = (calls \ {c}) \cup {k} /\ k.op = c.op /\ k.arg = c.arg
    BY <2>2 DEF Serves, Refuses
  <2>4. k \in calls' /\ \A d \in calls : d = c \/ d \in calls'
    BY <2>3
  <2>5. \A op \in {"config", "me"}, a \in BOOLEAN :
          (\E d \in calls : d.op = op /\ d.arg = a) => \E d \in calls' : d.op = op /\ d.arg = a
    BY <2>3, <2>4
  <2>6. \A op \in {"config", "me"} : (\E d \in calls : d.op = op) => \E d \in calls' : d.op = op
    BY <2>3, <2>4
  <2>7. \A op \in view.opening : op \in {"config", "me"}
    BY DEF SystemInv, SystemViews
  <2>8. \A d \in calls' : d.op \in {"config", "me"} /\ d.arg \in BOOLEAN
    BY <2>3 DEF SystemInv
  <2>9. \A op \in view.opening : \E d \in calls' : d.op = op /\ ~d.arg
    BY <2>5, <2>7 DEF SystemInv
  <2>10. view.refreshing => \E d \in calls' : d.op = "config" /\ d.arg
    BY <2>5 DEF SystemInv
  <2> QED BY <2>1, <2>2, <2>6, <2>8, <2>9, <2>10 DEF SystemInv, SystemViews
<1>3. ASSUME NEW c \in calls, System!MeAnswered(c)
      PROVE  SystemInv' /\ Numbered(calls')
  <2>1. PICK v : v = [view EXCEPT !.meData = TRUE]
    OBVIOUS
  <2>2. calls' = calls \ {c} /\ view' = System!Ended(v, c) /\ c.op = "me"
    BY <1>3, <2>1 DEF System!MeAnswered, System!Answered
  <2>3. /\ v \in SystemViews /\ v.opening = view.opening /\ v.refreshing = view.refreshing
        /\ v.systemConfig = view.systemConfig /\ v.systemError = view.systemError
        /\ v.meData = TRUE /\ v.meError = view.meError
    BY <2>1 DEF SystemInv, SystemViews
  <2> QED BY <2>2, <2>3, SystemEnded
<1>4. ASSUME NEW c \in calls, System!CallFails(c)
      PROVE  SystemInv' /\ Numbered(calls')
  <2>1. PICK v : v = IF c.op = "config" THEN [view EXCEPT !.systemError = TRUE]
                                        ELSE [view EXCEPT !.meError = TRUE]
    OBVIOUS
  <2>2. calls' = calls \ {c} /\ view' = System!Ended(v, c)
    BY <1>4, <2>1 DEF System!CallFails
  <2>3. /\ v \in SystemViews /\ v.opening = view.opening /\ v.refreshing = view.refreshing
        /\ v.systemConfig = view.systemConfig /\ (view.systemError => v.systemError)
        /\ v.meData = view.meData /\ (view.meError => v.meError)
        /\ (c.op = "config" => v.systemError) /\ (c.op = "me" => v.meError)
    BY <2>1 DEF SystemInv, SystemViews
  <2> QED BY <2>2, <2>3, SystemEnded
<1> QED BY <1>1, <1>2, <1>3, <1>4 DEF System!Next

-----------------------------------------------------------------------------
(* The settings. *)

Saves == {"retention", "password", "logout"}
DayAnswers == {<<d>> : d \in Days}

LEMMA SeqOfMore ==
  ASSUME NEW S, NEW T, S \subseteq T, NEW s \in Seq(S)
  PROVE  s \in Seq(T)
OBVIOUS

\* Beyond what has been found so far.
Under(found, id) == found = <<>> \/ id < found[Len(found)]

\* What was there throughout has been found or is yet to come ...
Walked(n, steady, found) ==
  /\ found \in Seq(1..n) /\ Decreasing(found)
  /\ \A id \in steady : Under(found, id) \/ id \in ToSet(found)

\* ... and an answer tells what comes next, of it all but what comes after a full page.
Told(n, steady, found, a) ==
  /\ a \in Seq(1..n) /\ Decreasing(a)
  /\ \A i \in 1..Len(a) : Under(found, a[i])
  /\ \A id \in steady : Under(found, id) =>
       id \in ToSet(a) \/ (Len(a) >= CLIPS_LIMIT /\ id < a[Len(a)])

LEMMA WalkOn ==
  ASSUME NEW n \in Nat, NEW steady \in SUBSET (1..n), NEW found, Walked(n, steady, found),
         NEW a, Told(n, steady, found, a), CLIPS_LIMIT \in Nat \ {0}
  PROVE  /\ Walked(n, steady, found \o a) /\ IsInjective(found \o a)
         /\ Len(a) < CLIPS_LIMIT => steady \subseteq ToSet(found \o a)
<1> DEFINE t == found \o a
           f == Len(found)
<1>1. found \in Seq(1..n) /\ a \in Seq(1..n)
  BY DEF Walked, Told
<1>2. /\ t \in Seq(1..n) /\ Len(t) = f + Len(a) /\ f \in Nat /\ Len(a) \in Nat
      /\ \A i \in 1..f : t[i] = found[i]
      /\ \A i \in 1..Len(t) : i \notin 1..f => i - f \in 1..Len(a) /\ t[i] = a[i - f]
      /\ ToSet(t) = ToSet(found) \cup ToSet(a)
  BY <1>1, Concat
<1>3. /\ \A i \in 1..f : found[i] \in 1..n
      /\ \A i \in 1..Len(a) : a[i] \in 1..n
      /\ \A i \in 1..Len(t) : t[i] \in 1..n
  BY <1>1, <1>2
<1> HIDE DEF t
<1>4. /\ \A i, j \in 1..f : i < j => found[i] > found[j]
      /\ \A i, j \in 1..Len(a) : i < j => a[i] > a[j]
  <2>1. DOMAIN found = 1..f /\ DOMAIN a = 1..Len(a)
    BY <1>1
  <2>2. Decreasing(found) /\ Decreasing(a)
    BY DEF Walked, Told
  <2> QED BY <2>1, <2>2, Zenon DEF Decreasing
<1>5. ASSUME NEW i \in 1..f, NEW j \in 1..Len(a) PROVE found[i] > a[j]
  <2>1. f \in 1..f /\ found # <<>>
    BY <1>1, <1>2
  <2>2. a[j] < found[f]
    BY <2>1 DEF Told, Under
  <2>3. i = f \/ found[i] > found[f]
    BY <1>2, <1>4, <2>1
  <2> QED BY <1>3, <2>1, <2>2, <2>3
<1> HIDE DEF f
<1>6. ASSUME NEW i \in 1..Len(t), NEW j \in 1..Len(t), i < j PROVE t[i] > t[j]
  <2>1. CASE j \in 1..f
    <3>1. i \in 1..f
      BY <1>2, <1>6, <2>1
    <3> QED BY <1>2, <1>4, <1>6, <2>1, <3>1
  <2>2. CASE j \notin 1..f /\ i \in 1..f
    BY <1>2, <1>5, <2>2
  <2>3. CASE j \notin 1..f /\ i \notin 1..f
    <3>1. i - f < j - f
      BY <1>2, <1>6
    <3> QED BY <1>2, <1>4, <2>3, <3>1
  <2> QED BY <2>1, <2>2, <2>3
<1>7. Decreasing(t)
  BY <1>2, <1>6 DEF Decreasing
<1>8. IsInjective(t)
  <2> SUFFICES ASSUME NEW i \in 1..Len(t), NEW j \in 1..Len(t), t[i] = t[j]
               PROVE  i = j
    BY <1>2, NoRepeats
  <2>1. ~(i < j) /\ ~(j < i)
    BY <1>3, <1>6
  <2> QED BY <1>2, <2>1
<1>9. ASSUME NEW id \in steady PROVE Under(t, id) \/ id \in ToSet(t)
  <2>1. CASE Under(found, id) /\ id \notin ToSet(a)
    <3>1. Len(a) >= CLIPS_LIMIT /\ id < a[Len(a)]
      BY <2>1 DEF Told
    <3>2. Len(t) \in 1..Len(t) /\ Len(t) \notin 1..f /\ Len(t) - f = Len(a)
      BY <1>2, <3>1
    <3>3. t[Len(t)] = a[Len(a)]
      BY <1>2, <3>2
    <3> QED BY <3>1, <3>3 DEF Under
  <2>2. CASE ~Under(found, id) \/ id \in ToSet(a)
    BY <1>2, <2>2 DEF Walked
  <2> QED BY <2>1, <2>2
<1>10. ASSUME Len(a) < CLIPS_LIMIT PROVE steady \subseteq ToSet(t)
  <2>1. \A id \in steady : ~(Len(a) >= CLIPS_LIMIT)
    BY <1>2, <1>10
  <2> QED BY <1>2, <2>1 DEF Walked, Told
<1> QED BY <1>2, <1>7, <1>8, <1>9, <1>10 DEF Walked, t

\* Nothing of it is lost when clips come or go.
LEMMA WalkLater ==
  ASSUME NEW n \in Nat, NEW m \in Nat, n <= m, NEW S, NEW R, R \subseteq S, NEW found
  PROVE  /\ Walked(n, S, found) => Walked(m, R, found)
         /\ \A a : Told(n, S, found, a) => Told(m, R, found, a)
<1>1. \A s \in Seq(1..n) : s \in Seq(1..m)
  <2>1. 1..n \subseteq 1..m
    OBVIOUS
  <2> QED BY <2>1
<1> QED BY <1>1 DEF Walked, Told

SettingsViews(n, S) ==
  [profile : Days \cup {0}, loadingProfile : BOOLEAN, saving : BOOLEAN, usage : Seq(1..n),
   counted : BOOLEAN, truncated : BOOLEAN, usageLoading : BOOLEAN, left : BOOLEAN,
   steady : SUBSET S, known : BOOLEAN]

\* What a request and its answer say for view v, while the table says r and
\* n ids of clips have been given out.
SettingsCall(c, v, r, n) ==
  /\ c.op \in {"profile", "clips"} \cup Saves
  /\ c.op = "profile" => v.loadingProfile
  /\ c.op \in Saves => v.saving /\ ~v.loadingProfile
  /\ c.op \in {"profile", "retention"} =>
       /\ c.answer \subseteq DayAnswers
       /\ v.known /\ c.stage = "served" => c.answer \subseteq {<<r>>}
  /\ c.op = "retention" => c.arg \in DayAnswers
  /\ c.op = "clips" =>
       /\ ~v.counted /\ Walked(n, v.steady, c.arg)
       /\ \A a \in c.answer : Told(n, v.steady, c.arg, a)

\* What has been counted, has been counted once.
UsageCounted(v) ==
  v.counted =>
    /\ IsInjective(v.usage)
    /\ ~v.truncated => v.steady \subseteq ToSet(v.usage)
    /\ v.truncated => Len(v.usage) = CLIPS_LIMIT * MaxPages

\* Who waits, waits for a request.
SettingsWaits(v, T) ==
  /\ v.left => T = {}
  /\ ~v.left => /\ v.loadingProfile => \E c \in T : c.op = "profile"
                /\ v.saving => \E c \in T : c.op \in Saves
                /\ v.usageLoading => \E c \in T : c.op = "clips"

OneOfEach(T) ==
  /\ \A c, d \in T : c.op = d.op => c = d
  /\ \A c, d \in T : c.op \in Saves /\ d.op \in Saves => c = d

\* The profile that is shown is the row, or will be once a change is answered.
ProfileShown(v, T, r) ==
  v.known /\ ~v.left =>
    v.loadingProfile \/ v.profile = r \/ \E c \in T : c.op = "retention" /\ c.stage = "served"

SettingsInv ==
  /\ view \in SettingsViews(lastClip, clips) /\ UsageCounted(view)
  /\ \A c \in calls : SettingsCall(c, view, retention, lastClip)
  /\ SettingsWaits(view, calls) /\ OneOfEach(calls) /\ ProfileShown(view, calls, retention)

SettingsTable == retention \in Days /\ lastClip \in Nat /\ clips \subseteq 1..lastClip

LEMMA SettingsViewsLater ==
  ASSUME NEW n \in Nat, NEW m \in Nat, n <= m, NEW S, NEW R, S \subseteq R,
         NEW v \in SettingsViews(n, S)
  PROVE  v \in SettingsViews(m, R)
<1>1. \A s \in Seq(1..n) : s \in Seq(1..m)
  <2>1. 1..n \subseteq 1..m
    OBVIOUS
  <2> QED BY <2>1
<1> QED BY <1>1 DEF SettingsViews

LEMMA SettingsCallKept ==
  ASSUME NEW n \in Nat, NEW m \in Nat, n <= m, NEW c, NEW v, NEW w, NEW r, NEW s,
         SettingsCall(c, v, r, n), w.steady \subseteq v.steady,
         c.op = "profile" => w.loadingProfile,
         c.op \in Saves => w.saving /\ ~w.loadingProfile,
         c.op = "clips" => ~w.counted,
         c.op \in {"profile", "retention"} /\ c.stage = "served" /\ w.known => v.known /\ r = s
  PROVE  SettingsCall(c, w, s, m)
<1>1. c.op = "clips" => /\ Walked(m, w.steady, c.arg)
                        /\ \A a \in c.answer : Told(m, w.steady, c.arg, a)
  BY WalkLater DEF SettingsCall
<1> QED BY <1>1 DEF SettingsCall

LEMMA SettingsCardinality == \A T : Settings!Cardinality(T) = Cardinality(T)
BY DEF Settings!Cardinality, Cardinality

LEMMA SettingsWords ==
  /\ \A T, op, arg : Settings!With(T, op, arg) = With(T, op, arg)
  /\ \A c, answer : Settings!Serve(c, answer) <=> Serve(c, answer)
  /\ \A c : Settings!Refuse(c) <=> Refuse(c)
BY SettingsCardinality
   DEF Settings!With, Settings!NewCall, With, NewCall, Settings!Serve, Serve, Settings!Refuse, Refuse

LEMMA SettingsLists ==
  /\ \A S : Settings!Descending(S) = Descending(S)
  /\ \A s, n : Settings!Prefix(s, n) = Prefix(s, n)
  /\ \A s : Settings!Last(s) = s[Len(s)]
  /\ \A s : Settings!ToSet(s) = ToSet(s)
  /\ \A s : Settings!IsInjective(s) <=> IsInjective(s)
<1>1. \A S : Settings!Descending(S) = Descending(S)
  BY SettingsCardinality DEF Settings!Descending, Descending
<1>2. \A s, n : Settings!Prefix(s, n) = Prefix(s, n)
  BY DEF Settings!Prefix, Prefix
<1>3. \A s : Settings!Last(s) = s[Len(s)]
  BY DEF Settings!Last
<1>4. \A s : Settings!ToSet(s) = ToSet(s)
  BY DEF Settings!ToSet, ToSet
<1>5. \A s : Settings!IsInjective(s) <=> IsInjective(s)
  BY DEF Settings!IsInjective, IsInjective
<1> QED BY <1>1, <1>2, <1>3, <1>4, <1>5

LEMMA LimitPositive == CLIPS_LIMIT \in Nat \ {0} /\ PAGE_SIZE \in Nat \ {0}
BY ConsoleAssumption

\* The user saves something.
LEMMA SettingsSaves ==
  ASSUME Numbered(calls), SettingsTable, SettingsInv,
         \/ \E d \in Days : Settings!HandleSaveRetention(d)
         \/ Settings!HandleSavePassword
  PROVE  SettingsInv' /\ SettingsTable' /\ Numbered(calls')
<1>1. PICK op, arg :
        /\ calls' = With(calls, op, arg) /\ op \in {"retention", "password"}
        /\ op = "retention" => arg \in DayAnswers
  <2>1. CASE \E d \in Days : Settings!HandleSaveRetention(d)
    <3>1. PICK d \in Days : Settings!HandleSaveRetention(d)
      BY <2>1
    <3>2. PICK op, arg : op = "retention" /\ arg = <<d>>
      OBVIOUS
    <3>3. calls' = With(calls, op, arg)
      BY <3>1, <3>2, SettingsWords DEF Settings!HandleSaveRetention
    <3>4. arg \in DayAnswers
      BY <3>2 DEF DayAnswers
    <3> QED BY <3>2, <3>3, <3>4
  <2>2. CASE Settings!HandleSavePassword
    <3>1. PICK op, arg : op = "password" /\ arg = <<>>
      OBVIOUS
    <3>2. calls' = With(calls, op, arg)
      BY <2>2, <3>1, SettingsWords DEF Settings!HandleSavePassword
    <3> QED BY <3>1, <3>2
  <2> QED BY <2>1, <2>2
<1>2. /\ view' = [view EXCEPT !.saving = TRUE] /\ UNCHANGED <<retention, clips, lastClip>>
      /\ ~view.loadingProfile /\ ~view.left /\ ~view.saving
  BY DEF Settings!HandleSaveRetention, Settings!HandleSavePassword, Settings!Rendered,
         Settings!Pressable, Settings!table
<1>3. PICK k : Sends(calls, k) /\ k.op = op /\ k.arg = arg /\ Numbered(calls')
  BY <1>1, Sending
<1>4. calls' = calls \cup {k} /\ k.stage = "sent" /\ k.answer = {} /\ k.op \in {"retention", "password"}
  BY <1>1, <1>3 DEF Sends
<1>5. /\ view' \in SettingsViews(lastClip, clips) /\ view'.saving = TRUE
      /\ view'.loadingProfile = FALSE /\ view'.profile = view.profile
      /\ view'.usage = view.usage /\ view'.counted = view.counted
      /\ view'.truncated = view.truncated /\ view'.usageLoading = view.usageLoading
      /\ view'.left = FALSE /\ view'.steady = view.steady /\ view'.known = view.known
  BY <1>2 DEF SettingsInv, SettingsViews
<1>6. \A c \in calls : c.op \in {"profile", "clips"} /\ c.op # "profile"
  BY <1>2 DEF SettingsInv, SettingsCall
<1>7. \A c \in calls' : SettingsCall(c, view', retention, lastClip)
  <2>1. ASSUME NEW c \in calls PROVE SettingsCall(c, view', retention, lastClip)
    <3>1. SettingsCall(c, view, retention, lastClip) /\ c.op \notin Saves /\ c.op # "profile"
      BY <1>6 DEF SettingsInv, Saves
    <3>2. c.op = "clips" => ~view'.counted
      BY <1>5, <3>1 DEF SettingsCall
    <3> QED BY <1>5, <3>1, <3>2, SettingsCallKept DEF SettingsTable
  <2>2. SettingsCall(k, view', retention, lastClip)
    BY <1>1, <1>3, <1>4, <1>5 DEF SettingsCall, Saves
  <2> QED BY <1>4, <2>1, <2>2
<1>8. SettingsWaits(view', calls')
  <2>1. k \in calls' /\ k.op \in Saves /\ \A c \in calls : c \in calls'
    BY <1>4 DEF Saves
  <2> QED BY <1>2, <1>5, <2>1 DEF SettingsInv, SettingsWaits
<1>9. OneOfEach(calls')
  BY <1>4, <1>6 DEF SettingsInv, OneOfEach, Saves
<1>10. ProfileShown(view', calls', retention)
  <2>1. view.known => view.profile = retention
    BY <1>2, <1>6 DEF SettingsInv, ProfileShown
  <2> QED BY <1>5, <2>1 DEF ProfileShown
<1>11. UsageCounted(view')
  BY <1>5 DEF SettingsInv, UsageCounted
<1> QED BY <1>2, <1>3, <1>5, <1>7, <1>8, <1>9, <1>10, <1>11 DEF SettingsInv, SettingsTable

\* Clips come and go, and others change the retention.
LEMMA SettingsElsewhere ==
  ASSUME Numbered(calls), SettingsTable, SettingsInv,
         \/ Settings!ClipCreated
         \/ \E id \in clips : Settings!ClipDeleted(id)
         \/ \E d \in Days : Settings!ChangeElsewhere(d)
  PROVE  SettingsInv' /\ SettingsTable' /\ Numbered(calls')
<1>1. CASE Settings!ClipCreated
  <2>1. /\ lastClip' = lastClip + 1 /\ clips' = clips \cup {lastClip + 1}
        /\ UNCHANGED <<retention, view, calls>>
    BY <1>1 DEF Settings!ClipCreated
  <2>2. /\ lastClip' \in Nat /\ lastClip <= lastClip' /\ clips \subseteq clips'
        /\ clips' \subseteq 1..lastClip'
    BY <2>1 DEF SettingsTable
  <2>3. view' \in SettingsViews(lastClip', clips')
    BY <2>1, <2>2, SettingsViewsLater DEF SettingsInv, SettingsTable
  <2>4. \A c \in calls : SettingsCall(c, view, retention, lastClip')
    <3> SUFFICES ASSUME NEW c \in calls PROVE SettingsCall(c, view, retention, lastClip')
      OBVIOUS
    <3>1. SettingsCall(c, view, retention, lastClip)
      BY DEF SettingsInv
    <3>2. PICK m, n \in Nat : m = lastClip' /\ n = lastClip /\ m \in Nat
      BY <2>2 DEF SettingsTable
    <3>3. SettingsCall(c, view, retention, m)
      BY <2>2, <3>1, <3>2, SettingsCallKept DEF SettingsCall
    <3> QED BY <3>2, <3>3
  <2> QED BY <2>1, <2>2, <2>3, <2>4 DEF SettingsInv, SettingsTable
<1>2. ASSUME NEW id \in clips, Settings!ClipDeleted(id)
      PROVE  SettingsInv' /\ SettingsTable' /\ Numbered(calls')
  <2>1. PICK gone : gone = view.steady \ {id}
    OBVIOUS
  <2>2. /\ clips' = clips \ {id} /\ view' = [view EXCEPT !.steady = gone]
        /\ UNCHANGED <<retention, lastClip, calls>>
    BY <1>2, <2>1 DEF Settings!ClipDeleted
  <2>3. /\ view' \in SettingsViews(lastClip, clips') /\ view'.steady = gone
        /\ view'.saving = view.saving /\ view'.loadingProfile = view.loadingProfile
        /\ view'.profile = view.profile
        /\ view'.usage = view.usage /\ view'.counted = view.counted
        /\ view'.truncated = view.truncated /\ view'.usageLoading = view.usageLoading
        /\ view'.left = view.left /\ view'.known = view.known
    BY <2>1, <2>2 DEF SettingsInv, SettingsViews
  <2>4. \A c \in calls : SettingsCall(c, view', retention, lastClip)
    <3> SUFFICES ASSUME NEW c \in calls PROVE SettingsCall(c, view', retention, lastClip)
      OBVIOUS
    <3>1. SettingsCall(c, view, retention, lastClip)
      BY DEF SettingsInv
    <3>2. view'.steady \subseteq view.steady
      BY <2>1, <2>3
    <3> QED BY <2>3, <3>1, <3>2, SettingsCallKept DEF SettingsCall, SettingsTable
  <2>5. UsageCounted(view') /\ SettingsWaits(view', calls') /\ ProfileShown(view', calls', retention)
    BY <2>1, <2>2, <2>3 DEF SettingsInv, UsageCounted, SettingsWaits, ProfileShown
  <2> QED BY <2>2, <2>3, <2>4, <2>5 DEF SettingsInv, SettingsTable
<1>3. ASSUME NEW d \in Days, Settings!ChangeElsewhere(d)
      PROVE  SettingsInv' /\ SettingsTable' /\ Numbered(calls')
  <2>1. /\ retention' = d /\ view' = [view EXCEPT !.known = FALSE]
        /\ UNCHANGED <<clips, lastClip, calls>>
    BY <1>3 DEF Settings!ChangeElsewhere
  <2>2. /\ view' \in SettingsViews(lastClip, clips) /\ view'.steady = view.steady
        /\ view'.saving = view.saving /\ view'.loadingProfile = view.loadingProfile
        /\ view'.usage = view.usage /\ view'.counted = view.counted
        /\ view'.truncated = view.truncated /\ view'.usageLoading = view.usageLoading
        /\ view'.left = view.left /\ view'.known = FALSE
    BY <2>1 DEF SettingsInv, SettingsViews
  <2>3. \A c \in calls : SettingsCall(c, view', d, lastClip)
    <3> SUFFICES ASSUME NEW c \in calls PROVE SettingsCall(c, view', d, lastClip)
      OBVIOUS
    <3>1. SettingsCall(c, view, retention, lastClip)
      BY DEF SettingsInv
    <3> QED BY <2>2, <3>1, SettingsCallKept DEF SettingsCall, SettingsTable
  <2>4. UsageCounted(view') /\ SettingsWaits(view', calls') /\ ProfileShown(view', calls', d)
    BY <2>1, <2>2 DEF SettingsInv, UsageCounted, SettingsWaits, ProfileShown
  <2> QED BY <2>1, <2>2, <2>3, <2>4 DEF SettingsInv, SettingsTable
<1> QED BY <1>1, <1>2, <1>3

\* The server answers or refuses.
LEMMA SettingsMoves ==
  ASSUME Numbered(calls'), SettingsTable, SettingsInv, NEW c \in calls, NEW k,
         calls' = (calls \ {c}) \cup {k}, k.op = c.op, k.arg = c.arg,
         UNCHANGED <<clips, lastClip, view>>, retention' \in Days,
         c.op # "retention" => retention' = retention,
         c.op = "retention" => k.stage = "served" /\ retention' = c.arg[1],
         SettingsCall(k, view, retention', lastClip)
  PROVE  SettingsInv' /\ SettingsTable' /\ Numbered(calls')
<1>1. /\ k \in calls' /\ \A d \in calls' : d = k \/ (d \in calls /\ d # c)
      /\ \A d \in calls : d = c \/ d \in calls'
  OBVIOUS
<1>2. \A d \in calls : d # c => SettingsCall(d, view, retention', lastClip)
  <2> SUFFICES ASSUME NEW d \in calls, d # c PROVE SettingsCall(d, view, retention', lastClip)
    OBVIOUS
  <2>1. SettingsCall(d, view, retention, lastClip) /\ SettingsCall(c, view, retention, lastClip)
    BY DEF SettingsInv
  <2>2. c.op = "retention" => d.op \notin {"profile", "retention"}
    BY <2>1 DEF SettingsInv, SettingsCall, OneOfEach, Saves
  <2> QED BY <2>1, <2>2, SettingsCallKept DEF SettingsCall, SettingsTable
<1>3. SettingsWaits(view, calls')
  <2>1. calls' # {} /\ calls # {}
    BY <1>1
  <2> QED BY <1>1, <2>1 DEF SettingsInv, SettingsWaits
<1>4. OneOfEach(calls')
  BY <1>1 DEF SettingsInv, OneOfEach
<1>5. ProfileShown(view, calls', retention')
  <2>1. CASE c.op = "retention"
    BY <1>1, <2>1 DEF ProfileShown
  <2>2. CASE c.op # "retention"
    BY <1>1, <2>2 DEF SettingsInv, ProfileShown
  <2> QED BY <2>1, <2>2
<1>6. \A d \in calls' : SettingsCall(d, view, retention', lastClip)
  BY <1>1, <1>2
<1> QED BY <1>3, <1>4, <1>5, <1>6 DEF SettingsInv, SettingsTable

LEMMA SettingsServes ==
  ASSUME Numbered(calls), SettingsTable, SettingsInv, NEW c \in calls,
         \/ Settings!ServeProfile(c) \/ Settings!ServeClips(c) \/ Settings!ServeRetention(c)
         \/ Settings!ServePassword(c) \/ Settings!ServeLogout(c)
  PROVE  SettingsInv' /\ SettingsTable' /\ Numbered(calls')
<1>1. SettingsCall(c, view, retention, lastClip)
  BY DEF SettingsInv
<1>2. UNCHANGED <<clips, lastClip, view>>
  BY DEF Settings!ServeProfile, Settings!ServeClips, Settings!ServeRetention,
         Settings!ServePassword, Settings!ServeLogout, Settings!table
<1>3. CASE Settings!ServeProfile(c)
  <2>1. PICK answer : answer = {<<retention>>}
    OBVIOUS
  <2>2. Serve(c, answer) /\ c.op = "profile" /\ retention' = retention
    BY <1>3, <2>1, SettingsWords DEF Settings!ServeProfile, Settings!Sent, Settings!table
  <2>3. PICK k : Serves(c, k, answer) /\ Numbered(calls')
    BY <2>2, Serving
  <2>4. /\ calls' = (calls \ {c}) \cup {k} /\ k.op = c.op /\ k.arg = c.arg
        /\ k.answer = {<<retention>>}
    BY <2>1, <2>3 DEF Serves
  <2>5. SettingsCall(k, view, retention, lastClip)
    BY <1>1, <2>2, <2>4 DEF SettingsCall, SettingsTable, DayAnswers, Saves
  <2> QED BY <1>2, <2>2, <2>3, <2>4, <2>5, SettingsMoves DEF SettingsTable
<1>4. CASE Settings!ServeClips(c)
  <2>1. PICK S, a, answer : /\ S = {id \in clips : Under(c.arg, id)}
                            /\ a = Prefix(Descending(S), CLIPS_LIMIT) /\ answer = {a}
    OBVIOUS
  <2>2. Settings!Below(c.arg) = S
    BY <2>1, SettingsLists DEF Settings!Below, Under
  <2>3. Settings!ClipItems(c.arg) = a
    BY <2>1, <2>2, SettingsLists DEF Settings!ClipItems
  <2>4. Serve(c, answer) /\ c.op = "clips" /\ retention' = retention
    BY <1>4, <2>1, <2>3, SettingsWords DEF Settings!ServeClips, Settings!Sent, Settings!table
  <2>5. PICK k : Serves(c, k, answer) /\ Numbered(calls')
    BY <2>4, Serving
  <2>6. /\ calls' = (calls \ {c}) \cup {k} /\ k.op = c.op /\ k.arg = c.arg /\ k.answer = {a}
    BY <2>1, <2>5 DEF Serves
  <2>7. S \subseteq 1..lastClip /\ lastClip \in Nat
    BY <2>1 DEF SettingsTable
  <2>8. /\ a \in Seq(S) /\ Decreasing(a) /\ ToSet(a) \subseteq S
        /\ \A id \in S \ ToSet(a) : Len(a) >= CLIPS_LIMIT /\ id < a[Len(a)]
    <3>1. a = Prefix(Descending(S), CLIPS_LIMIT) /\ CLIPS_LIMIT \in Nat \ {0}
      BY <2>1, LimitPositive
    <3>2. PICK n \in Nat, limit \in Nat \ {0} : n = lastClip /\ limit = CLIPS_LIMIT
      BY <2>7, <3>1
    <3>3. S \subseteq 1..n /\ a = Prefix(Descending(S), limit)
      BY <2>7, <3>1, <3>2
    <3>4. /\ a \in Seq(S) /\ Len(a) <= limit /\ IsInjective(a) /\ Decreasing(a)
          /\ ToSet(a) \subseteq S
          /\ \A id \in S \ ToSet(a) : Len(a) >= limit /\ id < a[Len(a)]
      BY <3>3, FirstDescending
    <3> QED BY <3>2, <3>4
  <2>9. Told(lastClip, view.steady, c.arg, a)
    <3>1. a \in Seq(1..lastClip)
      BY <2>7, <2>8, SeqOfMore
    <3>2. \A i \in 1..Len(a) : Under(c.arg, a[i])
      <4>1. \A i \in 1..Len(a) : a[i] \in S
        BY <2>8
      <4> QED BY <2>1, <4>1
    <3>3. view.steady \subseteq clips
      BY DEF SettingsInv, SettingsViews
    <3>4. \A id \in view.steady : Under(c.arg, id) => id \in S
      BY <2>1, <3>3
    <3> QED BY <2>8, <3>1, <3>2, <3>4 DEF Told
  <2>10. SettingsCall(k, view, retention, lastClip)
    BY <1>1, <2>4, <2>6, <2>9 DEF SettingsCall, Saves
  <2> QED BY <1>2, <2>4, <2>5, <2>6, <2>10, SettingsMoves DEF SettingsTable
<1>5. CASE Settings!ServeRetention(c)
  <2>1. PICK answer : answer = {c.arg}
    OBVIOUS
  <2>2. Serve(c, answer) /\ c.op = "retention" /\ retention' = c.arg[1]
    BY <1>5, <2>1, SettingsWords DEF Settings!ServeRetention, Settings!Sent
  <2>3. PICK k : Serves(c, k, answer) /\ Numbered(calls')
    BY <2>2, Serving
  <2>4. /\ calls' = (calls \ {c}) \cup {k} /\ k.op = c.op /\ k.arg = c.arg
        /\ k.answer = {c.arg} /\ k.stage = "served"
    BY <2>1, <2>3 DEF Serves
  <2>5. PICK d \in Days : c.arg = <<d>>
    BY <1>1, <2>2 DEF SettingsCall, DayAnswers
  <2>6. retention' \in Days /\ c.arg = <<retention'>>
    BY <2>2, <2>5
  <2>7. SettingsCall(k, view, retention', lastClip)
    BY <1>1, <2>2, <2>4, <2>6 DEF SettingsCall, DayAnswers, Saves
  <2> QED BY <1>2, <2>2, <2>3, <2>4, <2>6, <2>7, SettingsMoves
<1>6. CASE Settings!ServePassword(c) \/ Settings!ServeLogout(c)
  <2>1. PICK none : none = {}
    OBVIOUS
  <2>2. /\ c.op \in {"password", "logout"} /\ retention' = retention
        /\ Serve(c, none) \/ Refuse(c)
    BY <1>6, <2>1, SettingsWords
       DEF Settings!ServePassword, Settings!ServeLogout, Settings!Sent, Settings!table
  <2>3. PICK k : Numbered(calls') /\ (Serves(c, k, none) \/ Refuses(c, k))
    BY <2>2, Serving, Refusing
  <2>4. calls' = (calls \ {c}) \cup {k} /\ k.op = c.op /\ k.arg = c.arg
    BY <2>3 DEF Serves, Refuses
  <2>5. SettingsCall(k, view, retention, lastClip)
    BY <1>1, <2>2, <2>4 DEF SettingsCall, Saves
  <2> QED BY <1>2, <2>2, <2>3, <2>4, <2>5, SettingsMoves DEF SettingsTable
<1> QED BY <1>3, <1>4, <1>5, <1>6

\* A request has ended, and whoever waited for it does so no longer.
LEMMA SettingsEnds ==
  ASSUME Numbered(calls), SettingsTable, SettingsInv, NEW c \in calls, calls' = calls \ {c},
         UNCHANGED <<retention, clips, lastClip>>,
         view' \in SettingsViews(lastClip, clips), UsageCounted(view'),
         view'.steady = view.steady, view'.left = view.left, view'.known => view.known,
         view'.loadingProfile = (view.loadingProfile /\ c.op # "profile"),
         view'.saving = (view.saving /\ c.op \notin Saves),
         view'.usageLoading = (view.usageLoading /\ c.op # "clips"),
         c.op # "clips" => view'.counted = view.counted,
         ProfileShown(view', calls', retention)
  PROVE  SettingsInv' /\ SettingsTable' /\ Numbered(calls')
<1>1. Numbered(calls')
  BY Fewer
<1>2. OneOfEach(calls) /\ SettingsWaits(view, calls) /\ ~view.left
  BY DEF SettingsInv, SettingsWaits
<1>3. \A d \in calls' : d \in calls /\ d.op # c.op /\ ~(d.op \in Saves /\ c.op \in Saves)
  BY <1>2 DEF OneOfEach
<1>4. ASSUME NEW d \in calls' PROVE SettingsCall(d, view', retention, lastClip)
  <2>1. SettingsCall(d, view, retention, lastClip)
    BY <1>3 DEF SettingsInv
  <2>2. d.op = "profile" => view'.loadingProfile
    BY <1>3, <2>1 DEF SettingsCall
  <2>3. d.op \in Saves => view'.saving /\ ~view'.loadingProfile
    BY <1>3, <2>1 DEF SettingsCall
  <2>4. d.op = "clips" => ~view'.counted
    BY <1>3, <2>1 DEF SettingsCall
  <2> QED BY <2>1, <2>2, <2>3, <2>4, SettingsCallKept DEF SettingsTable
<1>5. SettingsWaits(view', calls')
  <2>1. view'.loadingProfile => \E d \in calls' : d.op = "profile"
    <3>1. ASSUME view'.loadingProfile PROVE \E d \in calls' : d.op = "profile"
      <4>1. PICK d \in calls : d.op = "profile"
        BY <1>2, <3>1 DEF SettingsWaits
      <4> QED BY <3>1, <4>1
    <3> QED BY <3>1
  <2>2. view'.saving => \E d \in calls' : d.op \in Saves
    <3>1. ASSUME view'.saving PROVE \E d \in calls' : d.op \in Saves
      <4>1. PICK d \in calls : d.op \in Saves
        BY <1>2, <3>1 DEF SettingsWaits
      <4> QED BY <3>1, <4>1
    <3> QED BY <3>1
  <2>3. view'.usageLoading => \E d \in calls' : d.op = "clips"
    <3>1. ASSUME view'.usageLoading PROVE \E d \in calls' : d.op = "clips"
      <4>1. PICK d \in calls : d.op = "clips"
        BY <1>2, <3>1 DEF SettingsWaits
      <4> QED BY <3>1, <4>1
    <3> QED BY <3>1
  <2> QED BY <1>2, <2>1, <2>2, <2>3 DEF SettingsWaits
<1>6. OneOfEach(calls')
  BY <1>2, <1>3 DEF OneOfEach
<1> QED BY <1>1, <1>4, <1>5, <1>6 DEF SettingsInv, SettingsTable

\* A request is followed by another one for which the page waits as well.
LEMMA SettingsGoesOn ==
  ASSUME Numbered(calls), SettingsTable, SettingsInv, NEW c \in calls, NEW op, NEW arg,
         calls' = With(calls \ {c}, op, arg), UNCHANGED <<retention, clips, lastClip, view>>,
         \/ c.op = "clips" /\ op = "clips" /\ Walked(lastClip, view.steady, arg)
         \/ c.op = "password" /\ op = "logout"
  PROVE  SettingsInv' /\ SettingsTable' /\ Numbered(calls')
<1>1. PICK T : T = calls \ {c}
  OBVIOUS
<1>2. calls' = With(T, op, arg)
  BY <1>1
<1>3. PICK k : Sends(T, k) /\ k.op = op /\ k.arg = arg /\ Numbered(calls')
  BY <1>1, <1>2, Sending
<1>4. calls' = (calls \ {c}) \cup {k} /\ k.answer = {} /\ k.stage = "sent"
  BY <1>1, <1>3 DEF Sends
<1>5. /\ SettingsCall(c, view, retention, lastClip) /\ OneOfEach(calls)
      /\ SettingsWaits(view, calls) /\ ~view.left
  BY DEF SettingsInv, SettingsWaits
<1>6. SettingsCall(k, view, retention, lastClip)
  BY <1>3, <1>4, <1>5 DEF SettingsCall, Saves
<1>7. /\ k \in calls' /\ \A d \in calls' : d = k \/ (d \in calls /\ d # c)
      /\ \A d \in calls : d = c \/ d \in calls'
  BY <1>4
<1>8. /\ c.op \in Saves <=> k.op \in Saves
      /\ c.op = "clips" <=> k.op = "clips"
      /\ c.op # "profile" /\ c.op # "retention" /\ k.op # "profile"
      /\ k.op \in {"clips", "logout"} /\ (k.op = "logout" => c.op \in Saves)
  BY <1>3 DEF Saves
<1>9. SettingsWaits(view, calls')
  BY <1>5, <1>7, <1>8 DEF SettingsWaits
<1>10. OneOfEach(calls')
  <2>1. \A d \in calls' : d # k => d.op # k.op /\ ~(d.op \in Saves /\ k.op \in Saves)
    BY <1>5, <1>7, <1>8 DEF OneOfEach, Saves
  <2> QED BY <1>5, <1>7, <2>1 DEF OneOfEach
<1>11. ProfileShown(view, calls', retention)
  BY <1>7, <1>8 DEF SettingsInv, ProfileShown
<1> QED BY <1>3, <1>6, <1>7, <1>9, <1>10, <1>11 DEF SettingsInv, SettingsTable

LEMMA SettingsAnswers ==
  ASSUME Numbered(calls), SettingsTable, SettingsInv, NEW c \in calls,
         Settings!ProfileAnswered(c) \/ Settings!RetentionAnswered(c)
  PROVE  SettingsInv' /\ SettingsTable' /\ Numbered(calls')
<1>1. SettingsCall(c, view, retention, lastClip) /\ c.stage = "served"
      /\ c.op \in {"profile", "retention"}
      /\ calls' = calls \ {c} /\ UNCHANGED <<retention, clips, lastClip>>
  BY DEF SettingsInv, Settings!ProfileAnswered, Settings!RetentionAnswered, Settings!Answered,
         Settings!table
<1>2. PICK a \in c.answer :
        \/ c.op = "profile" /\ view' = [view EXCEPT !.profile = a[1], !.loadingProfile = FALSE]
        \/ c.op = "retention" /\ view' = [view EXCEPT !.profile = a[1], !.saving = FALSE]
  BY DEF Settings!ProfileAnswered, Settings!RetentionAnswered, Settings!Answered
<1>3. PICK d \in Days : a = <<d>>
  BY <1>1 DEF SettingsCall, DayAnswers
<1>4. a[1] = d /\ (view.known => d = retention)
  BY <1>1, <1>3 DEF SettingsCall
<1>5. /\ view' \in SettingsViews(lastClip, clips) /\ view'.steady = view.steady
      /\ view'.left = view.left /\ view'.known = view.known /\ view'.profile = d
      /\ view'.usage = view.usage /\ view'.counted = view.counted
      /\ view'.truncated = view.truncated /\ view'.usageLoading = view.usageLoading
      /\ c.op = "profile" => view'.loadingProfile = FALSE /\ view'.saving = view.saving
      /\ c.op = "retention" => view'.loadingProfile = view.loadingProfile /\ view'.saving = FALSE
  <2>1. CASE /\ c.op = "profile"
             /\ view' = [view EXCEPT !.profile = a[1], !.loadingProfile = FALSE]
    BY <1>4, <2>1 DEF SettingsInv, SettingsViews
  <2>2. CASE /\ c.op = "retention"
             /\ view' = [view EXCEPT !.profile = a[1], !.saving = FALSE]
    BY <1>4, <2>2 DEF SettingsInv, SettingsViews
  <2> QED BY <1>2, <2>1, <2>2
<1>6. /\ view'.loadingProfile = (view.loadingProfile /\ c.op # "profile")
      /\ view'.saving = (view.saving /\ c.op \notin Saves)
      /\ view'.usageLoading = (view.usageLoading /\ c.op # "clips")
  BY <1>1, <1>5 DEF SettingsInv, SettingsViews, Saves
<1>7. ProfileShown(view', calls', retention)
  BY <1>4, <1>5 DEF ProfileShown
<1>8. UsageCounted(view')
  BY <1>5 DEF SettingsInv, UsageCounted
<1> QED BY <1>1, <1>5, <1>6, <1>7, <1>8, SettingsEnds

LEMMA SettingsWalks ==
  ASSUME Numbered(calls), SettingsTable, SettingsInv, NEW c \in calls, Settings!ClipsAnswered(c)
  PROVE  SettingsInv' /\ SettingsTable' /\ Numbered(calls')
<1>1. SettingsCall(c, view, retention, lastClip) /\ c.op = "clips"
      /\ UNCHANGED <<retention, clips, lastClip>>
  BY DEF SettingsInv, Settings!ClipsAnswered, Settings!Answered, Settings!table
<1> DEFINE Outcome(found, short) ==
             \/ /\ short \/ Len(found) = CLIPS_LIMIT * MaxPages
                /\ calls' = calls \ {c}
                /\ view' = [view EXCEPT !.usage = found, !.counted = TRUE, !.truncated = ~short,
                                        !.usageLoading = FALSE]
             \/ calls' = With(calls \ {c}, "clips", found) /\ view' = view
<1>2. PICK a, found, short :
        /\ a \in c.answer /\ found = c.arg \o a /\ short = (Len(a) < CLIPS_LIMIT)
        /\ Outcome(found, short)
  <2>1. PICK a \in c.answer :
          IF Len(a) < CLIPS_LIMIT \/ Len(c.arg \o a) = CLIPS_LIMIT * MaxPages
            THEN /\ calls' = calls \ {c}
                 /\ view' = [view EXCEPT !.usage = c.arg \o a, !.counted = TRUE,
                                         !.truncated = ~(Len(a) < CLIPS_LIMIT),
                                         !.usageLoading = FALSE]
            ELSE /\ calls' = Settings!With(calls \ {c}, "clips", c.arg \o a)
                 /\ UNCHANGED view
    BY DEF Settings!ClipsAnswered
  <2>2. PICK found, short : found = c.arg \o a /\ short = (Len(a) < CLIPS_LIMIT)
    OBVIOUS
  <2>3. Settings!With(calls \ {c}, "clips", found) = With(calls \ {c}, "clips", found)
    BY SettingsWords
  <2>4. CASE short \/ Len(found) = CLIPS_LIMIT * MaxPages
    <3>1. /\ calls' = calls \ {c}
          /\ view' = [view EXCEPT !.usage = found, !.counted = TRUE, !.truncated = ~short,
                                  !.usageLoading = FALSE]
      BY <2>1, <2>2, <2>4, Zenon
    <3>2. Outcome(found, short)
      BY <2>4, <3>1
    <3> HIDE DEF Outcome
    <3> QED BY <2>2, <3>2
  <2>5. CASE ~(short \/ Len(found) = CLIPS_LIMIT * MaxPages)
    <3>1. calls' = With(calls \ {c}, "clips", found) /\ view' = view
      BY <2>1, <2>2, <2>3, <2>5, Zenon
    <3>2. Outcome(found, short)
      BY <3>1
    <3> HIDE DEF Outcome
    <3> QED BY <2>2, <3>2
  <2> QED BY <2>4, <2>5
<1>3. PICK n, steady, arg :
        n = lastClip /\ steady = view.steady /\ arg = c.arg
  OBVIOUS
<1>4. /\ n \in Nat /\ steady \in SUBSET (1..n) /\ CLIPS_LIMIT \in Nat \ {0}
      /\ Walked(n, steady, arg) /\ Told(n, steady, arg, a)
  <2>1. n \in Nat /\ CLIPS_LIMIT \in Nat \ {0}
    BY <1>3, LimitPositive DEF SettingsTable
  <2>2. view.steady \subseteq clips /\ clips \subseteq 1..lastClip
    BY DEF SettingsTable, SettingsInv, SettingsViews
  <2>3. Walked(n, steady, arg) /\ Told(n, steady, arg, a)
    BY <1>1, <1>2, <1>3 DEF SettingsCall
  <2> QED BY <1>3, <2>1, <2>2, <2>3
<1>5. /\ Walked(n, steady, arg \o a) /\ IsInjective(arg \o a)
      /\ Len(a) < CLIPS_LIMIT => steady \subseteq ToSet(arg \o a)
  BY <1>4, WalkOn
<1>6. /\ Walked(lastClip, view.steady, found) /\ IsInjective(found)
      /\ short => view.steady \subseteq ToSet(found)
  <2>1. found = arg \o a /\ (short <=> Len(a) < CLIPS_LIMIT)
    BY <1>2, <1>3
  <2> QED BY <1>3, <1>5, <2>1
<1>7. CASE /\ short \/ Len(found) = CLIPS_LIMIT * MaxPages
           /\ calls' = calls \ {c}
           /\ view' = [view EXCEPT !.usage = found, !.counted = TRUE, !.truncated = ~short,
                                   !.usageLoading = FALSE]
  <2>1. found \in Seq(1..lastClip) /\ short \in BOOLEAN
    BY <1>2, <1>6 DEF Walked
  <2>2. /\ view' \in SettingsViews(lastClip, clips) /\ view'.steady = view.steady
        /\ view'.left = view.left /\ view'.known = view.known /\ view'.profile = view.profile
        /\ view'.usage = found /\ view'.counted = TRUE
        /\ view'.truncated = ~short /\ view'.usageLoading = FALSE
        /\ view'.loadingProfile = view.loadingProfile /\ view'.saving = view.saving
    BY <1>7, <2>1 DEF SettingsInv, SettingsViews
  <2>3. UsageCounted(view')
    BY <1>6, <1>7, <2>2 DEF UsageCounted
  <2>4. /\ view'.loadingProfile = (view.loadingProfile /\ c.op # "profile")
        /\ view'.saving = (view.saving /\ c.op \notin Saves)
        /\ view'.usageLoading = (view.usageLoading /\ c.op # "clips")
    BY <1>1, <2>2 DEF SettingsInv, SettingsViews, Saves
  <2>5. ProfileShown(view', calls', retention)
    BY <1>1, <1>7, <2>2 DEF SettingsInv, ProfileShown
  <2> QED BY <1>1, <1>7, <2>2, <2>3, <2>4, <2>5, SettingsEnds
<1>8. CASE calls' = With(calls \ {c}, "clips", found) /\ view' = view
  <2>1. PICK op : op = "clips"
    OBVIOUS
  <2>2. calls' = With(calls \ {c}, op, found)
    BY <1>8, <2>1
  <2> QED BY <1>1, <1>6, <1>8, <2>1, <2>2, SettingsGoesOn
<1> QED BY <1>2, <1>7, <1>8

LEMMA SettingsLeaves ==
  ASSUME Numbered(calls), SettingsTable, SettingsInv, calls' = {},
         view' = [view EXCEPT !.left = TRUE], UNCHANGED <<retention, clips, lastClip>>
  PROVE  SettingsInv' /\ SettingsTable' /\ Numbered(calls')
<1>1. /\ view' \in SettingsViews(lastClip, clips) /\ view'.left = TRUE
      /\ view'.usage = view.usage /\ view'.counted = view.counted
      /\ view'.truncated = view.truncated /\ view'.steady = view.steady
  BY DEF SettingsInv, SettingsViews
<1>2. UsageCounted(view') /\ SettingsWaits(view', calls') /\ ProfileShown(view', calls', retention)
  BY <1>1 DEF SettingsInv, UsageCounted, SettingsWaits, ProfileShown
<1>3. Numbered(calls')
  BY Fewer
<1>4. OneOfEach(calls')
  BY DEF OneOfEach
<1> QED BY <1>1, <1>2, <1>3, <1>4 DEF SettingsInv, SettingsTable

LEMMA SettingsFails ==
  ASSUME Numbered(calls), SettingsTable, SettingsInv, NEW c \in calls, Settings!CallFails(c)
  PROVE  SettingsInv' /\ SettingsTable' /\ Numbered(calls')
<1>1. SettingsCall(c, view, retention, lastClip) /\ UNCHANGED <<retention, clips, lastClip>>
  BY DEF SettingsInv, Settings!CallFails, Settings!table
<1>2. c.op \in {"profile", "clips"} \cup Saves
  BY <1>1 DEF SettingsCall
<1>3. CASE c.op \in {"profile", "logout"}
  <2>1. calls' = {} /\ view' = [view EXCEPT !.left = TRUE]
    BY <1>3 DEF Settings!CallFails, Settings!Leave
  <2> QED BY <1>1, <2>1, SettingsLeaves
<1>4. CASE c.op = "clips"
  <2>1. /\ calls' = calls \ {c}
        /\ view' = [view EXCEPT !.usage = <<>>, !.truncated = FALSE, !.usageLoading = FALSE]
    BY <1>4 DEF Settings!CallFails
  <2>2. <<>> \in Seq(1..lastClip)
    OBVIOUS
  <2>3. /\ view' \in SettingsViews(lastClip, clips) /\ view'.steady = view.steady
        /\ view'.left = view.left /\ view'.known = view.known /\ view'.profile = view.profile
        /\ view'.counted = view.counted /\ view'.usageLoading = FALSE
        /\ view'.loadingProfile = view.loadingProfile /\ view'.saving = view.saving
    BY <2>1, <2>2 DEF SettingsInv, SettingsViews
  <2>4. UsageCounted(view')
    BY <1>1, <1>4, <2>3 DEF SettingsCall, UsageCounted
  <2>5. /\ view'.loadingProfile = (view.loadingProfile /\ c.op # "profile")
        /\ view'.saving = (view.saving /\ c.op \notin Saves)
        /\ view'.usageLoading = (view.usageLoading /\ c.op # "clips")
    BY <1>4, <2>3 DEF SettingsInv, SettingsViews, Saves
  <2>6. ProfileShown(view', calls', retention)
    BY <1>4, <2>1, <2>3 DEF SettingsInv, ProfileShown
  <2> QED BY <1>1, <2>1, <2>3, <2>4, <2>5, <2>6, SettingsEnds
<1>5. CASE c.op \in {"retention", "password"}
  <2>1. PICK known : known = (view.known /\ c.op # "retention")
    OBVIOUS
  <2>2. calls' = calls \ {c} /\ view' = [view EXCEPT !.saving = FALSE, !.known = known]
    BY <1>5, <2>1 DEF Settings!CallFails
  <2>3. known \in BOOLEAN
    BY <2>1
  <2>4. /\ view' \in SettingsViews(lastClip, clips) /\ view'.steady = view.steady
        /\ view'.left = view.left /\ view'.known = known /\ view'.profile = view.profile
        /\ view'.usage = view.usage /\ view'.counted = view.counted
        /\ view'.truncated = view.truncated /\ view'.usageLoading = view.usageLoading
        /\ view'.loadingProfile = view.loadingProfile /\ view'.saving = FALSE
    BY <2>2, <2>3 DEF SettingsInv, SettingsViews
  <2>5. UsageCounted(view')
    BY <2>4 DEF SettingsInv, UsageCounted
  <2>6. /\ view'.loadingProfile = (view.loadingProfile /\ c.op # "profile")
        /\ view'.saving = (view.saving /\ c.op \notin Saves)
        /\ view'.usageLoading = (view.usageLoading /\ c.op # "clips")
    BY <1>5, <2>4 DEF SettingsInv, SettingsViews, Saves
  <2>7. ProfileShown(view', calls', retention)
    BY <1>5, <2>1, <2>2, <2>4 DEF SettingsInv, ProfileShown
  <2> QED BY <1>1, <2>1, <2>2, <2>4, <2>5, <2>6, <2>7, SettingsEnds
<1> QED BY <1>2, <1>3, <1>4, <1>5 DEF Saves

LEMMA SettingsStep ==
  ASSUME Numbered(calls), SettingsTable, SettingsInv, Settings!Next
  PROVE  SettingsInv' /\ SettingsTable' /\ Numbered(calls')
<1>1. ASSUME NEW c \in calls, Settings!PasswordAnswered(c)
      PROVE  SettingsInv' /\ SettingsTable' /\ Numbered(calls')
  <2>1. PICK op, arg : op = "logout" /\ arg = <<>>
    OBVIOUS
  <2>2. /\ calls' = With(calls \ {c}, op, arg) /\ c.op = "password"
        /\ UNCHANGED <<retention, clips, lastClip, view>>
    BY <1>1, <2>1, SettingsWords
       DEF Settings!PasswordAnswered, Settings!Answered, Settings!table
  <2> QED BY <2>1, <2>2, SettingsGoesOn
<1>2. ASSUME NEW c \in calls, Settings!LogoutAnswered(c)
      PROVE  SettingsInv' /\ SettingsTable' /\ Numbered(calls')
  <2>1. /\ calls' = {} /\ view' = [view EXCEPT !.left = TRUE]
        /\ UNCHANGED <<retention, clips, lastClip>>
    BY <1>2 DEF Settings!LogoutAnswered, Settings!Leave, Settings!table
  <2> QED BY <2>1, SettingsLeaves
<1>3. ASSUME NEW c \in calls, Settings!CallStep(c)
      PROVE  SettingsInv' /\ SettingsTable' /\ Numbered(calls')
  BY <1>1, <1>2, <1>3, SettingsServes, SettingsAnswers, SettingsWalks, SettingsFails
     DEF Settings!CallStep
<1> QED BY <1>3, SettingsSaves, SettingsElsewhere DEF Settings!Next

-----------------------------------------------------------------------------
(* The users. *)

UserRows == [id : 1..MaxUsers, role : Users!Roles, status : Users!Statuses]

\* Each user has an id of its own, and the administrator at the page stays.
UserTable ==
  /\ users \subseteq UserRows
  /\ \A u, w \in users : u.id = w.id => u = w
  /\ \E u \in users : u.id = Users!Self

LEMMA UsersCardinality == \A T : Users!Cardinality(T) = Cardinality(T)
BY DEF Users!Cardinality, Cardinality

LEMMA UsersWords ==
  /\ \A T, op, arg : /\ Users!With(T, op, arg) = With(T, op, arg)
                     /\ Users!NewCall(op, arg, T) = NewCall(op, arg, T)
  /\ \A c, answer : Users!Serve(c, answer) <=> Serve(c, answer)
  /\ \A c : Users!Refuse(c) <=> Refuse(c)
BY UsersCardinality
   DEF Users!With, Users!NewCall, With, NewCall, Users!Serve, Serve, Users!Refuse, Refuse

LEMMA UsersLists ==
  /\ \A S : Users!Descending(S) = Descending(S)
  /\ \A s : Users!ToSet(s) = ToSet(s)
  /\ \A s : Users!IsInjective(s) <=> IsInjective(s)
<1>1. \A S : Users!Descending(S) = Descending(S)
  BY UsersCardinality DEF Users!Descending, Descending
<1>2. \A s : Users!ToSet(s) = ToSet(s)
  BY DEF Users!ToSet, ToSet
<1>3. \A s : Users!IsInjective(s) <=> IsInjective(s)
  BY DEF Users!IsInjective, IsInjective
<1> QED BY <1>1, <1>2, <1>3

\* There are as many users as ids, and no more than ids there may be.
LEMMA UsersCounted ==
  ASSUME UserTable, NEW I, I = {u.id : u \in users}
  PROVE  /\ I \subseteq 1..MaxUsers /\ MaxUsers \in Nat
         /\ IsFiniteSet(users) /\ Cardinality(users) = Cardinality(I)
         /\ Cardinality(users) \in 0..MaxUsers
<1> DEFINE f == [u \in users |-> u.id]
<1>1. MaxUsers \in Nat
  BY ConsoleAssumption
<1>2. I \subseteq 1..MaxUsers
  BY DEF UserTable, UserRows
<1>3. IsFiniteSet(I) /\ Cardinality(I) \in Nat /\ Cardinality(I) <= MaxUsers
  BY <1>1, <1>2, Bounded
<1>4. f \in Injection(users, I)
  <2>1. f \in [users -> I]
    OBVIOUS
  <2>2. \A u, w \in users : f[u] = f[w] => u = w
    BY DEF UserTable
  <2> HIDE DEF f
  <2> QED BY <2>1, <2>2 DEF Injection, IsInjective
<1>5. f \in Surjection(users, I)
  <2>1. \A i \in I : \E u \in users : f[u] = i
    OBVIOUS
  <2>2. f \in [users -> I]
    OBVIOUS
  <2> HIDE DEF f
  <2> QED BY <2>1, <2>2 DEF Surjection
<1> HIDE DEF f
<1>6. IsFiniteSet(users) /\ Cardinality(users) = Cardinality(I)
  BY <1>3, <1>4, <1>5, FS_Injection
<1> QED BY <1>1, <1>2, <1>3, <1>6

\* The rows of the table, in the order of the list.
LEMMA UsersRows ==
  ASSUME UserTable, NEW r, r = Users!Rows
  PROVE  /\ r \in Seq(UserRows) /\ IsInjective(r) /\ Len(r) = Cardinality(users)
         /\ Len(r) >= 1
<1>1. PICK I, ids : I = {u.id : u \in users} /\ ids = Descending(I)
  OBVIOUS
<1>2. /\ I \subseteq 1..MaxUsers /\ MaxUsers \in Nat
      /\ Cardinality(users) = Cardinality(I) /\ Cardinality(users) \in 0..MaxUsers
  BY <1>1, UsersCounted
<1>3. ids \in Seq(I) /\ Len(ids) = Cardinality(I) /\ IsInjective(ids) /\ ToSet(ids) = I
  <2>1. PICK n \in Nat : n = MaxUsers
    BY <1>2
  <2>2. I \subseteq 1..n
    BY <1>2, <2>1
  <2> QED BY <1>1, <2>2, DescendingList
<1>4. Users!Descending({u.id : u \in users}) = ids
  BY <1>1, UsersLists
<1>5. r = [k \in DOMAIN ids |-> CHOOSE u \in users : u.id = ids[k]]
  <2> DEFINE order == Users!Descending({u.id : u \in users})
  <2>1. r = [k \in DOMAIN order |-> CHOOSE u \in users : u.id = order[k]]
    BY Zenon DEF Users!Rows
  <2> HIDE DEF order
  <2>2. order = ids
    BY <1>4 DEF order
  <2> QED BY <2>1, <2>2, Zenon
<1>6. DOMAIN ids = 1..Len(ids) /\ Len(ids) \in Nat
  BY <1>3
<1>7. \A k \in 1..Len(ids) : ids[k] \in I
  BY <1>3
<1>8. ASSUME NEW k \in 1..Len(ids) PROVE r[k] \in users /\ r[k].id = ids[k]
  <2>1. r[k] = CHOOSE u \in users : u.id = ids[k]
    BY <1>5, <1>6
  <2>2. \E u \in users : u.id = ids[k]
    BY <1>1, <1>7
  <2> QED BY <2>1, <2>2, Zenon
<1>9. r \in [1..Len(ids) -> UserRows]
  BY <1>5, <1>6, <1>8 DEF UserTable
<1>10. r \in Seq(UserRows) /\ Len(r) = Len(ids)
  BY <1>6, <1>9, Listed
<1>11. IsInjective(r)
  <2> SUFFICES ASSUME NEW i \in 1..Len(ids), NEW j \in 1..Len(ids), r[i] = r[j]
               PROVE  i = j
    BY <1>10, NoRepeats
  <2>1. ids[i] = ids[j]
    BY <1>8
  <2> QED BY <1>3, <1>6, <2>1 DEF IsInjective
<1>12. I # {}
  BY <1>1 DEF UserTable
<1>13. Len(ids) # 0
  <2>1. PICK i : i \in I
    BY <1>12
  <2>2. \E k \in 1..Len(ids) : ids[k] = i
    BY <1>3, <1>6, <2>1, Elements
  <2> QED BY <1>6, <2>2
<1> QED BY <1>2, <1>3, <1>6, <1>10, <1>11, <1>13

\* A page of them: the button to the next one is right.
LEMMA UsersSlice ==
  ASSUME UserTable, NEW p \in Nat, NEW s, s = Users!Slice(p)
  PROVE  /\ s \in Seq(UserRows) /\ IsInjective(s) /\ Len(s) <= PAGE_SIZE
         /\ p = 0 => s # <<>>
         /\ p * PAGE_SIZE + Len(s) < Cardinality(users) <=> (p + 1) * PAGE_SIZE < Cardinality(users)
<1>1. PICK r : r = Users!Rows
  OBVIOUS
<1>2. r \in Seq(UserRows) /\ IsInjective(r) /\ Len(r) = Cardinality(users) /\ Len(r) >= 1
  BY <1>1, UsersRows
<1>3. PICK k, z, e : /\ k = p * PAGE_SIZE /\ z = PAGE_SIZE
                     /\ e = IF (p + 1) * PAGE_SIZE < Len(r) THEN (p + 1) * PAGE_SIZE ELSE Len(r)
  OBVIOUS
<1>4. s = SubSeq(r, k + 1, e)
  BY <1>1, <1>3 DEF Users!Slice
<1>5. /\ k \in Nat /\ z \in Nat \ {0} /\ (p + 1) * PAGE_SIZE = k + z
      /\ p = 0 => k = 0
  <2>1. z \in Nat \ {0}
    BY <1>3, LimitPositive
  <2>2. k = p * z /\ (p + 1) * PAGE_SIZE = (p + 1) * z
    BY <1>3
  <2>3. p * z \in Nat /\ (p + 1) * z = p * z + z
    BY <2>1
  <2>4. p = 0 => p * z = 0
    BY <2>1
  <2> QED BY <2>1, <2>2, <2>3, <2>4
<1>6. Len(r) \in Nat /\ e = IF k + z < Len(r) THEN k + z ELSE Len(r)
  BY <1>2, <1>3, <1>5
<1>7. e \in Nat /\ e <= Len(r) /\ e <= k + z
  BY <1>5, <1>6
<1>8. /\ s \in Seq(UserRows)
      /\ Len(s) = IF k + 1 <= e THEN e - k ELSE 0
      /\ \A i \in 1..Len(s) : s[i] = r[k + i]
  <2>1. PICK a, n : a = k + 1 /\ n = Len(r)
    OBVIOUS
  <2>2. a \in Nat \ {0} /\ n \in Nat /\ e \in Nat /\ e <= n /\ s = SubSeq(r, a, e)
    BY <1>4, <1>5, <1>6, <1>7, <2>1
  <2>3. /\ s \in Seq(UserRows) /\ Len(s) = IF a <= e THEN e - a + 1 ELSE 0
        /\ \A i \in 1..Len(s) : s[i] = r[a + i - 1]
    BY <1>2, <2>1, <2>2
  <2> QED BY <1>5, <1>7, <2>1, <2>3
<1>9. Len(s) \in Nat /\ Len(s) <= z
  BY <1>5, <1>7, <1>8
<1>10. IsInjective(s)
  <2> SUFFICES ASSUME NEW i \in 1..Len(s), NEW j \in 1..Len(s), s[i] = s[j]
               PROVE  i = j
    BY <1>8, NoRepeats
  <2>1. k + i \in 1..Len(r) /\ k + j \in 1..Len(r) /\ r[k + i] = r[k + j]
    <3>1. \A x \in 1..Len(s) : k + x \in 1..Len(r)
      <4>1. \A x \in Nat : x >= 1 /\ x <= Len(s) => k + x >= 1 /\ k + x <= Len(r)
        BY <1>5, <1>6, <1>7, <1>8, <1>9
      <4> QED BY <1>5, <1>6, <1>9, <4>1
    <3>2. s[i] = r[k + i] /\ s[j] = r[k + j]
      BY <1>8
    <3> QED BY <3>1, <3>2
  <2>2. k + i = k + j
    BY <1>2, <2>1, NoRepeats
  <2> QED BY <1>5, <1>9, <2>2
<1>11. p = 0 => s # <<>>
  <2>1. p = 0 => Len(s) # 0
    BY <1>2, <1>5, <1>6, <1>8
  <2> QED BY <2>1
<1>12. k + Len(s) < Len(r) <=> k + z < Len(r)
  BY <1>5, <1>6, <1>8
<1> QED BY <1>2, <1>3, <1>5, <1>8, <1>9, <1>10, <1>11, <1>12

Targets == UserRows \cup {Users!NoUser}

UserViews ==
  [list : Seq(UserRows), total : 0..MaxUsers, page : 0..MaxUsers, hasMore : BOOLEAN,
   loading : BOOLEAN, error : BOOLEAN,
   editing : Targets, editLoading : BOOLEAN, resetting : Targets, resetLoading : BOOLEAN,
   toggling : Targets, toggleLoading : BOOLEAN, newest : Nat, listed : BOOLEAN]

\* Before the first list, the page is on the first page and without a modal.
UsersView(v) ==
  /\ v \in UserViews /\ IsInjective(v.list) /\ Len(v.list) <= PAGE_SIZE
  /\ v.list = <<>> => /\ v.page = 0 /\ v.total = 0 /\ v.editing = Users!NoUser
                      /\ v.resetting = Users!NoUser /\ v.toggling = Users!NoUser

\* An answer for page p; the first page is never empty.
PageAnswer(p, a) ==
  /\ a[1] \in Seq(UserRows) /\ a[2] \in 0..MaxUsers /\ IsInjective(a[1]) /\ Len(a[1]) <= PAGE_SIZE
  /\ p = 0 => a[1] # <<>>

UsersCall(c, v) ==
  /\ c.op \in {"list", "edit", "toggle", "reset"}
  /\ c.arg[1] \in 0..MaxUsers
  /\ c.op \in {"edit", "toggle"} => c.arg[2] \in UserRows
  /\ v.list = <<>> => c.op = "list" /\ c.arg[1] = 0
  /\ c.op = "list" => \A a \in c.answer : PageAnswer(c.arg[1], a)

\* Whoever waits, waits for a request; and so does a page without a list that
\* shows no error.
UsersWaits(v, T) ==
  /\ v.loading => \E c \in T : c.op = "list"
  /\ v.editLoading => \E c \in T : c.op = "edit"
  /\ v.resetLoading => \E c \in T : c.op = "reset"
  /\ v.toggleLoading => \E c \in T : c.op = "toggle"
  /\ v.list # <<>> \/ v.error \/ \E c \in T : c.op = "list"

\* A change has been made that will be followed by another list.
UserChanged(T) == \E c \in T : c.op \in {"edit", "toggle"} /\ c.stage = "served"

UsersPages == [p \in 0..MaxUsers |-> Users!Slice(p)]

\* The latest list, shown or answered, is page by page what there is, of n users.
UsersShown(v, T, pages, n) ==
  /\ v.listed => \/ UserChanged(T)
                 \/ v.list = pages[v.page] /\ (v.hasMore <=> (v.page + 1) * PAGE_SIZE < n)
  /\ \A c \in T : c.op = "list" /\ c.stage = "served" /\ c.id = v.newest =>
       UserChanged(T) \/ c.answer \subseteq {<<pages[c.arg[1]], n>>}

UsersInv ==
  /\ UsersView(view) /\ \A c \in calls : UsersCall(c, view)
  /\ UsersWaits(view, calls) /\ UsersShown(view, calls, UsersPages, Cardinality(users))

LEMMA UsersPagesSame ==
  ASSUME users' = users
  PROVE  UsersPages' = UsersPages /\ Cardinality(users)' = Cardinality(users)
BY DEF UsersPages, Users!Slice, Users!Rows

\* A list is asked for.
LEMMA UsersFetch ==
  ASSUME Numbered(calls), UserTable, UsersInv, NEW gone, gone \subseteq calls, NEW v, UsersView(v),
         NEW p \in 0..MaxUsers, Users!FetchAfter(v, p, gone), users' = users,
         v.list = view.list, view.list = <<>> => p = 0,
         v.editLoading => \E c \in calls \ gone : c.op = "edit",
         v.resetLoading => \E c \in calls \ gone : c.op = "reset",
         v.toggleLoading => \E c \in calls \ gone : c.op = "toggle"
  PROVE  UsersInv' /\ UserTable' /\ Numbered(calls')
<1>1. PICK T, op, arg : T = calls \ gone /\ op = "list" /\ arg = <<p, Users!NoUser>>
  OBVIOUS
<1>2. Numbered(T)
  BY <1>1, Fewer
<1>3. PICK k : k = NewCall(op, arg, T) /\ IsNew(k, op, arg, T)
  BY <1>2, AskedFor
<1>4. /\ IsCall(k) /\ k.op = op /\ k.arg = arg /\ k.stage = "sent" /\ k.answer = {}
      /\ \A d \in T : d.id # k.id
      /\ Numbered(T \cup {k})
  BY <1>3 DEF IsNew
<1>5. Users!NewCall("list", Users!OnPage(p), calls \ gone) = k
  BY <1>1, <1>3, UsersWords DEF Users!OnPage
<1>6. /\ calls' = T \cup {k}
      /\ view' = [v EXCEPT !.error = FALSE, !.newest = k.id, !.listed = FALSE]
  BY <1>1, <1>5 DEF Users!FetchAfter
<1>7. k.id \in Nat
  BY <1>4 DEF IsCall
<1>8. UsersView(view') /\ view'.newest = k.id /\ view'.listed = FALSE /\ view'.list = view.list
      /\ view'.loading = v.loading /\ view'.editLoading = v.editLoading
      /\ view'.resetLoading = v.resetLoading /\ view'.toggleLoading = v.toggleLoading
  BY <1>6, <1>7 DEF UsersView, UserViews
<1>9. \A c \in calls' : c = k \/ c \in T
  BY <1>6
<1>10. \A c \in calls' : UsersCall(c, view')
  <2>1. \A c \in T : UsersCall(c, view')
    BY <1>1, <1>8 DEF UsersInv, UsersCall
  <2>2. k.op = "list" /\ k.arg[1] = p
    BY <1>1, <1>4
  <2>3. UsersCall(k, view')
    BY <1>4, <1>8, <2>2 DEF UsersCall
  <2> QED BY <1>9, <2>1, <2>3
<1>11. UsersWaits(view', calls')
  <2>1. k \in calls' /\ k.op = "list" /\ \A c \in T : c \in calls'
    BY <1>1, <1>4, <1>6
  <2> QED BY <1>1, <1>8, <2>1 DEF UsersWaits
<1>12. UsersShown(view', calls', UsersPages', Cardinality(users)')
  <2>1. \A c \in calls' : c.id = view'.newest => c.stage # "served"
    BY <1>4, <1>8, <1>9
  <2> QED BY <1>8, <2>1 DEF UsersShown
<1>13. Numbered(calls')
  BY <1>4, <1>6
<1> QED BY <1>8, <1>10, <1>11, <1>12, <1>13 DEF UsersInv, UserTable

LEMMA UsersAsks ==
  ASSUME Numbered(calls), UserTable, UsersInv,
         Users!Retry \/ Users!Refresh \/ \E p \in 0..MaxUsers : Users!TurnTo(p)
  PROVE  UsersInv' /\ UserTable' /\ Numbered(calls')
<1>1. PICK none : none = {}
  OBVIOUS
<1>2. /\ none \subseteq calls
      /\ view.editLoading => \E c \in calls \ none : c.op = "edit"
      /\ view.resetLoading => \E c \in calls \ none : c.op = "reset"
      /\ view.toggleLoading => \E c \in calls \ none : c.op = "toggle"
      /\ view.page \in 0..MaxUsers /\ (view.list = <<>> => view.page = 0 /\ view.total = 0)
  BY <1>1 DEF UsersInv, UsersWaits, UsersView, UserViews
<1>3. PICK v, p : /\ Users!FetchAfter(v, p, none) /\ users' = users /\ p \in 0..MaxUsers
                  /\ UsersView(v) /\ v.list = view.list /\ (view.list = <<>> => p = 0)
                  /\ v.editLoading = view.editLoading /\ v.resetLoading = view.resetLoading
                  /\ v.toggleLoading = view.toggleLoading
  <2>1. CASE Users!Retry
    <3>1. PICK v : v = [view EXCEPT !.loading = TRUE]
      OBVIOUS
    <3>2. Users!FetchAfter(v, view.page, none) /\ users' = users
      BY <1>1, <2>1, <3>1 DEF Users!Retry
    <3>3. /\ UsersView(v) /\ v.list = view.list
          /\ v.editLoading = view.editLoading /\ v.resetLoading = view.resetLoading
          /\ v.toggleLoading = view.toggleLoading
      BY <3>1 DEF UsersInv, UsersView, UserViews
    <3> QED BY <1>2, <3>2, <3>3
  <2>2. CASE Users!Refresh
    <3>1. Users!FetchAfter(view, view.page, none) /\ users' = users
      BY <1>1, <2>2 DEF Users!Refresh
    <3>2. PICK v : v = view
      OBVIOUS
    <3> QED BY <1>2, <3>1, <3>2 DEF UsersInv
  <2>3. ASSUME NEW p \in 0..MaxUsers, Users!TurnTo(p)
        PROVE  \E v, q : /\ Users!FetchAfter(v, q, none) /\ users' = users /\ q \in 0..MaxUsers
                         /\ UsersView(v) /\ v.list = view.list /\ (view.list = <<>> => q = 0)
                         /\ v.editLoading = view.editLoading /\ v.resetLoading = view.resetLoading
                         /\ v.toggleLoading = view.toggleLoading
    <3>1. PICK v : v = [view EXCEPT !.page = p, !.loading = TRUE]
      OBVIOUS
    <3>2. Users!FetchAfter(v, p, none) /\ users' = users /\ view.total > 0
      BY <1>1, <2>3, <3>1 DEF Users!TurnTo
    <3>3. view.list # <<>>
      BY <1>2, <3>2
    <3>4. /\ UsersView(v) /\ v.list = view.list
          /\ v.editLoading = view.editLoading /\ v.resetLoading = view.resetLoading
          /\ v.toggleLoading = view.toggleLoading
      BY <3>1, <3>3 DEF UsersInv, UsersView, UserViews
    <3> QED BY <3>2, <3>3, <3>4
  <2> QED BY <2>1, <2>2, <2>3
<1> QED BY <1>2, <1>3, UsersFetch

\* A modal opens or closes.
LEMMA UsersModals ==
  ASSUME Numbered(calls), UserTable, UsersInv,
         Users!CloseModal \/ \E u \in Users!ToSet(view.list) : Users!OpenModal(u)
  PROVE  UsersInv' /\ UserTable' /\ Numbered(calls')
<1>1. users' = users /\ calls' = calls
  BY DEF Users!CloseModal, Users!OpenModal
<1>2. /\ UsersView(view') /\ view'.list = view.list /\ view'.page = view.page
      /\ view'.hasMore = view.hasMore /\ view'.loading = view.loading
      /\ view'.error = view.error /\ view'.editLoading = view.editLoading
      /\ view'.resetLoading = view.resetLoading /\ view'.toggleLoading = view.toggleLoading
      /\ view'.newest = view.newest /\ view'.listed = view.listed
  <2>1. CASE Users!CloseModal
    <3>1. PICK none : none = Users!NoUser
      OBVIOUS
    <3>2. PICK S : view' = [view EXCEPT !.editing = IF "editing" \in S THEN none ELSE @,
                                        !.resetting = IF "resetting" \in S THEN none ELSE @,
                                        !.toggling = IF "toggling" \in S THEN none ELSE @]
      BY <2>1, <3>1 DEF Users!CloseModal
    <3>3. PICK e, r, t :
            /\ e = (IF "editing" \in S THEN none ELSE view.editing)
            /\ r = (IF "resetting" \in S THEN none ELSE view.resetting)
            /\ t = (IF "toggling" \in S THEN none ELSE view.toggling)
      OBVIOUS
    <3>4. view' = [view EXCEPT !.editing = e, !.resetting = r, !.toggling = t]
      BY <3>2, <3>3
    <3>5. UsersView(view) /\ none \in Targets
      BY <3>1 DEF Targets, UsersInv
    <3>6. {e, r, t} \subseteq Targets
      BY <3>3, <3>5 DEF UsersView, UserViews
    <3>7. view.list = <<>> => e = none /\ r = none /\ t = none
      BY <3>1, <3>3, <3>5 DEF UsersView
    <3> QED BY <3>1, <3>4, <3>5, <3>6, <3>7 DEF UsersView, UserViews
  <2>2. ASSUME NEW u \in Users!ToSet(view.list), Users!OpenModal(u)
        PROVE  /\ UsersView(view') /\ view'.list = view.list /\ view'.page = view.page
               /\ view'.hasMore = view.hasMore /\ view'.loading = view.loading
               /\ view'.error = view.error /\ view'.editLoading = view.editLoading
               /\ view'.resetLoading = view.resetLoading
               /\ view'.toggleLoading = view.toggleLoading
               /\ view'.newest = view.newest /\ view'.listed = view.listed
    <3>1. view.list \in Seq(UserRows)
      BY DEF UsersInv, UsersView, UserViews
    <3>2. PICK i \in 1..Len(view.list) : u = view.list[i]
      BY <3>1, UsersLists, Elements
    <3>3. u \in Targets /\ view.list # <<>>
      BY <3>1, <3>2 DEF Targets
    <3>4. CASE view' = [view EXCEPT !.editing = u]
      BY <3>3, <3>4 DEF UsersInv, UsersView, UserViews
    <3>5. CASE view' = [view EXCEPT !.resetting = u]
      BY <3>3, <3>5 DEF UsersInv, UsersView, UserViews
    <3>6. CASE view' = [view EXCEPT !.toggling = u]
      BY <3>3, <3>6 DEF UsersInv, UsersView, UserViews
    <3> QED BY <2>2, <3>4, <3>5, <3>6 DEF Users!OpenModal
  <2> QED BY <2>1, <2>2
<1>3. \A c \in calls : UsersCall(c, view')
  BY <1>2 DEF UsersInv, UsersCall
<1>4. UsersWaits(view', calls) /\ UsersShown(view', calls, UsersPages, Cardinality(users))
  BY <1>2 DEF UsersInv, UsersWaits, UsersShown
<1> QED BY <1>1, <1>2, <1>3, <1>4, UsersPagesSame DEF UsersInv, UserTable

\* The administrator submits a modal.
LEMMA UsersSubmits ==
  ASSUME Numbered(calls), UserTable, UsersInv,
         \/ Users!SubmitReset \/ Users!HandleToggleStatus
         \/ \E r \in Users!Roles, s \in Users!Statuses : Users!SubmitEdit(Users!User(view.editing.id, r, s))
  PROVE  UsersInv' /\ UserTable' /\ Numbered(calls')
<1>1. view \in UserViews /\ view.page \in 0..MaxUsers
  BY DEF UsersInv, UsersView, UserViews
<1>2. view.list # <<>>
  BY DEF UsersInv, UsersView, Users!SubmitReset, Users!HandleToggleStatus, Users!SubmitEdit
<1>3. users' = users
  BY DEF Users!SubmitReset, Users!HandleToggleStatus, Users!SubmitEdit
<1>4. PICK op, u, arg :
        /\ calls' = With(calls, op, arg) /\ arg = <<view.page, u>>
        /\ \/ op = "edit" /\ u \in UserRows /\ view' = [view EXCEPT !.editLoading = TRUE]
           \/ op = "reset" /\ view' = [view EXCEPT !.resetLoading = TRUE]
           \/ op = "toggle" /\ u \in UserRows /\ view' = [view EXCEPT !.toggleLoading = TRUE]
  <2>1. CASE Users!SubmitReset
    <3>1. PICK op, u, arg : op = "reset" /\ u = view.resetting /\ arg = <<view.page, u>>
      OBVIOUS
    <3>2. calls' = With(calls, op, arg) /\ view' = [view EXCEPT !.resetLoading = TRUE]
      BY <2>1, <3>1, UsersWords DEF Users!SubmitReset, Users!OnUser
    <3> QED BY <3>1, <3>2
  <2>2. CASE Users!HandleToggleStatus
    <3>1. PICK op, u, arg : op = "toggle" /\ u = Users!Opposite(view.toggling) /\ arg = <<view.page, u>>
      OBVIOUS
    <3>2. /\ calls' = With(calls, op, arg) /\ view' = [view EXCEPT !.toggleLoading = TRUE]
          /\ view.toggling # Users!NoUser
      BY <2>2, <3>1, UsersWords DEF Users!HandleToggleStatus, Users!OnUser
    <3>3. view.toggling \in UserRows
      BY <1>1, <3>2 DEF UserViews, Targets
    <3>4. u \in UserRows
      BY <3>1, <3>3 DEF UserRows, Users!Opposite, Users!Statuses
    <3> QED BY <3>1, <3>2, <3>4
  <2>3. ASSUME NEW r \in Users!Roles, NEW s \in Users!Statuses,
               Users!SubmitEdit(Users!User(view.editing.id, r, s))
        PROVE  \E op, u, arg :
                 /\ calls' = With(calls, op, arg) /\ arg = <<view.page, u>>
                 /\ op = "edit" /\ u \in UserRows /\ view' = [view EXCEPT !.editLoading = TRUE]
    <3>1. PICK op, u, arg : /\ op = "edit" /\ u = Users!User(view.editing.id, r, s)
                            /\ arg = <<view.page, u>>
      OBVIOUS
    <3>2. /\ calls' = With(calls, op, arg) /\ view' = [view EXCEPT !.editLoading = TRUE]
          /\ view.editing # Users!NoUser
      BY <2>3, <3>1, UsersWords DEF Users!SubmitEdit, Users!OnUser
    <3>3. view.editing \in UserRows
      BY <1>1, <3>2 DEF UserViews, Targets
    <3>4. u \in UserRows
      BY <3>1, <3>3 DEF UserRows, Users!User
    <3> QED BY <3>1, <3>2, <3>4
  <2> QED BY <2>1, <2>2, <2>3
<1>5. PICK k : Sends(calls, k) /\ k.op = op /\ k.arg = arg /\ Numbered(calls')
  BY <1>4, Sending
<1>6. calls' = calls \cup {k} /\ k.stage = "sent" /\ k.answer = {}
  BY <1>5 DEF Sends
<1>7. /\ UsersView(view') /\ view'.list = view.list /\ view'.page = view.page
      /\ view'.hasMore = view.hasMore /\ view'.loading = view.loading
      /\ view'.error = view.error /\ view'.newest = view.newest /\ view'.listed = view.listed
      /\ view'.editLoading => view.editLoading \/ op = "edit"
      /\ view'.resetLoading => view.resetLoading \/ op = "reset"
      /\ view'.toggleLoading => view.toggleLoading \/ op = "toggle"
  <2>1. CASE view' = [view EXCEPT !.editLoading = TRUE] /\ op = "edit"
    BY <1>1, <2>1 DEF UsersInv, UsersView, UserViews
  <2>2. CASE view' = [view EXCEPT !.resetLoading = TRUE] /\ op = "reset"
    BY <1>1, <2>2 DEF UsersInv, UsersView, UserViews
  <2>3. CASE view' = [view EXCEPT !.toggleLoading = TRUE] /\ op = "toggle"
    BY <1>1, <2>3 DEF UsersInv, UsersView, UserViews
  <2> QED BY <1>4, <2>1, <2>2, <2>3
<1>8. /\ k \in calls' /\ \A c \in calls : c \in calls'
      /\ \A c \in calls' : c = k \/ c \in calls
  BY <1>6
<1>9. \A c \in calls' : UsersCall(c, view')
  <2>1. \A c \in calls : UsersCall(c, view')
    BY <1>7 DEF UsersInv, UsersCall
  <2>2. k.arg[1] = view.page /\ k.arg[2] = u
    BY <1>4, <1>5
  <2>3. UsersCall(k, view')
    BY <1>1, <1>2, <1>4, <1>5, <1>6, <1>7, <2>2 DEF UsersCall
  <2> QED BY <1>8, <2>1, <2>3
<1>10. UsersWaits(view', calls')
  BY <1>2, <1>5, <1>7, <1>8 DEF UsersInv, UsersWaits
<1>11. UsersShown(view', calls', UsersPages, Cardinality(users))
  <2>1. k.stage # "served"
    BY <1>6
  <2>2. UserChanged(calls) => UserChanged(calls')
    BY <1>8 DEF UserChanged
  <2> QED BY <1>7, <1>8, <2>1, <2>2 DEF UsersInv, UsersShown
<1> QED BY <1>3, <1>5, <1>7, <1>9, <1>10, <1>11, UsersPagesSame DEF UsersInv, UserTable

\* Others come, change or go.
LEMMA UsersElsewhere ==
  ASSUME Numbered(calls), UserTable, UsersInv, Users!ChangeElsewhere
  PROVE  UsersInv' /\ UserTable' /\ Numbered(calls')
<1>1. calls' = calls /\ view' = [view EXCEPT !.newest = 0, !.listed = FALSE]
  BY DEF Users!ChangeElsewhere
<1>2. /\ UsersView(view') /\ view'.list = view.list /\ view'.newest = 0 /\ view'.listed = FALSE
      /\ view'.loading = view.loading /\ view'.editLoading = view.editLoading
      /\ view'.resetLoading = view.resetLoading /\ view'.toggleLoading = view.toggleLoading
      /\ view'.error = view.error
  BY <1>1 DEF UsersInv, UsersView, UserViews
<1>3. \A c \in calls : UsersCall(c, view')
  BY <1>2 DEF UsersInv, UsersCall
<1>4. UsersWaits(view', calls)
  BY <1>2 DEF UsersInv, UsersWaits
<1>5. UsersShown(view', calls, UsersPages', Cardinality(users)')
  <2>1. \A c \in calls : c.id # 0
    BY DEF Numbered, IsCall
  <2> QED BY <1>2, <2>1 DEF UsersShown
<1>6. UserTable'
  <2>1. CASE \E id \in 1..MaxUsers :
               /\ \A u \in users : u.id < id
               /\ users' = users \cup {Users!User(id, "user", "active")}
    <3>1. PICK id, w :
            /\ id \in 1..MaxUsers /\ \A u \in users : u.id < id
            /\ w = Users!User(id, "user", "active") /\ users' = users \cup {w}
      BY <2>1
    <3>2. w \in UserRows /\ w.id = id
      BY <3>1 DEF Users!User, UserRows, Users!Roles, Users!Statuses
    <3>3. \A u \in users : u.id # id
      BY <3>1 DEF UserTable, UserRows
    <3> QED BY <3>1, <3>2, <3>3 DEF UserTable
  <2>2. ASSUME NEW u \in users, u.id # Users!Self,
               users' \in {users \ {u}, (users \ {u}) \cup {Users!Opposite(u)}}
        PROVE  UserTable'
    <3>1. PICK w : w = Users!Opposite(u)
      OBVIOUS
    <3>2. u \in UserRows
      BY DEF UserTable
    <3>3. w \in UserRows /\ w.id = u.id
      BY <3>1, <3>2 DEF UserRows, Users!Opposite, Users!Statuses
    <3>4. users' = users \ {u} \/ users' = (users \ {u}) \cup {w}
      BY <2>2, <3>1
    <3> QED BY <2>2, <3>3, <3>4 DEF UserTable
  <2> QED BY <2>1, <2>2 DEF Users!ChangeElsewhere
<1> QED BY <1>1, <1>2, <1>3, <1>4, <1>5, <1>6 DEF UsersInv

\* The server answers or refuses.
LEMMA UsersMoves ==
  ASSUME UsersInv, NEW c \in calls, NEW k, calls' = (calls \ {c}) \cup {k}, k.op = c.op,
         view' = view, UsersCall(k, view),
         UsersShown(view, calls', UsersPages', Cardinality(users)')
  PROVE  UsersInv'
<1>1. k \in calls' /\ \A d \in calls : d = c \/ d \in calls'
  OBVIOUS
<1>2. \A d \in calls' : d = k \/ d \in calls
  OBVIOUS
<1>3. UsersWaits(view, calls')
  BY <1>1 DEF UsersInv, UsersWaits
<1>4. \A d \in calls' : UsersCall(d, view)
  BY <1>2 DEF UsersInv
<1> QED BY <1>3, <1>4 DEF UsersInv

LEMMA UsersServes ==
  ASSUME Numbered(calls), UserTable, UsersInv, NEW c \in calls,
         Users!ServeList(c) \/ Users!ServeReset(c)
  PROVE  UsersInv' /\ UserTable' /\ Numbered(calls')
<1>1. UsersCall(c, view) /\ users' = users /\ view' = view /\ c.op \in {"list", "reset"}
      /\ c.arg[1] \in 0..MaxUsers
  BY DEF UsersInv, UsersCall, Users!ServeList, Users!ServeReset, Users!Sent
<1>2. PICK p, s, n, answer :
        /\ p = c.arg[1] /\ s = Users!Slice(p) /\ n = Cardinality(users) /\ answer = {<<s, n>>}
  OBVIOUS
<1>3. s = UsersPages[p] /\ p \in 0..MaxUsers /\ p \in Nat
  BY <1>1, <1>2 DEF UsersPages
<1>4. PICK k : /\ Numbered(calls') /\ calls' = (calls \ {c}) \cup {k} /\ k.op = c.op /\ k.arg = c.arg
               /\ k.op = "list" => k.answer = {<<s, n>>}
  <2>1. CASE Users!ServeList(c)
    <3>1. Serve(c, answer)
      BY <1>2, <2>1, UsersWords, UsersCardinality DEF Users!ServeList
    <3>2. PICK k : Serves(c, k, answer) /\ Numbered(calls')
      BY <3>1, Serving
    <3> QED BY <1>2, <3>2 DEF Serves
  <2>2. CASE Users!ServeReset(c)
    <3>1. PICK none : none = {}
      OBVIOUS
    <3>2. c.op = "reset" /\ (Serve(c, none) \/ Refuse(c))
      BY <2>2, <3>1, UsersWords DEF Users!ServeReset, Users!Sent
    <3>3. PICK k : Numbered(calls') /\ (Serves(c, k, none) \/ Refuses(c, k))
      BY <3>2, Serving, Refusing
    <3> QED BY <3>2, <3>3 DEF Serves, Refuses
  <2> QED BY <2>1, <2>2
<1>5. UsersCall(k, view)
  <2>1. PageAnswer(p, <<s, n>>)
    <3>1. s \in Seq(UserRows) /\ IsInjective(s) /\ Len(s) <= PAGE_SIZE /\ (p = 0 => s # <<>>)
      BY <1>2, <1>3, UsersSlice
    <3>2. PICK I : I = {u.id : u \in users}
      OBVIOUS
    <3>3. n \in 0..MaxUsers
      BY <1>2, <3>2, UsersCounted
    <3>4. PICK a : a = <<s, n>>
      OBVIOUS
    <3>5. a[1] = s /\ a[2] = n
      BY <3>4
    <3>6. PageAnswer(p, a)
      BY <3>1, <3>3, <3>5 DEF PageAnswer
    <3> QED BY <3>4, <3>6
  <2>2. k.op = "list" => \A a \in k.answer : PageAnswer(k.arg[1], a)
    BY <1>2, <1>4, <2>1
  <2> QED BY <1>1, <1>4, <2>2 DEF UsersCall
<1>6. UsersShown(view, calls', UsersPages, Cardinality(users))
  <2>1. UserChanged(calls) => UserChanged(calls')
    <3>1. \A d \in calls : d.op \in {"edit", "toggle"} => d \in calls'
      BY <1>1, <1>4
    <3> QED BY <3>1 DEF UserChanged
  <2>2. \A d \in calls' : d = k \/ d \in calls
    BY <1>4
  <2>3. k.op = "list" => k.answer \subseteq {<<UsersPages[k.arg[1]], Cardinality(users)>>}
    BY <1>2, <1>3, <1>4
  <2>4. \A d \in calls' : d.op = "list" /\ d.stage = "served" /\ d.id = view.newest =>
          UserChanged(calls') \/ d.answer \subseteq {<<UsersPages[d.arg[1]], Cardinality(users)>>}
    BY <2>1, <2>2, <2>3 DEF UsersInv, UsersShown
  <2> QED BY <2>1, <2>4 DEF UsersInv, UsersShown
<1> QED BY <1>1, <1>4, <1>5, <1>6, UsersMoves, UsersPagesSame DEF UserTable

\* A change of a row.
LEMMA UsersUpdates ==
  ASSUME Numbered(calls), UserTable, UsersInv, NEW c \in calls, Users!ServeUpdate(c)
  PROVE  UsersInv' /\ UserTable' /\ Numbered(calls')
<1>1. PICK to, none : to = c.arg[2] /\ none = {}
  OBVIOUS
<1>2. /\ UsersCall(c, view) /\ view' = view /\ c.op \in {"edit", "toggle"} /\ c.stage = "sent"
      /\ to \in UserRows
  BY <1>1 DEF UsersInv, UsersCall, Users!ServeUpdate, Users!Sent
<1>3. CASE Refuse(c) /\ users' = users
  <2>1. PICK k : Refuses(c, k) /\ Numbered(calls')
    BY <1>3, Refusing
  <2>2. calls' = (calls \ {c}) \cup {k} /\ k.op = c.op /\ k.arg = c.arg /\ k.stage = "refused"
    BY <2>1 DEF Refuses
  <2>3. UsersCall(k, view)
    BY <1>2, <2>2 DEF UsersCall
  <2>4. UserChanged(calls) => UserChanged(calls')
    <3>1. \A d \in calls : d.stage = "served" => d \in calls'
      BY <1>2, <2>2
    <3> QED BY <3>1 DEF UserChanged
  <2>5. \A d \in calls' : d.op = "list" => d \in calls
    BY <1>2, <2>2
  <2>6. UsersShown(view, calls', UsersPages, Cardinality(users))
    BY <2>4, <2>5 DEF UsersInv, UsersShown
  <2> QED BY <1>2, <1>3, <2>1, <2>2, <2>3, <2>6, UsersMoves, UsersPagesSame DEF UserTable
<1>4. CASE /\ Serve(c, none) /\ to.id # Users!Self
           /\ users' = {IF u.id # to.id THEN u
                        ELSE IF c.op = "edit" THEN to ELSE [u EXCEPT !.status = to.status]
                          : u \in users}
  <2>1. PICK k : Serves(c, k, none) /\ Numbered(calls')
    BY <1>4, Serving
  <2>2. calls' = (calls \ {c}) \cup {k} /\ k.op = c.op /\ k.arg = c.arg /\ k.stage = "served"
    BY <2>1 DEF Serves
  <2>3. UsersCall(k, view)
    BY <1>2, <2>2 DEF UsersCall
  <2>4. UserChanged(calls')
    BY <1>2, <2>2 DEF UserChanged
  <2>5. UsersShown(view, calls', UsersPages', Cardinality(users)')
    BY <2>4 DEF UsersShown
  <2>6. UserTable'
    <3> DEFINE new(u) == IF u.id # to.id THEN u
                         ELSE IF c.op = "edit" THEN to ELSE [u EXCEPT !.status = to.status]
    <3>1. ASSUME NEW u \in users PROVE new(u) \in UserRows /\ new(u).id = u.id
      <4>1. u \in UserRows
        BY DEF UserTable
      <4>2. CASE u.id # to.id
        BY <4>1, <4>2
      <4>3. CASE u.id = to.id /\ c.op = "edit"
        BY <1>2, <4>3
      <4>4. CASE u.id = to.id /\ c.op # "edit"
        BY <1>2, <4>1, <4>4 DEF UserRows
      <4> QED BY <4>2, <4>3, <4>4
    <3>2. users' = {new(u) : u \in users}
      BY <1>4
    <3> HIDE DEF new
    <3>3. \A w \in users' : \E u \in users : w = new(u)
      BY <3>2
    <3>4. \A w, x \in users' : w.id = x.id => w = x
      BY <3>1, <3>3 DEF UserTable
    <3>5. users' \subseteq UserRows
      BY <3>1, <3>3
    <3>6. \E w \in users' : w.id = Users!Self
      <4>1. PICK u \in users : u.id = Users!Self
        BY DEF UserTable
      <4> QED BY <3>1, <3>2, <4>1
    <3> QED BY <3>4, <3>5, <3>6 DEF UserTable
  <2> QED BY <1>2, <2>1, <2>2, <2>3, <2>5, <2>6, UsersMoves
<1> QED
  <2>1. IF to.id = Users!Self \/ Users!WithId(to.id) = {}
          THEN Users!Refuse(c) /\ UNCHANGED users
          ELSE /\ users' = {IF u.id # to.id THEN u
                            ELSE IF c.op = "edit" THEN to ELSE [u EXCEPT !.status = to.status]
                              : u \in users}
               /\ Users!Serve(c, {})
    BY <1>1 DEF Users!ServeUpdate
  <2>2. (Users!Refuse(c) <=> Refuse(c)) /\ (Users!Serve(c, {}) <=> Serve(c, {}))
    BY UsersWords
  <2> QED BY <1>1, <1>3, <1>4, <2>1, <2>2

\* A request has ended, and no other one follows.
LEMMA UsersEnds ==
  ASSUME Numbered(calls), UserTable, UsersInv, NEW c \in calls, calls' = calls \ {c},
         users' = users, UsersView(view'), view'.list = <<>> => view.list = <<>>,
         view'.loading => view.loading /\ c.op # "list",
         view'.editLoading => view.editLoading /\ c.op # "edit",
         view'.resetLoading => view.resetLoading /\ c.op # "reset",
         view'.toggleLoading => view.toggleLoading /\ c.op # "toggle",
         \/ view'.list # <<>> \/ view'.error
         \/ c.op # "list" /\ view'.list = view.list /\ view'.error = view.error,
         UsersShown(view', calls', UsersPages, Cardinality(users))
  PROVE  UsersInv' /\ UserTable' /\ Numbered(calls')
<1>1. \A d \in calls' : d \in calls
  OBVIOUS
<1>2. \A d \in calls : d.op # c.op => d \in calls'
  OBVIOUS
<1>3. \A d \in calls' : UsersCall(d, view')
  BY <1>1 DEF UsersInv, UsersCall
<1>4. UsersWaits(view, calls)
  BY DEF UsersInv
<1>5. UsersWaits(view', calls')
  <2>1. view'.loading => \E d \in calls' : d.op = "list"
    BY <1>2, <1>4 DEF UsersWaits
  <2>2. view'.editLoading => \E d \in calls' : d.op = "edit"
    BY <1>2, <1>4 DEF UsersWaits
  <2>3. view'.resetLoading => \E d \in calls' : d.op = "reset"
    BY <1>2, <1>4 DEF UsersWaits
  <2>4. view'.toggleLoading => \E d \in calls' : d.op = "toggle"
    BY <1>2, <1>4 DEF UsersWaits
  <2>5. view'.list # <<>> \/ view'.error \/ \E d \in calls' : d.op = "list"
    BY <1>2, <1>4 DEF UsersWaits
  <2> QED BY <2>1, <2>2, <2>3, <2>4, <2>5 DEF UsersWaits
<1>6. Numbered(calls')
  BY Fewer
<1> QED BY <1>3, <1>5, <1>6, UsersPagesSame DEF UsersInv, UserTable

\* Without a change there is no other list to come.
LEMMA UsersStillShown ==
  ASSUME UsersInv, NEW c \in calls, calls' = calls \ {c}, NEW v, v.newest = view.newest,
         c.op \notin {"edit", "toggle"},
         v.listed => view.listed /\ v.list = view.list /\ v.page = view.page
                     /\ v.hasMore = view.hasMore
  PROVE  UsersShown(v, calls', UsersPages, Cardinality(users))
<1>1. UserChanged(calls) => UserChanged(calls')
  BY DEF UserChanged
<1>2. \A d \in calls' : d \in calls
  OBVIOUS
<1> QED BY <1>1, <1>2 DEF UsersInv, UsersShown

\* A list is answered: it is shown, or it was empty and the page turns back.
LEMMA UsersListed ==
  ASSUME Numbered(calls), UserTable, UsersInv, NEW c \in calls, Users!ListAnswered(c)
  PROVE  UsersInv' /\ UserTable' /\ Numbered(calls')
<1>1. /\ UsersCall(c, view) /\ users' = users /\ c.op = "list" /\ c.stage = "served"
      /\ c.arg[1] \in 0..MaxUsers
  BY DEF UsersInv, UsersCall, Users!ListAnswered, Users!Answered
<1>2. PICK a \in c.answer :
        IF a[1] = <<>> /\ c.arg[1] > 0
          THEN IF view.page > 0
                 THEN Users!FetchAfter([view EXCEPT !.page = @ - 1, !.loading = TRUE], view.page - 1, {c})
                 ELSE calls' = calls \ {c} /\ view' = [view EXCEPT !.loading = FALSE]
          ELSE /\ calls' = calls \ {c}
               /\ view' = [view EXCEPT !.list = a[1], !.total = a[2], !.loading = FALSE,
                             !.hasMore = (c.arg[1] * PAGE_SIZE + Len(a[1]) < a[2]),
                             !.listed = (c.id = view.newest /\ c.arg[1] = view.page)]
  BY DEF Users!ListAnswered
<1>3. PageAnswer(c.arg[1], a)
  BY <1>1 DEF UsersCall
<1>4. CASE a[1] = <<>> /\ c.arg[1] > 0 /\ view.page > 0
  <2>1. PICK v, p, gone : /\ v = [view EXCEPT !.page = view.page - 1, !.loading = TRUE]
                          /\ p = view.page - 1 /\ gone = {c}
    OBVIOUS
  <2>2. Users!FetchAfter(v, p, gone)
    BY <1>2, <1>4, <2>1
  <2>3. view.list # <<>>
    BY <1>1, <1>4 DEF UsersCall
  <2>4. p \in 0..MaxUsers /\ gone \subseteq calls
    BY <1>4, <2>1, ConsoleAssumption DEF UsersInv, UsersView, UserViews
  <2>5. /\ UsersView(v) /\ v.list = view.list /\ v.editLoading = view.editLoading
        /\ v.resetLoading = view.resetLoading /\ v.toggleLoading = view.toggleLoading
    BY <2>1, <2>3, <2>4 DEF UsersInv, UsersView, UserViews
  <2>6. /\ v.editLoading => \E d \in calls \ gone : d.op = "edit"
        /\ v.resetLoading => \E d \in calls \ gone : d.op = "reset"
        /\ v.toggleLoading => \E d \in calls \ gone : d.op = "toggle"
    BY <1>1, <2>1, <2>5 DEF UsersInv, UsersWaits
  <2> QED BY <1>1, <2>2, <2>3, <2>4, <2>5, <2>6, UsersFetch
<1>5. CASE a[1] = <<>> /\ c.arg[1] > 0 /\ ~(view.page > 0)
  <2>1. calls' = calls \ {c} /\ view' = [view EXCEPT !.loading = FALSE]
    BY <1>2, <1>5
  <2>2. view.list # <<>>
    BY <1>1, <1>5 DEF UsersCall
  <2>3. /\ UsersView(view') /\ view'.list = view.list /\ view'.page = view.page
        /\ view'.hasMore = view.hasMore /\ view'.loading = FALSE
        /\ view'.error = view.error /\ view'.editLoading = view.editLoading
        /\ view'.resetLoading = view.resetLoading /\ view'.toggleLoading = view.toggleLoading
        /\ view'.newest = view.newest /\ view'.listed = view.listed
    BY <2>1 DEF UsersInv, UsersView, UserViews
  <2>4. UsersShown(view', calls', UsersPages, Cardinality(users))
    BY <1>1, <2>1, <2>3, UsersStillShown
  <2> QED BY <1>1, <2>1, <2>2, <2>3, <2>4, UsersEnds
<1>6. CASE ~(a[1] = <<>> /\ c.arg[1] > 0)
  <2>1. PICK list, total, more, latest :
          /\ list = a[1] /\ total = a[2]
          /\ more = (c.arg[1] * PAGE_SIZE + Len(a[1]) < a[2])
          /\ latest = (c.id = view.newest /\ c.arg[1] = view.page)
    OBVIOUS
  <2>2. /\ calls' = calls \ {c}
        /\ view' = [view EXCEPT !.list = list, !.total = total, !.loading = FALSE,
                                !.hasMore = more, !.listed = latest]
    BY <1>2, <1>6, <2>1
  <2>3. /\ list \in Seq(UserRows) /\ total \in 0..MaxUsers /\ IsInjective(list)
        /\ Len(list) <= PAGE_SIZE /\ list # <<>>
    BY <1>1, <1>3, <1>6, <2>1 DEF PageAnswer
  <2>4. more \in BOOLEAN /\ latest \in BOOLEAN
    BY <2>1
  <2>5. /\ UsersView(view') /\ view'.list = list /\ view'.page = view.page
        /\ view'.hasMore = more /\ view'.loading = FALSE
        /\ view'.error = view.error /\ view'.editLoading = view.editLoading
        /\ view'.resetLoading = view.resetLoading /\ view'.toggleLoading = view.toggleLoading
        /\ view'.newest = view.newest /\ view'.listed = latest
    BY <2>2, <2>3, <2>4 DEF UsersInv, UsersView, UserViews
  <2>6. UserChanged(calls) => UserChanged(calls')
    BY <1>1, <2>2 DEF UserChanged
  <2>7. ASSUME latest, ~UserChanged(calls)
        PROVE  /\ list = UsersPages[view.page]
               /\ more <=> (view.page + 1) * PAGE_SIZE < Cardinality(users)
    <3>1. PICK p, s, n : p = view.page /\ s = Users!Slice(p) /\ n = Cardinality(users)
      OBVIOUS
    <3>2. c.id = view.newest /\ c.arg[1] = p
      BY <2>1, <2>7, <3>1
    <3>3. p \in 0..MaxUsers /\ p \in Nat /\ UsersPages[p] = s
      BY <3>1 DEF UsersInv, UsersView, UserViews, UsersPages
    <3>4. a = <<UsersPages[c.arg[1]], Cardinality(users)>>
      BY <1>1, <2>7, <3>2 DEF UsersInv, UsersShown
    <3>5. list = s /\ total = n
      BY <2>1, <3>1, <3>2, <3>3, <3>4
    <3>6. p * PAGE_SIZE + Len(s) < Cardinality(users) <=> (p + 1) * PAGE_SIZE < Cardinality(users)
      BY <3>1, <3>3, UsersSlice
    <3>7. more <=> p * PAGE_SIZE + Len(s) < Cardinality(users)
      BY <2>1, <3>1, <3>2, <3>5
    <3> QED BY <3>1, <3>3, <3>5, <3>6, <3>7
  <2>8. UsersShown(view', calls', UsersPages, Cardinality(users))
    <3>1. view'.listed => \/ UserChanged(calls')
                          \/ /\ view'.list = UsersPages[view'.page]
                             /\ view'.hasMore <=> (view'.page + 1) * PAGE_SIZE < Cardinality(users)
      BY <2>5, <2>6, <2>7
    <3>2. \A d \in calls' : d \in calls
      BY <2>2
    <3>3. \A d \in calls' : d.op = "list" /\ d.stage = "served" /\ d.id = view'.newest =>
            UserChanged(calls') \/ d.answer \subseteq {<<UsersPages[d.arg[1]], Cardinality(users)>>}
      BY <2>5, <2>6, <3>2 DEF UsersInv, UsersShown
    <3> QED BY <3>1, <3>3 DEF UsersShown
  <2> QED BY <1>1, <2>2, <2>3, <2>5, <2>8, UsersEnds
<1> QED BY <1>4, <1>5, <1>6

\* A change is answered, and the list is asked for.
LEMMA UsersAnswered ==
  ASSUME Numbered(calls), UserTable, UsersInv, NEW c \in calls,
         Users!EditAnswered(c) \/ Users!ToggleAnswered(c)
  PROVE  UsersInv' /\ UserTable' /\ Numbered(calls')
<1>1. /\ UsersCall(c, view) /\ users' = users /\ c.op \in {"edit", "toggle"}
      /\ c.arg[1] \in 0..MaxUsers /\ view.list # <<>>
  BY DEF UsersInv, UsersCall, Users!EditAnswered, Users!ToggleAnswered, Users!Answered
<1>2. PICK p, gone, none : p = c.arg[1] /\ gone = {c} /\ none = Users!NoUser
  OBVIOUS
<1>3. none \in Targets /\ gone \subseteq calls
  BY <1>2 DEF Targets
<1>4. PICK v : /\ Users!FetchAfter(v, p, gone)
               /\ \/ c.op = "edit" /\ v = [view EXCEPT !.editing = none, !.editLoading = FALSE]
                  \/ c.op = "toggle" /\ v = [view EXCEPT !.toggling = none, !.toggleLoading = FALSE]
  BY <1>2 DEF Users!EditAnswered, Users!ToggleAnswered, Users!Answered
<1>5. /\ UsersView(v) /\ v.list = view.list
      /\ v.editLoading => view.editLoading /\ c.op # "edit"
      /\ v.resetLoading => view.resetLoading
      /\ v.toggleLoading => view.toggleLoading /\ c.op # "toggle"
  <2>1. CASE c.op = "edit" /\ v = [view EXCEPT !.editing = none, !.editLoading = FALSE]
    BY <1>1, <1>3, <2>1 DEF UsersInv, UsersView, UserViews
  <2>2. CASE c.op = "toggle" /\ v = [view EXCEPT !.toggling = none, !.toggleLoading = FALSE]
    BY <1>1, <1>3, <2>2 DEF UsersInv, UsersView, UserViews
  <2> QED BY <1>4, <2>1, <2>2
<1>6. /\ v.editLoading => \E d \in calls \ gone : d.op = "edit"
      /\ v.resetLoading => \E d \in calls \ gone : d.op = "reset"
      /\ v.toggleLoading => \E d \in calls \ gone : d.op = "toggle"
  BY <1>1, <1>2, <1>5 DEF UsersInv, UsersWaits
<1> QED BY <1>1, <1>2, <1>3, <1>4, <1>5, <1>6, UsersFetch

LEMMA UsersReset ==
  ASSUME Numbered(calls), UserTable, UsersInv, NEW c \in calls, Users!ResetAnswered(c)
  PROVE  UsersInv' /\ UserTable' /\ Numbered(calls')
<1>1. PICK none : none = Users!NoUser
  OBVIOUS
<1>2. /\ users' = users /\ c.op = "reset" /\ calls' = calls \ {c}
      /\ view' = [view EXCEPT !.resetting = none, !.resetLoading = FALSE]
  BY <1>1 DEF Users!ResetAnswered, Users!Answered
<1>3. none \in Targets
  BY <1>1 DEF Targets
<1>4. /\ UsersView(view') /\ view'.list = view.list /\ view'.page = view.page
      /\ view'.hasMore = view.hasMore /\ view'.loading = view.loading
      /\ view'.error = view.error /\ view'.editLoading = view.editLoading
      /\ view'.resetLoading = FALSE /\ view'.toggleLoading = view.toggleLoading
      /\ view'.newest = view.newest /\ view'.listed = view.listed
  BY <1>1, <1>2, <1>3 DEF UsersInv, UsersView, UserViews
<1>5. UsersShown(view', calls', UsersPages, Cardinality(users))
  BY <1>2, <1>4, UsersStillShown
<1> QED BY <1>2, <1>4, <1>5, UsersEnds

LEMMA UsersFails ==
  ASSUME Numbered(calls), UserTable, UsersInv, NEW c \in calls, Users!CallFails(c)
  PROVE  UsersInv' /\ UserTable' /\ Numbered(calls')
<1>1. /\ users' = users /\ calls' = calls \ {c}
      /\ c.op \in {"list", "edit", "toggle", "reset"}
  BY DEF UsersInv, UsersCall, Users!CallFails
<1>2. CASE c.op = "list"
  <2>1. view' = [view EXCEPT !.error = TRUE, !.loading = FALSE]
    BY <1>2 DEF Users!CallFails
  <2>2. /\ UsersView(view') /\ view'.list = view.list /\ view'.page = view.page
        /\ view'.hasMore = view.hasMore /\ view'.loading = FALSE
        /\ view'.error = TRUE /\ view'.editLoading = view.editLoading
        /\ view'.resetLoading = view.resetLoading /\ view'.toggleLoading = view.toggleLoading
        /\ view'.newest = view.newest /\ view'.listed = view.listed
    BY <2>1 DEF UsersInv, UsersView, UserViews
  <2>3. UsersShown(view', calls', UsersPages, Cardinality(users))
    BY <1>1, <1>2, <2>2, UsersStillShown
  <2> QED BY <1>1, <1>2, <2>2, <2>3, UsersEnds
<1>3. CASE c.op = "reset"
  <2>1. view' = [view EXCEPT !.resetLoading = FALSE]
    BY <1>3 DEF Users!CallFails
  <2>2. /\ UsersView(view') /\ view'.list = view.list /\ view'.page = view.page
        /\ view'.hasMore = view.hasMore /\ view'.loading = view.loading
        /\ view'.error = view.error /\ view'.editLoading = view.editLoading
        /\ view'.resetLoading = FALSE /\ view'.toggleLoading = view.toggleLoading
        /\ view'.newest = view.newest /\ view'.listed = view.listed
    BY <2>1 DEF UsersInv, UsersView, UserViews
  <2>3. UsersShown(view', calls', UsersPages, Cardinality(users))
    BY <1>1, <1>3, <2>2, UsersStillShown
  <2> QED BY <1>1, <1>3, <2>2, <2>3, UsersEnds
<1>4. CASE c.op \in {"edit", "toggle"}
  <2>1. \/ c.op = "edit" /\ view' = [view EXCEPT !.editLoading = FALSE, !.newest = 0, !.listed = FALSE]
        \/ c.op = "toggle" /\ view' = [view EXCEPT !.toggleLoading = FALSE, !.newest = 0, !.listed = FALSE]
    BY <1>4 DEF Users!CallFails
  <2>2. /\ UsersView(view') /\ view'.list = view.list /\ view'.loading = view.loading
        /\ view'.error = view.error /\ view'.resetLoading = view.resetLoading
        /\ view'.editLoading => view.editLoading /\ c.op # "edit"
        /\ view'.toggleLoading => view.toggleLoading /\ c.op # "toggle"
        /\ view'.newest = 0 /\ view'.listed = FALSE
    <3>1. CASE /\ c.op = "edit"
               /\ view' = [view EXCEPT !.editLoading = FALSE, !.newest = 0, !.listed = FALSE]
      BY <3>1 DEF UsersInv, UsersView, UserViews
    <3>2. CASE /\ c.op = "toggle"
               /\ view' = [view EXCEPT !.toggleLoading = FALSE, !.newest = 0, !.listed = FALSE]
      BY <3>2 DEF UsersInv, UsersView, UserViews
    <3> QED BY <2>1, <3>1, <3>2
  <2>3. UsersShown(view', calls', UsersPages, Cardinality(users))
    <3>1. \A d \in calls' : d.id # 0
      BY <1>1 DEF Numbered, IsCall
    <3> QED BY <2>2, <3>1 DEF UsersShown
  <2> QED BY <1>1, <1>4, <2>2, <2>3, UsersEnds
<1> QED BY <1>1, <1>2, <1>3, <1>4

LEMMA UsersStep ==
  ASSUME Numbered(calls), UserTable, UsersInv, Users!Next
  PROVE  UsersInv' /\ UserTable' /\ Numbered(calls')
<1>1. ASSUME NEW c \in calls, Users!CallStep(c)
      PROVE  UsersInv' /\ UserTable' /\ Numbered(calls')
  BY <1>1, UsersServes, UsersUpdates, UsersListed, UsersAnswered, UsersReset, UsersFails
     DEF Users!CallStep
<1> QED BY <1>1, UsersAsks, UsersModals, UsersSubmits, UsersElsewhere DEF Users!Next

-----------------------------------------------------------------------------
(* The visitors that register, by what is proved about Registration. *)

Invites == INSTANCE RegistrationProofs

LEMMA InvitesInit == Register!Init <=> Invites!Init
BY DEF Register!Init, Invites!Init, Register!Modes, Invites!Modes, Register!Expired, Invites!Expired

LEMMA InvitesWords ==
  /\ Register!Modes = Invites!Modes /\ Register!Expired = Invites!Expired
  /\ Register!counters = Invites!counters
  /\ \A h : /\ (Register!Refuse(h) <=> Invites!Refuse(h))
            /\ (Register!Succeeds(h) <=> Invites!Succeeds(h))
            /\ (Register!Breaks(h) <=> Invites!Breaks(h))
  /\ Register!AfterCreate = Invites!AfterCreate
  /\ \A h, pc : Register!To(h, pc) <=> Invites!To(h, pc)
BY DEF Register!Modes, Invites!Modes, Register!Expired, Invites!Expired,
       Register!counters, Invites!counters, Register!Refuse, Invites!Refuse,
       Register!To, Invites!To, Register!Breaks, Invites!Breaks,
       Register!Succeeds, Invites!Succeeds, Register!AfterCreate, Invites!AfterCreate

LEMMA InvitesNext == Register!Next <=> Invites!Next
<1>1. \A v : Register!Probe(v) <=> Invites!Probe(v)
  BY DEF Register!Probe, Invites!Probe, Register!counters, Invites!counters
<1>2. \A v, name, given :
        Register!HandleSubmit(v, name, given) <=> Invites!HandleSubmit(v, name, given)
  BY DEF Register!HandleSubmit, Invites!HandleSubmit
<1>3. \A h : Register!CheckMode(h) <=> Invites!CheckMode(h)
  BY InvitesWords DEF Register!CheckMode, Invites!CheckMode
<1>4. \A h : Register!CreateUser(h) <=> Invites!CreateUser(h)
  BY InvitesWords DEF Register!CreateUser, Invites!CreateUser
<1>5. \A h : Register!UseInviteCode(h) <=> Invites!UseInviteCode(h)
  BY InvitesWords DEF Register!UseInviteCode, Invites!UseInviteCode
<1>6. \A h : Register!Rollback(h) <=> Invites!Rollback(h)
  BY InvitesWords DEF Register!Rollback, Invites!Rollback
<1>7. \A h : Register!StoreTokens(h) <=> Invites!StoreTokens(h)
  BY InvitesWords DEF Register!StoreTokens, Invites!StoreTokens
<1>8. \A h : Register!Answer(h) <=> Invites!Answer(h)
  BY DEF Register!Answer, Invites!Answer, Register!counters, Invites!counters
<1>9. \A h : Register!Cut(h) <=> Invites!Cut(h)
  BY DEF Register!Cut, Invites!Cut
<1>10. Register!Crash <=> Invites!Crash
  BY DEF Register!Crash, Invites!Crash
<1>11. Register!ExpireCode <=> Invites!ExpireCode
  BY InvitesWords
     DEF Register!ExpireCode, Invites!ExpireCode, Register!counters, Invites!counters
<1>12. \A h : Register!ReadBack(h) <=> Invites!ReadBack(h)
  BY InvitesWords DEF Register!ReadBack, Invites!ReadBack
<1>13. \A h : Register!HandlerStep(h) <=> Invites!HandlerStep(h)
  BY <1>3, <1>4, <1>5, <1>6, <1>7, <1>8, <1>9, <1>12, Zenon
     DEF Register!HandlerStep, Invites!HandlerStep
<1> QED
  BY <1>1, <1>2, <1>10, <1>11, <1>13, Zenon DEF Register!Next, Invites!Next

LEMMA InvitesStep ==
  ASSUME Invites!IInv, Register!Next \/ UNCHANGED registration
  PROVE  Invites!IInv'
<1>1. CASE Register!Next
  BY <1>1, Invites!NextIInv, InvitesNext
<1>2. CASE UNCHANGED registration
  <2>1. UNCHANGED Invites!vars
    BY <1>2 DEF registration, Invites!vars, Invites!counters
  <2> QED BY <2>1, Invites!NextIInv
<1> QED BY <1>1, <1>2

LEMMA InvitesKeep ==
  ASSUME Invites!IInv
  PROVE  Register!TypeOK /\ Register!SpinnersStop /\ CodeAdmitsOne /\ NoStrangers
<1>1. /\ Invites!Types /\ Invites!Keys /\ Invites!Owns /\ Invites!SpinnersStop
      /\ Invites!CodeAdmitsOne /\ Invites!NoStrangers
  BY DEF Invites!IInv
<1>2. Register!TypeOK
  BY <1>1, InvitesWords
     DEF Invites!Types, Invites!Keys, Invites!Owns, Register!TypeOK, Invites!WithAccount
<1>3. Register!SpinnersStop
  BY <1>1 DEF Register!SpinnersStop, Invites!SpinnersStop
<1>4. CodeAdmitsOne /\ NoStrangers
  BY <1>1 DEF CodeAdmitsOne, NoStrangers, Invites!CodeAdmitsOne, Invites!NoStrangers
<1> QED BY <1>2, <1>3, <1>4

-----------------------------------------------------------------------------
(* A page that is mounted starts with its invariant. *)

LEMMA NothingAsked == Numbered({})
BY FS_EmptySet DEF Numbered

LEMMA FirstAsked ==
  ASSUME NEW op, NEW arg, NEW T, T = With({}, op, arg)
  PROVE  \E k : /\ T = {k} /\ Numbered(T) /\ IsCall(k) /\ k.op = op /\ k.arg = arg
                /\ k.stage = "sent" /\ k.answer = {} /\ k.id = 1
<1>1. PICK none, k : none = {} /\ k = NewCall(op, arg, none)
  OBVIOUS
<1>2. Numbered(none)
  BY <1>1, NothingAsked
<1>3. /\ IsCall(k) /\ k.op = op /\ k.arg = arg /\ k.stage = "sent" /\ k.answer = {}
      /\ Numbered(none \cup {k})
  BY <1>1, <1>2, Asked
<1>4. T = {k} /\ none \cup {k} = {k}
  BY <1>1 DEF With
<1>5. k.id = 1
  <2>1. Cardinality(none) = 0
    BY <1>1, FS_EmptySet
  <2>2. k.id = CHOOSE n \in 1..Cardinality(none) + 1 : \A c \in none : c.id # n
    BY <1>1 DEF NewCall
  <2>3. \E n \in 1..Cardinality(none) + 1 : \A c \in none : c.id # n
    BY <1>1, <2>1
  <2>4. k.id \in 1..Cardinality(none) + 1
    BY <2>2, <2>3
  <2> QED BY <2>1, <2>4
<1> QED BY <1>3, <1>4, <1>5

LEMMA BothAsked ==
  ASSUME NEW op1, NEW op2, NEW arg, NEW T, T = With(With({}, op1, arg), op2, arg), op1 # op2
  PROVE  \E k, l : /\ T = {k, l} /\ Numbered(T)
                   /\ k.op = op1 /\ k.arg = arg /\ k.stage = "sent" /\ k.answer = {}
                   /\ l.op = op2 /\ l.arg = arg /\ l.stage = "sent" /\ l.answer = {}
<1>1. PICK S, l : S = With({}, op1, arg) /\ l = NewCall(op2, arg, S)
  OBVIOUS
<1>2. PICK k : /\ S = {k} /\ Numbered(S) /\ k.op = op1 /\ k.arg = arg
               /\ k.stage = "sent" /\ k.answer = {}
  BY <1>1, FirstAsked
<1>3. l.op = op2 /\ l.arg = arg /\ l.stage = "sent" /\ l.answer = {} /\ Numbered(S \cup {l})
  BY <1>1, <1>2, Asked
<1>4. T = S \cup {l}
  BY <1>1 DEF With
<1> QED BY <1>2, <1>3, <1>4

LEMMA DevicesMount ==
  ASSUME DeviceTable, view = Devices!Fresh, calls = Devices!MountCalls
  PROVE  DevicesInv /\ Numbered(calls)
<1>1. PICK op, arg : op = "list" /\ arg = 0
  OBVIOUS
<1>2. calls = With({}, op, arg)
  BY <1>1, DevicesWords DEF Devices!MountCalls
<1>3. PICK k : calls = {k} /\ Numbered(calls) /\ k.op = op /\ k.stage = "sent" /\ k.answer = {}
  BY <1>2, FirstAsked
<1>4. /\ view \in DeviceViews /\ view.loadingList = TRUE /\ view.actionLoading = FALSE
      /\ view.createdToken = 0 /\ view.listed = FALSE
  BY DEF Devices!Fresh, DeviceViews, DeviceTable
<1> QED BY <1>1, <1>3, <1>4 DEF DevicesInv

LEMMA DashboardMount ==
  ASSUME CountTable, view = Dashboard!Fresh, calls = Dashboard!MountCalls
  PROVE  DashboardInv /\ Numbered(calls)
<1>1. PICK op, arg : op = "stats" /\ arg = 0
  OBVIOUS
<1>2. calls = With({}, op, arg)
  BY <1>1, DashboardWords DEF Dashboard!MountCalls
<1>3. PICK k : calls = {k} /\ Numbered(calls) /\ k.op = op /\ k.answer = {}
  BY <1>2, FirstAsked
<1>4. view \in StatsViews
  BY DEF Dashboard!Fresh, StatsViews, CountTable
<1> QED BY <1>1, <1>3, <1>4 DEF DashboardInv

LEMMA SystemMount ==
  ASSUME view = System!Fresh, calls = System!MountCalls
  PROVE  SystemInv /\ Numbered(calls)
<1>1. PICK op1, op2, arg : op1 = "config" /\ op2 = "me" /\ arg = FALSE
  OBVIOUS
<1>2. calls = With(With({}, op1, arg), op2, arg)
  BY <1>1, SystemWords DEF System!MountCalls
<1>3. PICK k, l : /\ calls = {k, l} /\ Numbered(calls)
                  /\ k.op = op1 /\ k.arg = arg /\ l.op = op2 /\ l.arg = arg
  <2>1. op1 # op2
    BY <1>1
  <2> QED BY <1>2, <2>1, BothAsked
<1>4. view \in SystemViews /\ view.opening = {"config", "me"} /\ view.refreshing = FALSE
  BY DEF System!Fresh, SystemViews
<1> QED BY <1>1, <1>3, <1>4 DEF SystemInv

LEMMA SettingsMount ==
  ASSUME SettingsTable, view = Settings!Fresh, calls = Settings!MountCalls
  PROVE  SettingsInv /\ Numbered(calls)
<1>1. PICK op1, op2, arg : op1 = "profile" /\ op2 = "clips" /\ arg = <<>>
  OBVIOUS
<1>2. calls = With(With({}, op1, arg), op2, arg)
  BY <1>1, SettingsWords DEF Settings!MountCalls
<1>3. PICK k, l : /\ calls = {k, l} /\ Numbered(calls)
                  /\ k.op = op1 /\ k.stage = "sent" /\ k.answer = {}
                  /\ l.op = op2 /\ l.arg = arg /\ l.stage = "sent" /\ l.answer = {}
  <2>1. op1 # op2
    BY <1>1
  <2> QED BY <1>2, <2>1, BothAsked
<1>4. /\ view \in SettingsViews(lastClip, clips) /\ view.loadingProfile = TRUE /\ view.saving = FALSE
      /\ view.counted = FALSE /\ view.usageLoading = TRUE /\ view.left = FALSE
  <2>1. <<>> \in Seq(1..lastClip)
    OBVIOUS
  <2>2. PICK e : e = <<>> /\ e \in Seq(1..lastClip)
    BY <2>1
  <2>3. view = [profile |-> 0, loadingProfile |-> TRUE, saving |-> FALSE,
                usage |-> e, counted |-> FALSE, truncated |-> FALSE, usageLoading |-> TRUE,
                left |-> FALSE, steady |-> clips, known |-> TRUE]
    BY <2>2 DEF Settings!Fresh, Settings!NoDays
  <2> QED BY <2>2, <2>3 DEF SettingsViews
<1>5. Walked(lastClip, view.steady, arg)
  <2>1. arg \in Seq(1..lastClip) /\ Len(arg) = 0
    BY <1>1
  <2>2. Decreasing(arg)
    BY <2>1 DEF Decreasing
  <2> QED BY <1>1, <2>1, <2>2 DEF Walked, Under
<1>6. \A c \in calls : SettingsCall(c, view, retention, lastClip)
  <2>1. SettingsCall(k, view, retention, lastClip)
    BY <1>1, <1>3, <1>4 DEF SettingsCall, Saves
  <2>2. SettingsCall(l, view, retention, lastClip)
    BY <1>1, <1>3, <1>4, <1>5 DEF SettingsCall, Saves
  <2> QED BY <1>3, <2>1, <2>2
<1>7. SettingsWaits(view, calls)
  BY <1>1, <1>3, <1>4 DEF SettingsWaits
<1>8. OneOfEach(calls)
  BY <1>1, <1>3 DEF OneOfEach, Saves
<1> QED BY <1>3, <1>4, <1>6, <1>7, <1>8 DEF SettingsInv, UsageCounted, ProfileShown

LEMMA UsersMount ==
  ASSUME UserTable, view = Users!Fresh, calls = Users!MountCalls
  PROVE  UsersInv /\ Numbered(calls)
<1>1. PICK op, arg : op = "list" /\ arg = <<0, Users!NoUser>>
  OBVIOUS
<1>2. calls = With({}, op, arg)
  BY <1>1, UsersWords DEF Users!MountCalls, Users!OnPage
<1>3. PICK k : /\ calls = {k} /\ Numbered(calls) /\ k.op = op /\ k.arg = arg
               /\ k.stage = "sent" /\ k.answer = {}
  BY <1>2, FirstAsked
<1>4. MaxUsers \in Nat
  BY ConsoleAssumption
<1>5. /\ view \in UserViews /\ view.list = <<>> /\ view.page = 0 /\ view.total = 0
      /\ view.editing = Users!NoUser /\ view.resetting = Users!NoUser /\ view.toggling = Users!NoUser
      /\ view.loading = TRUE /\ view.editLoading = FALSE /\ view.resetLoading = FALSE
      /\ view.toggleLoading = FALSE /\ view.listed = FALSE
  <2>1. <<>> \in Seq(UserRows)
    OBVIOUS
  <2>2. PICK e, u : e = <<>> /\ e \in Seq(UserRows) /\ u = Users!NoUser /\ u \in Targets
    BY <2>1 DEF Targets
  <2>3. view = [list |-> e, total |-> 0, page |-> 0, hasMore |-> FALSE, loading |-> TRUE,
                error |-> FALSE, editing |-> u, editLoading |-> FALSE, resetting |-> u,
                resetLoading |-> FALSE, toggling |-> u, toggleLoading |-> FALSE,
                newest |-> 1, listed |-> FALSE]
    BY <2>2 DEF Users!Fresh
  <2> QED BY <1>4, <2>2, <2>3 DEF UserViews
<1>6. UsersView(view)
  <2>1. PAGE_SIZE \in Nat \ {0}
    BY LimitPositive
  <2>2. \A s : s = <<>> => IsInjective(s) /\ Len(s) <= PAGE_SIZE
    BY <2>1 DEF IsInjective
  <2> QED BY <1>5, <2>2 DEF UsersView
<1>7. UsersCall(k, view)
  <2>1. k.arg[1] = 0
    BY <1>1, <1>3
  <2> QED BY <1>1, <1>3, <1>4, <2>1 DEF UsersCall
<1>8. UsersWaits(view, calls)
  BY <1>1, <1>3, <1>5 DEF UsersWaits
<1>9. UsersShown(view, calls, UsersPages, Cardinality(users))
  BY <1>3, <1>5 DEF UsersShown
<1> QED BY <1>3, <1>6, <1>7, <1>8, <1>9 DEF UsersInv

-----------------------------------------------------------------------------
(* The bounds. *)

WithinBounds == inputs \in 0..MaxInputs /\ troubles \in 0..MaxTroubles

\* What a step takes from the bounds: one input, one trouble, or nothing.
Spends == Input \/ Trouble \/ UNCHANGED bounds

LEMMA Spending ==
  ASSUME WithinBounds, Spends
  PROVE  WithinBounds'
<1>1. MaxInputs \in Nat /\ MaxTroubles \in Nat
  BY BoundsAssumption
<1> QED BY <1>1 DEF WithinBounds, Spends, Input, Trouble, bounds

LEMMA DevicesSpend == Devices!Next => Spends
<1>1. /\ (Devices!Input <=> Input) /\ (Devices!Trouble <=> Trouble)
      /\ (UNCHANGED Devices!bounds <=> UNCHANGED bounds)
  BY DEF Devices!Input, Input, Devices!Trouble, Trouble, Devices!bounds, bounds
<1>2. \A c : Devices!Erring(c) => Spends
  BY <1>1 DEF Devices!Erring, Spends
<1>3. \A c : Devices!CallStep(c) => Spends
  <2>1. ASSUME NEW c, Devices!CallStep(c), ~Devices!CallFails(c) PROVE UNCHANGED bounds
    <3>1. Devices!ServeList(c) => UNCHANGED bounds
      BY Zenon DEF Devices!ServeList, Devices!bounds, bounds
    <3>2. Devices!ServeCreate(c) => UNCHANGED bounds
      BY Zenon DEF Devices!ServeCreate, Devices!bounds, bounds
    <3>3. Devices!ServeRevoke(c) => UNCHANGED bounds
      BY Zenon DEF Devices!ServeRevoke, Devices!bounds, bounds
    <3>4. Devices!ServeDelete(c) => UNCHANGED bounds
      BY Zenon DEF Devices!ServeDelete, Devices!bounds, bounds
    <3>5. Devices!ListAnswered(c) => UNCHANGED bounds
      BY Zenon DEF Devices!ListAnswered, Devices!bounds, bounds
    <3>6. Devices!CreateAnswered(c) => UNCHANGED bounds
      BY Zenon DEF Devices!CreateAnswered, Devices!bounds, bounds
    <3>7. Devices!RevokeAnswered(c) => UNCHANGED bounds
      BY Zenon DEF Devices!RevokeAnswered, Devices!bounds, bounds
    <3>8. Devices!DeleteAnswered(c) => UNCHANGED bounds
      BY Zenon DEF Devices!DeleteAnswered, Devices!bounds, bounds
    <3> QED BY <2>1, <3>1, <3>2, <3>3, <3>4, <3>5, <3>6, <3>7, <3>8, Zenon DEF Devices!CallStep
  <2>2. \A c : Devices!CallFails(c) => Spends
    BY <1>2, Zenon DEF Devices!CallFails
  <2> QED BY <2>1, <2>2 DEF Spends
<1>4. \A op, id : Devices!Start(op, id) => Input
  BY <1>1, Zenon DEF Devices!Start
<1>5. Devices!HandleCreate \/ Devices!HandleRevoke \/ Devices!HandleDelete => Input
  BY <1>4, Zenon DEF Devices!HandleCreate, Devices!HandleRevoke, Devices!HandleDelete
<1>6. Devices!OpenCreate \/ Devices!Dismiss \/ (\E d : Devices!OpenConfirm(d)) => Input
  BY <1>1, Zenon DEF Devices!OpenCreate, Devices!Dismiss, Devices!OpenConfirm
<1>7. \A d : Devices!DeleteElsewhere(d) => Trouble
  BY <1>1, Zenon DEF Devices!DeleteElsewhere
<1> QED BY <1>3, <1>5, <1>6, <1>7, Zenon DEF Devices!Next, Spends

LEMMA DashboardSpend == Dashboard!Next => Spends
<1>1. /\ (Dashboard!Input <=> Input) /\ (Dashboard!Trouble <=> Trouble)
      /\ (UNCHANGED Dashboard!bounds <=> UNCHANGED bounds)
  BY DEF Dashboard!Input, Input, Dashboard!Trouble, Trouble, Dashboard!bounds, bounds
<1>2. \A c : Dashboard!Erring(c) => Spends
  BY <1>1 DEF Dashboard!Erring, Spends
<1>3. Dashboard!Tick \/ Dashboard!Refresh \/ Dashboard!HandleRetry => Input
  BY <1>1, Zenon DEF Dashboard!Tick, Dashboard!Refresh, Dashboard!HandleRetry
<1>4. Dashboard!Grow => Trouble
  BY <1>1, Zenon DEF Dashboard!Grow
<1>5. \A c : Dashboard!ServeStats(c) => UNCHANGED bounds
  BY Zenon DEF Dashboard!ServeStats, Dashboard!bounds, bounds
<1>6. \A c : Dashboard!StatsAnswered(c) => UNCHANGED bounds
  BY Zenon DEF Dashboard!StatsAnswered, Dashboard!bounds, bounds
<1>7. \A c : Dashboard!CallFails(c) => Spends
  BY <1>2, Zenon DEF Dashboard!CallFails
<1> QED BY <1>3, <1>4, <1>5, <1>6, <1>7, Zenon DEF Dashboard!Next, Spends

LEMMA SystemSpend == System!Next => Spends
<1>1. /\ (System!Input <=> Input) /\ (System!Trouble <=> Trouble)
      /\ (UNCHANGED System!bounds <=> UNCHANGED bounds)
  BY DEF System!Input, Input, System!Trouble, Trouble, System!bounds, bounds
<1>2. \A c : System!Erring(c) => Spends
  BY <1>1 DEF System!Erring, Spends
<1>3. System!HandleRefresh \/ System!RetryConfig => Input
  BY <1>1, Zenon DEF System!HandleRefresh, System!RetryConfig
<1>4. \A c : System!ServeMe(c) => UNCHANGED bounds
  BY Zenon DEF System!ServeMe, System!bounds, bounds
<1>5. \A c : System!ServeConfig(c) => UNCHANGED bounds
  BY Zenon DEF System!ServeConfig, System!bounds, bounds
<1>6. \A c : System!MeAnswered(c) => UNCHANGED bounds
  BY Zenon DEF System!MeAnswered, System!bounds, bounds
<1>7. \A c : System!CallFails(c) => Spends
  BY <1>2, Zenon DEF System!CallFails
<1> QED BY <1>3, <1>4, <1>5, <1>6, <1>7, Zenon DEF System!Next, Spends

LEMMA SettingsSpend == Settings!Next => Spends
<1>1. /\ (Settings!Input <=> Input) /\ (Settings!Trouble <=> Trouble)
      /\ (UNCHANGED Settings!bounds <=> UNCHANGED bounds)
  BY DEF Settings!Input, Input, Settings!Trouble, Trouble, Settings!bounds, bounds
<1>2. \A c : Settings!Erring(c) => Spends
  BY <1>1 DEF Settings!Erring, Spends
<1>3. \A c : Settings!CallStep(c) => Spends
  <2>1. ASSUME NEW c, Settings!CallStep(c), ~Settings!CallFails(c) PROVE UNCHANGED bounds
    <3>1. Settings!ServeProfile(c) => UNCHANGED bounds
      BY Zenon DEF Settings!ServeProfile, Settings!bounds, bounds
    <3>2. Settings!ServeClips(c) => UNCHANGED bounds
      BY Zenon DEF Settings!ServeClips, Settings!bounds, bounds
    <3>3. Settings!ServeRetention(c) => UNCHANGED bounds
      BY Zenon DEF Settings!ServeRetention, Settings!bounds, bounds
    <3>4. Settings!ServePassword(c) => UNCHANGED bounds
      BY Zenon DEF Settings!ServePassword, Settings!bounds, bounds
    <3>5. Settings!ServeLogout(c) => UNCHANGED bounds
      BY Zenon DEF Settings!ServeLogout, Settings!bounds, bounds
    <3>6. Settings!ProfileAnswered(c) => UNCHANGED bounds
      BY Zenon DEF Settings!ProfileAnswered, Settings!bounds, bounds
    <3>7. Settings!ClipsAnswered(c) => UNCHANGED bounds
      BY Zenon DEF Settings!ClipsAnswered, Settings!bounds, bounds
    <3>8. Settings!RetentionAnswered(c) => UNCHANGED bounds
      BY Zenon DEF Settings!RetentionAnswered, Settings!bounds, bounds
    <3>9. Settings!PasswordAnswered(c) => UNCHANGED bounds
      BY Zenon DEF Settings!PasswordAnswered, Settings!bounds, bounds
    <3>10. Settings!LogoutAnswered(c) => UNCHANGED bounds
      BY Zenon DEF Settings!LogoutAnswered, Settings!bounds, bounds
    <3> QED BY <2>1, <3>1, <3>2, <3>3, <3>4, <3>5, <3>6, <3>7, <3>8, <3>9, <3>10, Zenon DEF Settings!CallStep
  <2>2. \A c : Settings!CallFails(c) => Spends
    BY <1>2, Zenon DEF Settings!CallFails
  <2> QED BY <2>1, <2>2 DEF Spends
<1>4. (\E d : Settings!HandleSaveRetention(d)) \/ Settings!HandleSavePassword => Input
  BY <1>1, Zenon DEF Settings!HandleSaveRetention, Settings!HandleSavePassword
<1>5. \A x : Settings!ChangeElsewhere(x) \/ Settings!ClipDeleted(x) \/ Settings!ClipCreated => Trouble
  BY <1>1, Zenon DEF Settings!ChangeElsewhere, Settings!ClipDeleted, Settings!ClipCreated
<1> QED BY <1>3, <1>4, <1>5, Zenon DEF Settings!Next, Spends

LEMMA UsersSpend == Users!Next => Spends
<1>1. /\ (Users!Input <=> Input) /\ (Users!Trouble <=> Trouble)
      /\ (UNCHANGED Users!bounds <=> UNCHANGED bounds)
  BY DEF Users!Input, Input, Users!Trouble, Trouble, Users!bounds, bounds
<1>2. \A c : Users!Erring(c) => Spends
  BY <1>1 DEF Users!Erring, Spends
<1>3. \A c : Users!CallStep(c) => Spends
  <2>1. ASSUME NEW c, Users!CallStep(c), ~Users!CallFails(c) PROVE UNCHANGED bounds
    <3>1. Users!ServeList(c) => UNCHANGED bounds
      BY Zenon DEF Users!ServeList, Users!bounds, bounds
    <3>2. Users!ServeUpdate(c) => UNCHANGED bounds
      BY Zenon DEF Users!ServeUpdate, Users!bounds, bounds
    <3>3. Users!ServeReset(c) => UNCHANGED bounds
      BY Zenon DEF Users!ServeReset, Users!bounds, bounds
    <3>4. Users!ListAnswered(c) => UNCHANGED bounds
      BY Zenon DEF Users!ListAnswered, Users!bounds, bounds
    <3>5. Users!EditAnswered(c) => UNCHANGED bounds
      BY Zenon DEF Users!EditAnswered, Users!bounds, bounds
    <3>6. Users!ToggleAnswered(c) => UNCHANGED bounds
      BY Zenon DEF Users!ToggleAnswered, Users!bounds, bounds
    <3>7. Users!ResetAnswered(c) => UNCHANGED bounds
      BY Zenon DEF Users!ResetAnswered, Users!bounds, bounds
    <3> QED BY <2>1, <3>1, <3>2, <3>3, <3>4, <3>5, <3>6, <3>7, Zenon DEF Users!CallStep
  <2>2. \A c : Users!CallFails(c) => Spends
    BY <1>2, Zenon DEF Users!CallFails
  <2> QED BY <2>1, <2>2 DEF Spends
<1>4. Users!Retry \/ Users!Refresh \/ (\E p : Users!TurnTo(p)) => Input
  BY <1>1, Zenon DEF Users!Retry, Users!Refresh, Users!TurnTo
<1>5. (\E u : Users!OpenModal(u)) \/ Users!CloseModal => Input
  BY <1>1, Zenon DEF Users!OpenModal, Users!CloseModal
<1>6. (\E u : Users!SubmitEdit(u)) \/ Users!SubmitReset \/ Users!HandleToggleStatus => Input
  BY <1>1, Zenon DEF Users!SubmitEdit, Users!SubmitReset, Users!HandleToggleStatus
<1>7. Users!ChangeElsewhere => Trouble
  BY <1>1, Zenon DEF Users!ChangeElsewhere
<1> QED BY <1>3, <1>4, <1>5, <1>6, <1>7, Zenon DEF Users!Next, Spends

-----------------------------------------------------------------------------
(* The console. *)

Pages == {"/devices", "/settings", "/admin", "/admin/users", "/admin/settings"}

Tables == DeviceTable /\ UserTable /\ SettingsTable /\ CountTable

\* The invariant of the page that is mounted.
Mounted ==
  /\ Numbered(calls)
  /\ route = "/devices" => DevicesInv
  /\ route = "/settings" => SettingsInv
  /\ route = "/admin" => DashboardInv
  /\ route = "/admin/users" => UsersInv
  /\ route = "/admin/settings" => SystemInv

IInv ==
  /\ role \in {"visitor", "user", "admin"} /\ route \in Routes(role)
  /\ WithinBounds /\ Tables /\ Mounted /\ Invites!IInv

LEMMA KnownRoutes ==
  ASSUME role \in {"visitor", "user", "admin"}, route \in Routes(role)
  PROVE  route \in Pages \cup {"/register"}
BY DEF Routes, Pages

LEMMA Mounts ==
  Tables /\ route \in Pages \cup {"/register"} /\ view = FreshView(route) /\ calls = MountCalls(route)
    => Mounted
<1> SUFFICES ASSUME Tables, route \in Pages \cup {"/register"}, view = FreshView(route),
                    calls = MountCalls(route)
             PROVE  Mounted
  OBVIOUS
<1>1. CASE route = "/devices"
  <2>1. view = Devices!Fresh /\ calls = Devices!MountCalls
    BY <1>1 DEF FreshView, MountCalls
  <2>2. DevicesInv /\ Numbered(calls)
    BY <2>1, DevicesMount DEF Tables
  <2> QED BY <1>1, <2>2 DEF Mounted
<1>2. CASE route = "/settings"
  <2>1. view = Settings!Fresh /\ calls = Settings!MountCalls
    BY <1>2 DEF FreshView, MountCalls
  <2>2. SettingsInv /\ Numbered(calls)
    BY <2>1, SettingsMount DEF Tables
  <2> QED BY <1>2, <2>2 DEF Mounted
<1>3. CASE route = "/admin"
  <2>1. view = Dashboard!Fresh /\ calls = Dashboard!MountCalls
    BY <1>3 DEF FreshView, MountCalls
  <2>2. DashboardInv /\ Numbered(calls)
    BY <2>1, DashboardMount DEF Tables
  <2> QED BY <1>3, <2>2 DEF Mounted
<1>4. CASE route = "/admin/users"
  <2>1. view = Users!Fresh /\ calls = Users!MountCalls
    BY <1>4 DEF FreshView, MountCalls
  <2>2. UsersInv /\ Numbered(calls)
    BY <2>1, UsersMount DEF Tables
  <2> QED BY <1>4, <2>2 DEF Mounted
<1>5. CASE route = "/admin/settings"
  <2>1. view = System!Fresh /\ calls = System!MountCalls
    BY <1>5 DEF FreshView, MountCalls
  <2>2. SystemInv /\ Numbered(calls)
    BY <2>1, SystemMount
  <2> QED BY <1>5, <2>2 DEF Mounted
<1>6. CASE route = "/register"
  <2>1. calls = {}
    BY <1>6 DEF MountCalls
  <2> QED BY <1>6, <2>1, NothingAsked DEF Mounted
<1> QED BY <1>1, <1>2, <1>3, <1>4, <1>5, <1>6 DEF Pages

\* The same of the page that a step mounts.
LEMMA MountsNext ==
  Tables' /\ (route \in Pages \cup {"/register"})' /\ (view = FreshView(route))'
    /\ (calls = MountCalls(route))' => Mounted'
BY Mounts, PTL

LEMMA InitIInv == Init => IInv
<1> SUFFICES ASSUME Init PROVE IInv
  OBVIOUS
<1>1. /\ {MaxDevices, OldDevices, MaxUsers, OldUsers, MaxClips, OldClips, MaxPages} \subseteq Nat
      /\ 1 <= OldUsers /\ OldUsers <= MaxUsers /\ Days # {}
  BY ConsoleAssumption
<1>2. DeviceTable
  <2>1. created \in Nat /\ \A id \in 1..OldDevices : id \in 1..created
    BY <1>1 DEF Init
  <2>2. PICK t : t = TRUE /\ t \in BOOLEAN
    OBVIOUS
  <2>3. devices = {[id |-> id, token |-> t] : id \in 1..OldDevices}
    BY <2>2, Zenon DEF Init, Devices!InitDevices, Devices!Row
  <2>4. \A id \in 1..OldDevices : [id |-> id, token |-> t] \in DeviceRows
    BY <2>1, <2>2 DEF DeviceRows
  <2>5. devices \subseteq DeviceRows
    BY <2>3, <2>4
  <2> QED BY <2>1, <2>5 DEF DeviceTable
<1>3. UserTable
  <2>1. users = {Users!User(id, IF id = 1 THEN "admin" ELSE "user", "active") : id \in 1..OldUsers}
    BY DEF Init, Users!InitUsers, Users!Self
  <2>2. \A id \in 1..OldUsers : id \in 1..MaxUsers
    BY <1>1
  <2>3. 1 \in 1..OldUsers
    BY <1>1
  <2>4. \A id \in 1..OldUsers : /\ Users!User(id, IF id = 1 THEN "admin" ELSE "user", "active") \in UserRows
                                /\ Users!User(id, IF id = 1 THEN "admin" ELSE "user", "active").id = id
    BY <2>2 DEF Users!User, UserRows, Users!Roles, Users!Statuses
  <2>5. users \subseteq UserRows
    BY <2>1, <2>4
  <2>6. \A u, w \in users : u.id = w.id => u = w
    BY <2>1, <2>4
  <2>7. \E u \in users : u.id = Users!Self
    BY <2>1, <2>3, <2>4 DEF Users!Self
  <2> QED BY <2>5, <2>6, <2>7 DEF UserTable
<1>4. SettingsTable
  BY <1>1 DEF Init, SettingsTable
<1>5. CountTable
  BY DEF Init, CountTable
<1>6. /\ role \in {"visitor", "user", "admin"} /\ route \in Routes(role)
      /\ route \in Pages \cup {"/register"}
  BY KnownRoutes DEF Init
<1>7. WithinBounds
  BY BoundsAssumption DEF Init, WithinBounds
<1>8. Mounted
  BY <1>2, <1>3, <1>4, <1>5, <1>6, Mounts DEF Init, Tables
<1>9. Invites!IInv
  BY InvitesInit, Invites!InitIInv DEF Init
<1> QED BY <1>2, <1>3, <1>4, <1>5, <1>6, <1>7, <1>8, <1>9 DEF IInv, Tables

LEMMA NavigateStep ==
  ASSUME IInv, NEW to, Navigate(to)
  PROVE  IInv'
<1>1. /\ to \in Routes(role) /\ Input /\ route' = to /\ role' = role
      /\ view' = FreshView(to) /\ calls' = MountCalls(to)
  BY DEF Navigate
<1>2. UNCHANGED <<devices, created, users, retention, clips, lastClip, count>>
  BY DEF Navigate, tables
<1>3. Tables'
  <2>1. DeviceTable /\ UserTable /\ SettingsTable /\ CountTable
    BY DEF IInv, Tables
  <2>2. DeviceTable'
    BY <1>2, <2>1 DEF DeviceTable, DeviceRows
  <2>3. UserTable'
    BY <1>2, <2>1 DEF UserTable
  <2>4. SettingsTable' /\ CountTable'
    BY <1>2, <2>1 DEF SettingsTable, CountTable
  <2> QED BY <2>2, <2>3, <2>4 DEF Tables
<1>4. /\ role' \in {"visitor", "user", "admin"} /\ route' \in Routes(role')
      /\ route' \in Pages \cup {"/register"}
  <2>1. role \in {"visitor", "user", "admin"}
    BY DEF IInv
  <2>2. to \in Pages \cup {"/register"}
    BY <1>1, <2>1 DEF Routes, Pages
  <2> QED BY <1>1, <2>1, <2>2 DEF Routes
<1>5. WithinBounds'
  BY <1>1, Spending DEF IInv, Spends
<1>6. (view = FreshView(route))' /\ (calls = MountCalls(route))'
  BY <1>1, <1>2
     DEF FreshView, MountCalls, Devices!Fresh, Settings!Fresh, Dashboard!Fresh, Users!Fresh,
         System!Fresh
<1>7. Mounted'
  BY <1>3, <1>4, <1>6, MountsNext DEF Pages
<1>8. Invites!IInv'
  BY InvitesStep DEF Navigate, IInv
<1> QED BY <1>3, <1>4, <1>5, <1>7, <1>8 DEF IInv

LEMMA PageSteps ==
  ASSUME IInv, PageStep, UNCHANGED <<role, route, registration>>
  PROVE  IInv'
<1>1. /\ Numbered(calls) /\ Tables /\ role \in {"visitor", "user", "admin"} /\ route \in Routes(role)
      /\ WithinBounds
  BY DEF IInv, Mounted
<1>2. DeviceTable /\ UserTable /\ SettingsTable /\ CountTable
  BY <1>1 DEF Tables
<1>3. UNCHANGED <<devices, created>> => DeviceTable'
  BY <1>2 DEF DeviceTable, DeviceRows
<1>4. UNCHANGED users => UserTable'
  BY <1>2 DEF UserTable
<1>5. UNCHANGED <<retention, clips, lastClip>> => SettingsTable'
  BY <1>2 DEF SettingsTable
<1>6. UNCHANGED count => CountTable'
  BY <1>2 DEF CountTable
<1>7. CASE route = "/devices" /\ Devices!Next /\ UNCHANGED <<users, retention, clips, lastClip, count>>
  <2>1. DevicesInv
    BY <1>7 DEF IInv, Mounted
  <2>2. DevicesInv' /\ DeviceTable' /\ Numbered(calls')
    BY <1>1, <1>2, <1>7, <2>1, DevicesStep
  <2>3. Tables' /\ Mounted'
    BY <1>4, <1>5, <1>6, <1>7, <2>2 DEF Tables, Mounted
  <2>4. WithinBounds'
    BY <1>1, <1>7, DevicesSpend, Spending
  <2> QED BY <1>1, <2>3, <2>4, InvitesStep DEF IInv, Routes
<1>8. CASE route = "/settings" /\ Settings!Next /\ UNCHANGED <<devices, created, users, count>>
  <2>1. SettingsInv
    BY <1>8 DEF IInv, Mounted
  <2>2. SettingsInv' /\ SettingsTable' /\ Numbered(calls')
    BY <1>1, <1>2, <1>8, <2>1, SettingsStep
  <2>3. Tables' /\ Mounted'
    BY <1>3, <1>4, <1>6, <1>8, <2>2 DEF Tables, Mounted
  <2>4. WithinBounds'
    BY <1>1, <1>8, SettingsSpend, Spending
  <2> QED BY <1>1, <2>3, <2>4, InvitesStep DEF IInv, Routes
<1>9. CASE /\ route = "/admin" /\ Dashboard!Next
           /\ UNCHANGED <<devices, created, users, retention, clips, lastClip>>
  <2>1. DashboardInv
    BY <1>9 DEF IInv, Mounted
  <2>2. DashboardInv' /\ CountTable' /\ Numbered(calls')
    BY <1>1, <1>2, <1>9, <2>1, DashboardStep
  <2>3. Tables' /\ Mounted'
    BY <1>3, <1>4, <1>5, <1>9, <2>2 DEF Tables, Mounted
  <2>4. WithinBounds'
    BY <1>1, <1>9, DashboardSpend, Spending
  <2> QED BY <1>1, <2>3, <2>4, InvitesStep DEF IInv, Routes
<1>10. CASE /\ route = "/admin/users" /\ Users!Next
            /\ UNCHANGED <<devices, created, retention, clips, lastClip, count>>
  <2>1. UsersInv
    BY <1>10 DEF IInv, Mounted
  <2>2. UsersInv' /\ UserTable' /\ Numbered(calls')
    BY <1>1, <1>2, <1>10, <2>1, UsersStep
  <2>3. Tables' /\ Mounted'
    BY <1>3, <1>5, <1>6, <1>10, <2>2 DEF Tables, Mounted
  <2>4. WithinBounds'
    BY <1>1, <1>10, UsersSpend, Spending
  <2> QED BY <1>1, <2>3, <2>4, InvitesStep DEF IInv, Routes
<1>11. CASE route = "/admin/settings" /\ System!Next /\ UNCHANGED tables
  <2>1. SystemInv
    BY <1>11 DEF IInv, Mounted
  <2>2. SystemInv' /\ Numbered(calls')
    BY <1>1, <1>11, <2>1, SystemStep
  <2>3. UNCHANGED <<devices, created, users, retention, clips, lastClip, count>>
    BY <1>11 DEF tables
  <2>4. Tables'
    BY <1>3, <1>4, <1>5, <1>6, <2>3 DEF Tables
  <2>5. Mounted'
    BY <1>11, <2>2 DEF Mounted
  <2>6. WithinBounds'
    BY <1>1, <1>11, SystemSpend, Spending
  <2> QED BY <1>1, <2>4, <2>5, <2>6, InvitesStep DEF IInv, Routes
<1> QED BY <1>7, <1>8, <1>9, <1>10, <1>11 DEF PageStep

\* Nothing of what the pages show or the tables hold changes.
LEMMA PagesRest ==
  ASSUME IInv, UNCHANGED <<role, route, page, tables>>
  PROVE  (IInv' <=> Invites!IInv')
<1>1. /\ role' = role /\ route' = route /\ view' = view /\ calls' = calls
      /\ inputs' = inputs /\ troubles' = troubles
      /\ UNCHANGED <<devices, created, users, retention, clips, lastClip, count>>
  BY DEF page, tables
<1>2. (Routes(role))' = Routes(role)
  BY <1>1 DEF Routes
<1>3. WithinBounds'
  BY <1>1 DEF IInv, WithinBounds
<1>4. DeviceTable' /\ UserTable' /\ SettingsTable' /\ CountTable'
  <2>1. DeviceTable /\ UserTable /\ SettingsTable /\ CountTable
    BY DEF IInv, Tables
  <2>2. DeviceTable'
    BY <1>1, <2>1 DEF DeviceTable, DeviceRows
  <2>3. UserTable'
    BY <1>1, <2>1 DEF UserTable
  <2>4. SettingsTable' /\ CountTable'
    BY <1>1, <2>1 DEF SettingsTable, CountTable
  <2> QED BY <2>2, <2>3, <2>4
<1>5. DevicesInv => DevicesInv'
  BY <1>1 DEF DevicesInv, DeviceViews, DeviceRows, DeviceChanged
<1>6. SettingsInv => SettingsInv'
  BY <1>1 DEF SettingsInv
<1>7. DashboardInv => DashboardInv'
  BY <1>1 DEF DashboardInv, StatsViews
<1>8. UsersInv => UsersInv'
  BY <1>1, UsersPagesSame DEF UsersInv
<1>9. SystemInv => SystemInv'
  BY <1>1 DEF SystemInv
<1>10. Mounted'
  BY <1>1, <1>5, <1>6, <1>7, <1>8, <1>9 DEF IInv, Mounted
<1> QED BY <1>1, <1>2, <1>3, <1>4, <1>10 DEF IInv, Tables

LEMMA NextIInv == IInv /\ [Next]_vars => IInv'
<1> SUFFICES ASSUME IInv, [Next]_vars PROVE IInv'
  OBVIOUS
<1>1. CASE PageStep /\ UNCHANGED <<role, route, registration>>
  BY <1>1, PageSteps
<1>2. ASSUME NEW to, Navigate(to) PROVE IInv'
  BY <1>2, NavigateStep
<1>3. CASE Register!Next /\ UNCHANGED <<role, route, page, tables>>
  <2>1. Invites!IInv'
    BY <1>3, InvitesStep DEF IInv
  <2> QED BY <1>3, <2>1, PagesRest
<1>4. CASE UNCHANGED vars
  <2>1. UNCHANGED <<role, route, page, tables>> /\ UNCHANGED registration
    BY <1>4 DEF vars
  <2>2. Invites!IInv'
    BY <2>1, InvitesStep DEF IInv
  <2> QED BY <2>1, <2>2, PagesRest
<1> QED BY <1>1, <1>2, <1>3, <1>4 DEF Next

\* Whatever page is mounted, and whatever tables others change, the invariants
\* of the tables, of the page and of the registrations hold.
THEOREM Inductive == Spec => []IInv
BY InitIInv, NextIInv, PTL DEF Spec

-----------------------------------------------------------------------------
(* What follows for the pages. *)

LEMMA DevicesTyped ==
  ASSUME DeviceTable, DevicesInv
  PROVE  Devices!TypeOK
<1>1. view \in DeviceViews /\ devices \subseteq DeviceRows
  BY DEF DevicesInv, DeviceTable
<1>2. view.list \subseteq DeviceRows
  BY <1>1 DEF DeviceViews
<1>3. /\ view.loadingList \in BOOLEAN /\ view.actionLoading \in BOOLEAN
      /\ view.createOpen \in BOOLEAN /\ view.listed \in BOOLEAN
      /\ view.createdToken \in 0..created /\ view.revokeTarget \in 0..created
      /\ view.deleteTarget \in 0..created
  BY <1>1 DEF DeviceViews
<1> QED BY <1>1, <1>2, <1>3, Zenon DEF Devices!TypeOK, DeviceRows

LEMMA DevicesShown ==
  ASSUME DevicesInv
  PROVE  Devices!SpinnersStop /\ Devices!ShowsTable
BY DEF DevicesInv, DeviceChanged, Devices!SpinnersStop, Devices!ShowsTable, Devices!Quiet

LEMMA DashboardTyped ==
  ASSUME CountTable, DashboardInv
  PROVE  Dashboard!TypeOK /\ Dashboard!SpinnersStop
<1>1. view \in StatsViews
  BY DEF DashboardInv
<1>2. /\ view.stats \in 0..count /\ view.loading \in BOOLEAN /\ view.refreshing \in BOOLEAN
      /\ view.error \in BOOLEAN
  BY <1>1 DEF StatsViews
<1>3. \A c \in calls : c.answer \subseteq 1..count
  BY DEF DashboardInv
<1>4. Dashboard!TypeOK
  BY <1>2, <1>3, Zenon DEF Dashboard!TypeOK
<1>5. Dashboard!SpinnersStop
  BY DEF DashboardInv, Dashboard!SpinnersStop, Dashboard!Quiet, Dashboard!Failed
<1> QED BY <1>4, <1>5

LEMMA SystemTyped ==
  ASSUME SystemInv
  PROVE  System!TypeOK /\ System!SpinnersStop
<1>1. view \in SystemViews
  BY DEF SystemInv
<1>2. /\ view.systemConfig \in BOOLEAN /\ view.systemError \in BOOLEAN /\ view.meData \in BOOLEAN
      /\ view.meError \in BOOLEAN /\ view.refreshing \in BOOLEAN
  BY <1>1 DEF SystemViews
<1>3. view.opening \subseteq {c.op : c \in {d \in calls : ~d.arg}}
  BY DEF SystemInv
<1>4. System!TypeOK
  BY <1>2, <1>3, Zenon DEF System!TypeOK
<1>5. System!SpinnersStop
  BY DEF SystemInv, System!SpinnersStop, System!Quiet, System!loading
<1> QED BY <1>4, <1>5

LEMMA SettingsTyped ==
  ASSUME SettingsTable, SettingsInv
  PROVE  Settings!TypeOK
<1>1. view \in SettingsViews(lastClip, clips)
  BY DEF SettingsInv
<1>2. /\ view.profile \in Days \cup {0} /\ view.usage \in Seq(1..lastClip) /\ view.steady \subseteq clips
      /\ view.loadingProfile \in BOOLEAN /\ view.saving \in BOOLEAN /\ view.counted \in BOOLEAN
      /\ view.truncated \in BOOLEAN /\ view.usageLoading \in BOOLEAN /\ view.left \in BOOLEAN
      /\ view.known \in BOOLEAN
  BY <1>1 DEF SettingsViews
<1>3. clips \subseteq 1..lastClip /\ retention \in Days
  BY DEF SettingsTable
<1>4. view.profile \in Days \cup {Settings!NoDays}
  BY <1>2 DEF Settings!NoDays
<1> QED BY <1>2, <1>3, <1>4, Zenon DEF Settings!TypeOK

LEMMA SettingsShown ==
  ASSUME SettingsInv
  PROVE  Settings!SpinnersStop /\ Settings!ShowsTable /\ Settings!CountedOnce
<1>1. Settings!SpinnersStop
  BY DEF SettingsInv, SettingsWaits, Settings!SpinnersStop, Settings!Quiet
<1>2. Settings!ShowsTable
  BY DEF SettingsInv, SettingsWaits, ProfileShown, Settings!ShowsTable, Settings!Quiet
<1>3. UsageCounted(view)
  BY DEF SettingsInv
<1>4. Settings!CountedOnce
  BY <1>3, SettingsLists DEF UsageCounted, Settings!CountedOnce
<1> QED BY <1>1, <1>2, <1>4

LEMMA UsersTyped ==
  ASSUME UserTable, UsersInv
  PROVE  Users!TypeOK
<1>1. view \in UserViews /\ IsInjective(view.list) /\ Len(view.list) <= PAGE_SIZE
  BY DEF UsersInv, UsersView
<1>2. /\ view.list \in Seq(UserRows) /\ view.page \in 0..MaxUsers /\ view.total \in 0..MaxUsers
      /\ view.hasMore \in BOOLEAN /\ view.loading \in BOOLEAN /\ view.error \in BOOLEAN
      /\ view.editLoading \in BOOLEAN /\ view.resetLoading \in BOOLEAN
      /\ view.toggleLoading \in BOOLEAN /\ view.listed \in BOOLEAN
  BY <1>1 DEF UserViews
<1>3. Users!ToSet(view.list) \subseteq [id : 1..MaxUsers, role : Users!Roles, status : Users!Statuses]
  <2>1. ToSet(view.list) \subseteq UserRows
    BY <1>2 DEF ToSet
  <2> QED BY <2>1, UsersLists DEF UserRows
<1>4. Users!IsInjective(view.list)
  BY <1>1, UsersLists
<1>5. \A u \in users : u.id \in 1..MaxUsers /\ u.role \in Users!Roles /\ u.status \in Users!Statuses
  BY DEF UserTable, UserRows
<1> QED BY <1>1, <1>2, <1>3, <1>4, <1>5, Zenon DEF Users!TypeOK

LEMMA UsersDone ==
  ASSUME UserTable, UsersInv
  PROVE  Users!SpinnersStop /\ Users!NoDeadPage /\ Users!ShowsTable
<1>1. Users!SpinnersStop
  BY DEF UsersInv, UsersWaits, Users!SpinnersStop, Users!Quiet
<1>2. Users!NoDeadPage
  BY DEF UsersInv, UsersWaits, Users!NoDeadPage, Users!Quiet
<1>3. Users!ShowsTable
  <2> SUFFICES ASSUME calls = {}, view.listed
               PROVE  /\ view.list = Users!Slice(view.page)
                      /\ view.hasMore = ((view.page + 1) * PAGE_SIZE < Users!Cardinality(users))
    BY DEF Users!ShowsTable, Users!Quiet
  <2>1. /\ view.list = UsersPages[view.page]
        /\ view.hasMore <=> (view.page + 1) * PAGE_SIZE < Cardinality(users)
    BY DEF UsersInv, UsersShown, UserChanged
  <2>2. view.page \in 0..MaxUsers /\ view.hasMore \in BOOLEAN
    BY DEF UsersInv, UsersView, UserViews
  <2>3. UsersPages[view.page] = Users!Slice(view.page)
    BY <2>2, Zenon DEF UsersPages
  <2>4. view.hasMore = ((view.page + 1) * PAGE_SIZE < Cardinality(users))
    BY <2>1, <2>2
  <2> QED BY <2>1, <2>3, <2>4, UsersCardinality
<1> QED BY <1>1, <1>2, <1>3

LEMMA RegisterRoute ==
  ASSUME IInv
  PROVE  Register!TypeOK /\ Register!SpinnersStop /\ CodeAdmitsOne /\ NoStrangers
BY InvitesKeep DEF IInv

\* Each page keeps its types, a user stays on the routes of the role, and
\* requests that are under way together are told apart.
THEOREM TypeCorrect == Spec => []TypeOK
<1>1. IInv => TypeOK
  <2> SUFFICES ASSUME IInv PROVE TypeOK
    OBVIOUS
  <2>1. /\ route \in Routes(role) /\ inputs \in 0..MaxInputs /\ troubles \in 0..MaxTroubles
        /\ DeviceTable /\ UserTable /\ SettingsTable /\ CountTable
    BY DEF IInv, WithinBounds, Tables
  <2>2. \A c, d \in calls : c.id = d.id => c = d
    BY DEF IInv, Mounted, Numbered
  <2>3. route = "/devices" => Devices!TypeOK
    BY <2>1, DevicesTyped DEF IInv, Mounted
  <2>4. route = "/settings" => Settings!TypeOK
    BY <2>1, SettingsTyped DEF IInv, Mounted
  <2>5. route = "/admin" => Dashboard!TypeOK
    BY <2>1, DashboardTyped DEF IInv, Mounted
  <2>6. route = "/admin/users" => Users!TypeOK
    BY <2>1, UsersTyped DEF IInv, Mounted
  <2>7. route = "/admin/settings" => System!TypeOK
    BY SystemTyped DEF IInv, Mounted
  <2>8. Register!TypeOK
    BY RegisterRoute
  <2> QED BY <2>1, <2>2, <2>3, <2>4, <2>5, <2>6, <2>7, <2>8 DEF TypeOK
<1> QED BY <1>1, Inductive, PTL

\* When all requests of a page have been answered or have failed, in whatever
\* order, it is not loading any more (the finally blocks of the pages).
THEOREM NoPageStaysBusy == Spec => []SpinnersStop
<1>1. IInv => SpinnersStop
  <2> SUFFICES ASSUME IInv PROVE SpinnersStop
    OBVIOUS
  <2>1. UserTable /\ CountTable
    BY DEF IInv, Tables
  <2>2. route = "/devices" => Devices!SpinnersStop
    BY DevicesShown DEF IInv, Mounted
  <2>3. route = "/settings" => Settings!SpinnersStop
    BY SettingsShown DEF IInv, Mounted
  <2>4. route = "/admin" => Dashboard!SpinnersStop
    BY <2>1, DashboardTyped DEF IInv, Mounted
  <2>5. route = "/admin/users" => Users!SpinnersStop
    BY <2>1, UsersDone DEF IInv, Mounted
  <2>6. route = "/admin/settings" => System!SpinnersStop
    BY SystemTyped DEF IInv, Mounted
  <2>7. Register!SpinnersStop
    BY RegisterRoute
  <2> QED BY <2>2, <2>3, <2>4, <2>5, <2>6, <2>7 DEF SpinnersStop
<1> QED BY <1>1, Inductive, PTL

\* What a page shows in the end is the table, unless others changed it or a
\* change failed halfway: a change of the page's own is followed by a list of
\* its own, or by the row in the answer.
THEOREM ShownIsThere == Spec => []ShowsTable
<1>1. IInv => ShowsTable
  <2> SUFFICES ASSUME IInv PROVE ShowsTable
    OBVIOUS
  <2>1. UserTable
    BY DEF IInv, Tables
  <2>2. route = "/devices" => Devices!ShowsTable
    BY DevicesShown DEF IInv, Mounted
  <2>3. route = "/settings" => Settings!ShowsTable
    BY SettingsShown DEF IInv, Mounted
  <2>4. route = "/admin/users" => Users!ShowsTable
    BY <2>1, UsersDone DEF IInv, Mounted
  <2> QED BY <2>2, <2>3, <2>4 DEF ShowsTable
<1> QED BY <1>1, Inductive, PTL

\* Nobody is left in front of a page of the user list that has become empty
\* (Users.tsx turns it back).
THEOREM PagesEnd == Spec => []NoDeadPage
<1>1. IInv => NoDeadPage
  <2> SUFFICES ASSUME IInv, route = "/admin/users" PROVE Users!NoDeadPage
    BY DEF NoDeadPage
  <2> QED BY UsersDone DEF IInv, Mounted, Tables
<1> QED BY <1>1, Inductive, PTL

\* However clips come and go under the walk of computeUsage, it counts none
\* twice, and none that was there throughout is left out.
THEOREM UsageIsCounted == Spec => []CountedOnce
<1>1. IInv => CountedOnce
  <2> SUFFICES ASSUME IInv, route = "/settings" PROVE Settings!CountedOnce
    BY DEF CountedOnce
  <2> QED BY SettingsShown DEF IInv, Mounted
<1> QED BY <1>1, Inductive, PTL

\* Whatever else happens on the other pages, one account at most is answered
\* 201 for an invite code, and it is the one the code's row names.
THEOREM OneAdmitted == Spec => []CodeAdmitsOne
<1>1. IInv => CodeAdmitsOne
  BY RegisterRoute
<1> QED BY <1>1, Inductive, PTL

\* In invite mode an account without the code is one whose handler is at work
\* or whose deletion was prevented.
THEOREM NoOthers == Spec => []NoStrangers
<1>1. IInv => NoStrangers
  BY RegisterRoute
<1> QED BY <1>1, Inductive, PTL

-----------------------------------------------------------------------------
(* The token of a new device. *)

\* Nothing takes a token away but the user, and the token of a device that was
\* asked for over it.
LEMMA TokenStays ==
  ASSUME DevicesInv, Devices!Next, view.createdToken # 0,
         view'.createdToken # view.createdToken
  PROVE  \/ Devices!Dismiss
         \/ \E c \in calls : Devices!CreateAnswered(c) /\ c.arg = view.createdToken
<1>1. view \in DeviceViews /\ \A c \in calls : c.op = "create" => c.arg = view.createdToken
  BY DEF DevicesInv
<1>2. CASE Devices!Dismiss
  BY <1>2
<1>3. CASE Devices!OpenCreate
  <2>1. view' = [view EXCEPT !.createOpen = TRUE]
    BY <1>3 DEF Devices!OpenCreate
  <2> QED BY <1>1, <2>1 DEF DeviceViews
<1>4. CASE Devices!HandleCreate \/ Devices!HandleRevoke \/ Devices!HandleDelete
  <2>1. view' = [view EXCEPT !.actionLoading = TRUE]
    BY <1>4, Zenon
       DEF Devices!HandleCreate, Devices!HandleRevoke, Devices!HandleDelete, Devices!Start
  <2> QED BY <1>1, <2>1 DEF DeviceViews
<1>5. ASSUME NEW d, Devices!OpenConfirm(d) PROVE FALSE
  <2>1. \/ view' = [view EXCEPT !.revokeTarget = d.id]
        \/ view' = [view EXCEPT !.deleteTarget = d.id]
    BY <1>5 DEF Devices!OpenConfirm
  <2> QED BY <1>1, <2>1 DEF DeviceViews
<1>6. ASSUME NEW d, Devices!DeleteElsewhere(d) PROVE FALSE
  <2>1. view' = [view EXCEPT !.newest = 0, !.listed = FALSE]
    BY <1>6 DEF Devices!DeleteElsewhere
  <2> QED BY <1>1, <2>1 DEF DeviceViews
<1>7. ASSUME NEW c \in calls, Devices!CallStep(c)
      PROVE  Devices!CreateAnswered(c) /\ c.arg = view.createdToken
  <2>1. Devices!CreateAnswered(c) => c.arg = view.createdToken
    BY <1>1, Zenon DEF Devices!CreateAnswered, Devices!Answered
  <2>2. CASE \/ Devices!ServeList(c) \/ Devices!ServeCreate(c) \/ Devices!ServeRevoke(c)
             \/ Devices!ServeDelete(c)
    <3>1. view' = view
      BY <2>2, Zenon
         DEF Devices!ServeList, Devices!ServeCreate, Devices!ServeRevoke, Devices!ServeDelete
    <3> QED BY <3>1
  <2>3. CASE Devices!ListAnswered(c)
    <3>1. view' = [view EXCEPT !.list = c.answer, !.loadingList = FALSE, !.listed = (c.id = view.newest)]
      BY <2>3 DEF Devices!ListAnswered
    <3> QED BY <1>1, <3>1 DEF DeviceViews
  <2>4. CASE Devices!RevokeAnswered(c) \/ Devices!DeleteAnswered(c)
    <3>1. PICK v : /\ Devices!FetchAfter(v, c)
                   /\ \/ v = [view EXCEPT !.revokeTarget = 0, !.actionLoading = FALSE]
                      \/ v = [view EXCEPT !.deleteTarget = 0, !.actionLoading = FALSE]
      BY <2>4 DEF Devices!RevokeAnswered, Devices!DeleteAnswered
    <3>2. \E n : view' = [v EXCEPT !.loadingList = TRUE, !.newest = n, !.listed = FALSE]
      BY <3>1, Zenon DEF Devices!FetchAfter
    <3>3. v.createdToken = view.createdToken /\ DOMAIN v = DOMAIN view
      BY <1>1, <3>1 DEF DeviceViews
    <3>4. view'.createdToken = v.createdToken
      BY <1>1, <3>2, <3>3 DEF DeviceViews
    <3> QED BY <3>3, <3>4
  <2>5. CASE Devices!CallFails(c)
    <3>1. \/ view' = [view EXCEPT !.loadingList = FALSE]
          \/ view' = [view EXCEPT !.actionLoading = FALSE, !.newest = 0, !.listed = FALSE]
      BY <2>5 DEF Devices!CallFails
    <3> QED BY <1>1, <3>1 DEF DeviceViews
  <2> QED BY <1>7, <2>1, <2>2, <2>3, <2>4, <2>5 DEF Devices!CallStep
<1> QED BY <1>2, <1>3, <1>4, <1>5, <1>6, <1>7 DEF Devices!Next

\* The token of a new device, which the server tells once, leaves the screen
\* when the user closes it, when the page is left, or by the token of another
\* device that the user asked for over it; never by a late answer.
THEOREM TokenIsKept == Spec => TokenKept
<1>1. IInv /\ [Next]_vars =>
        [route = "/devices" /\ route' = route /\ view.createdToken # 0
           /\ view'.createdToken # view.createdToken
         => \/ Devices!Dismiss
            \/ \E c \in calls : Devices!CreateAnswered(c) /\ c.arg = view.createdToken]_vars
  <2> SUFFICES ASSUME IInv, [Next]_vars, route = "/devices", route' = route,
                      view.createdToken # 0, view'.createdToken # view.createdToken
               PROVE  \/ Devices!Dismiss
                      \/ \E c \in calls : Devices!CreateAnswered(c) /\ c.arg = view.createdToken
    OBVIOUS
  <2>1. DevicesInv
    BY DEF IInv, Mounted
  <2>2. CASE PageStep
    <3>1. Devices!Next
      BY <2>2 DEF PageStep
    <3> QED BY <2>1, <3>1, TokenStays
  <2>3. ASSUME NEW to, Navigate(to) PROVE FALSE
    BY <2>3 DEF Navigate
  <2>4. ~(UNCHANGED page) /\ ~(UNCHANGED vars)
    BY DEF page, vars
  <2> QED BY <2>2, <2>3, <2>4 DEF Next
<1> QED BY <1>1, Inductive, PTL DEF Spec, TokenKept
=============================================================================
