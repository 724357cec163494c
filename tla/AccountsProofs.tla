---------------------------- MODULE AccountsProofs -----------------------------
(* What the worker alone does to the accounts is right, and in what ways   *)
(* the slow thread can spoil it: the four invariants of Accounts, for any  *)
(* numbers of connections, users and remote logins.                        *)
EXTENDS Accounts, FiniteSetTheorems, SequenceTheorems, WellFoundedInduction, TLAPS

-----------------------------------------------------------------------------
(* The inductive invariant.                                                *)

(* A thread that adds a user; before it has marked a row; with its row.    *)
Finding == {"find row", "test row", "mark row"}
Adding == Finding \cup {"fill row"}
Placing == {"mark row", "fill row"}

(* The worker in removeuser, at a row. *)
Removing == {"first user", "delete user", "clear row", "clear row again"}

Searching == {"find id", "find name", "new user"}
WorkerLabels == {"idle", "login", "compare password", "not found", "answer", "get users",
                 "look for login", "remove"} \cup Searching \cup Removing \cup Adding
SlowLabels == {"idle", "read url", "log in"} \cup Adding

Types ==
    /\ TypeOK
    /\ pc \in [Threads -> WorkerLabels \cup SlowLabels]
    /\ pc["worker"] \in WorkerLabels /\ pc["slow"] \in SlowLabels
    /\ by \in [Clients -> {"none", "worker", "slow"}]
    /\ command \in [client : Clients \cup {Null}, name : Names \cup {Null},
                    id : Ids \cup {Null}, user : Users \cup {Null}]
    /\ task \in [client : Clients \cup {Null}, name : Names \cup {Null}]

(* What the thread's command or task is known to hold. *)
WorkerStage ==
    /\ pc["worker"] \in {"login", "compare password", "not found"} =>
          command.client \in Clients /\ command.name \in Names
    /\ pc["worker"] \in Searching => command.name \in Names /\ command.id \in Ids
    /\ pc["worker"] \in {"look for login", "remove"} \cup Removing => command.id \in Ids
    /\ pc["worker"] \in {"compare password"} \cup Removing =>
          command.user \in Users /\ username[command.user] # Null
    /\ pc["worker"] \in {"idle", "compare password", "not found", "answer", "new user",
                        "look for login"} => row["worker"] = 1
    /\ pc["worker"] \in Removing \cup (Adding \ {"find row"}) => row["worker"] \in Rows

SlowStage ==
    /\ pc["slow"] # "idle" => task.client \in Clients /\ task.name \in Names
    /\ pc["slow"] = "log in" => new_user["slow"] \in Users
    /\ pc["slow"] \in Adding \ {"find row"} => row["slow"] \in Rows
    /\ pc["slow"] \in Adding => new_user["slow"] \in remote

(* Who is in the list, who is being added. *)
Created ==
    /\ \A u \in heap : username[u] # Null
    /\ \A r \in Rows : item[r] # Null => username[item[r]] # Null
    /\ \A r, s \in Rows : r # s /\ item[r] = item[s] => item[r] = Null
    /\ \A t \in Threads : pc[t] \in Adding =>
          /\ new_user[t] \in heap
          /\ \A r \in Rows : item[r] # new_user[t]
          /\ \A s \in Threads \ {t} : pc[s] \in Adding => new_user[s] # new_user[t]
    /\ \A r \in Rows : item[r] # Null =>
          item[r] \in heap \/ (pc["worker"] = "clear row" /\ row["worker"] = r)

(* There is a row for every user, because every row that was passed over   *)
(* had a user of its own: `place' says which row a user was put in.        *)
PlacedBy(place) ==
    /\ \A u \in Users : username[u] = Null => place[u] = 0
    /\ \A r \in Rows : used[r] => \E u \in Users : place[u] = r
    /\ \A t \in Threads : pc[t] \in Finding => place[new_user[t]] = 0
    /\ \A t \in Threads : pc[t] \in {"test row", "mark row"} =>
          \A r \in Rows : r < row[t] => \E u \in Users : place[u] = r
Placed == \E place \in [Users -> Nat] : PlacedBy(place)

(* A used row has a user, but for one being filled or cleared.             *)
NullRows ==
    \A r \in Rows : used[r] /\ item[r] = Null =>
        \/ \E t \in Threads : pc[t] = "fill row" /\ row[t] = r
        \/ pc["worker"] = "clear row again" /\ row["worker"] = r

(* The rows of the users the worker made, and what its search has seen.    *)
Own(r) == item[r] # Null /\ item[r] \notin remote
Twins ==
    /\ \A r \in Rows : Own(r) => used[r]
    /\ pc["worker"] = "fill row" => used[row["worker"]]
    /\ pc["worker"] = "clear row again" => ~Own(row["worker"])
    /\ \A r, s \in Rows : r # s /\ Own(r) /\ Own(s) =>
          userid[item[r]] # userid[item[s]] /\ username[item[r]] # username[item[s]]
    /\ \A r \in Rows : Own(r) =>
          /\ pc["worker"] = "find id" /\ r < row["worker"] => userid[item[r]] # command.id
          /\ pc["worker"] \in {"find name", "new user"} => userid[item[r]] # command.id
          /\ pc["worker"] = "find name" /\ r < row["worker"] => username[item[r]] # command.name
          /\ pc["worker"] = "new user" => username[item[r]] # command.name
          /\ pc["worker"] \in Adding =>
                /\ userid[item[r]] # userid[new_user["worker"]]
                /\ username[item[r]] # username[new_user["worker"]]

(* The connections that the slow thread did not log in, and the user the   *)
(* worker is about to log in.                                              *)
Trusted(c) == by[c] # "slow" /\ logged_in_user[c] # Null
Logins ==
    /\ \A c \in Clients : Trusted(c) =>
          /\ logged_in_user[c] \in heap /\ connection[c] = "open"
          /\ \A t \in Threads : pc[t] \in Adding => logged_in_user[c] # new_user[t]
    /\ pc["worker"] \in {"login", "compare password"} => connection[command.client] = "open"
    /\ pc["worker"] = "compare password" =>
          /\ command.user \in heap
          /\ \A t \in Threads : pc[t] \in Adding => command.user # new_user[t]

(* Whoever is logged in as the user to remove has been found, and the row  *)
(* removed is this user's, or the slow thread has just written over it.    *)
Removal ==
    /\ \A c \in Clients : Trusted(c) =>
          /\ pc["worker"] = "look for login" /\ c \notin unseen => userid[logged_in_user[c]] # command.id
          /\ pc["worker"] \in {"remove"} \cup Removing => userid[logged_in_user[c]] # command.id
          /\ pc["worker"] \in {"first user", "delete user"} =>
                item[row["worker"]] = command.user \/ item[row["worker"]] # logged_in_user[c]
    /\ pc["worker"] = "delete user" => userid[command.user] = command.id

(* As long as no two threads chose the same row.                           *)
Apart ==
    collided = {} =>
        /\ \A t \in Threads : pc[t] = "mark row" => ~used[row[t]]
        /\ \A t \in Threads : pc[t] = "fill row" => used[row[t]] /\ item[row[t]] = Null
        /\ pc["worker"] \in Placing /\ pc["slow"] \in Placing => row["worker"] # row["slow"]
        /\ \A r \in Rows : ~used[r] => item[r] = Null
        /\ pc["worker"] \in Removing =>
              used[row["worker"]] /\ (pc["slow"] = "fill row" => row["slow"] # row["worker"])
        /\ pc["worker"] \in {"first user", "delete user", "clear row"} => item[row["worker"]] # Null
        /\ pc["worker"] = "clear row" => item[row["worker"]] \notin heap
        /\ pc["worker"] = "clear row again" => item[row["worker"]] = Null

Found ==
    collided = {} =>
        \A u \in heap : \/ \E r \in Rows : used[r] /\ item[r] = u
                        \/ \E t \in Threads : pc[t] \in Adding /\ new_user[t] = u

(* The null pointer that ends the process.                                 *)
Faults == fault => pc["slow"] = "fill row" /\ row["slow"] = row["worker"]

IndInv == /\ Types /\ WorkerStage /\ SlowStage /\ Created /\ Placed /\ NullRows
          /\ Twins /\ Logins /\ Removal /\ Apart /\ Found /\ Faults

-----------------------------------------------------------------------------
LEMMA ThreadFacts ==
    /\ "worker" \in Threads /\ "slow" \in Threads
    /\ \A t \in Threads : t = "worker" \/ t = "slow"
    /\ Null = 0 /\ 1 \in Rows /\ Users = Rows /\ Null \notin Users
    /\ \A r \in Rows : r \in Nat /\ r >= 1 /\ r <= MaxUsers
    /\ \A n \in Nat : n >= 1 /\ n <= MaxUsers => n \in Rows
    /\ MaxUsers \in Nat
BY AccountsAssumption DEF Threads, Null, Rows, Users

LEMMA InitInv == Init => IndInv
<1>. SUFFICES ASSUME Init PROVE IndInv
  OBVIOUS
<1>. USE DEF Init
<1>1. /\ pc["worker"] = "idle" /\ pc["slow"] = "idle" /\ \A t \in Threads : pc[t] = "idle"
      /\ 1 \in Rows
  BY ThreadFacts
<1>2. Types
  <2>1. TypeOK
    <3>1. /\ connection \in [Clients -> {"none", "open", "closed"}]
          /\ logged_in_user \in [Clients -> Users \cup {Null}]
          /\ userid \in [Users -> Ids \cup {Null}] /\ username \in [Users -> Names \cup {Null}]
          /\ used \in [Rows -> BOOLEAN] /\ item \in [Rows -> Users \cup {Null}]
          /\ new_user \in [Threads -> Users \cup {Null}]
      OBVIOUS
    <3>2. row \in [Threads -> Rows \cup {MaxUsers + 1}]
      BY <1>1
    <3>3. slow_tasks \in Seq([client : Clients, name : Names])
      OBVIOUS
    <3>. QED
      BY <3>1, <3>2, <3>3 DEF TypeOK
  <2>2. /\ pc \in [Threads -> WorkerLabels \cup SlowLabels]
        /\ by \in [Clients -> {"none", "worker", "slow"}]
    BY DEF WorkerLabels
  <2>3. /\ command \in [client : Clients \cup {Null}, name : Names \cup {Null},
                        id : Ids \cup {Null}, user : Users \cup {Null}]
        /\ task \in [client : Clients \cup {Null}, name : Names \cup {Null}]
    BY DEF NoCommand, NoTask
  <2>. QED
    BY <1>1, <2>1, <2>2, <2>3 DEF Types, WorkerLabels, SlowLabels
<1>3. WorkerStage /\ SlowStage
  <2>1. row["worker"] = 1
    BY ThreadFacts
  <2>. QED
    BY <1>1, <2>1 DEF WorkerStage, SlowStage, Searching, Removing, Adding, Finding
<1>4. Created
  BY <1>1 DEF Created, Adding, Finding
<1>5. Placed
  <2>1. [u \in Users |-> 0] \in [Users -> Nat] /\ PlacedBy([u \in Users |-> 0])
    BY <1>1 DEF PlacedBy, Finding
  <2>. QED
    BY <2>1 DEF Placed
<1>6. NullRows
  BY DEF NullRows
<1>7. Twins
  BY <1>1 DEF Twins, Own, Adding, Finding
<1>8. Logins /\ Removal
  BY <1>1 DEF Logins, Removal, Trusted, Removing
<1>9. Apart /\ Found /\ Faults
  BY <1>1 DEF Apart, Found, Faults, Placing, Removing
<1>. QED
  BY <1>2, <1>3, <1>4, <1>5, <1>6, <1>7, <1>8, <1>9 DEF IndInv

-----------------------------------------------------------------------------
(* Steps that leave alone what a part of the invariant speaks of.          *)

LEMMA CreatedKept ==
    ASSUME Created, heap' = heap, username' = username, item' = item,
           \A t \in Threads : pc'[t] \in Adding => pc[t] \in Adding /\ new_user'[t] = new_user[t],
           pc["worker"] = "clear row" => pc'["worker"] = "clear row" /\ row'["worker"] = row["worker"]
    PROVE  Created'
BY DEF Created

LEMMA PlacedKept ==
    ASSUME Placed, username' = username, \A r \in Rows : used'[r] => used[r],
           \A t \in Threads : pc'[t] \in Finding =>
              pc'[t] = pc[t] /\ new_user'[t] = new_user[t] /\ row'[t] = row[t]
    PROVE  Placed'
<1>1. PICK place \in [Users -> Nat] : PlacedBy(place)
  BY DEF Placed
<1>2. /\ \A u \in Users : username'[u] = Null => place[u] = 0
      /\ \A r \in Rows : used'[r] => \E u \in Users : place[u] = r
      /\ \A t \in Threads : pc'[t] \in Finding => place[new_user'[t]] = 0
      /\ \A t \in Threads : pc'[t] \in {"test row", "mark row"} =>
            \A r \in Rows : r < row'[t] => \E u \in Users : place[u] = r
  BY <1>1 DEF PlacedBy, Finding
<1>. QED
  BY <1>2 DEF Placed, PlacedBy

LEMMA NullRowsKept ==
    ASSUME NullRows, \A r \in Rows : used'[r] /\ item'[r] = Null => used[r] /\ item[r] = Null,
           \A t \in Threads : pc[t] = "fill row" => pc'[t] = "fill row" /\ row'[t] = row[t],
           pc["worker"] = "clear row again" => pc'["worker"] = "clear row again" /\ row'["worker"] = row["worker"]
    PROVE  NullRows'
BY DEF NullRows

LEMMA TwinsKept ==
    ASSUME Twins, item' = item, remote' = remote, userid' = userid, username' = username,
           \A r \in Rows : used[r] => used'[r],
           row["worker"] \in Rows \/ pc["worker"] # "fill row",
           pc'["worker"] = "fill row" => pc["worker"] = "fill row" /\ row'["worker"] = row["worker"],
           pc'["worker"] = "clear row again" =>
              pc["worker"] = "clear row again" /\ row'["worker"] = row["worker"],
           pc'["worker"] \in Searching =>
              pc'["worker"] = pc["worker"] /\ row'["worker"] = row["worker"] /\ command' = command,
           pc'["worker"] \in Adding => pc["worker"] \in Adding /\ new_user'["worker"] = new_user["worker"]
    PROVE  Twins'
BY DEF Twins, Own, Searching

LEMMA LoginsKept ==
    ASSUME Logins, heap' = heap, logged_in_user' = logged_in_user, by' = by, connection' = connection,
           \A t \in Threads : pc'[t] \in Adding => pc[t] \in Adding /\ new_user'[t] = new_user[t],
           pc'["worker"] \in {"login", "compare password"} =>
              pc'["worker"] = pc["worker"] /\ command' = command
    PROVE  Logins'
BY DEF Logins, Trusted

LEMMA RemovalKept ==
    ASSUME Removal, logged_in_user' = logged_in_user, by' = by, item' = item, userid' = userid,
           pc'["worker"] \in {"look for login", "remove"} \cup Removing =>
              /\ pc'["worker"] = pc["worker"] /\ command' = command
              /\ row'["worker"] = row["worker"] /\ unseen' = unseen
    PROVE  Removal'
BY DEF Removal, Trusted, Removing

LEMMA ApartKept ==
    ASSUME Apart, collided' = {} => collided = {}, used' = used, item' = item, heap' = heap,
           \A t \in Threads : pc'[t] \in Placing => pc'[t] = pc[t] /\ row'[t] = row[t],
           pc'["worker"] \in Removing => pc'["worker"] = pc["worker"] /\ row'["worker"] = row["worker"]
    PROVE  Apart'
<1>1. "worker" \in Threads /\ "slow" \in Threads
  BY ThreadFacts
<1>. QED
  BY <1>1 DEF Apart, Placing, Removing

LEMMA FoundKept ==
    ASSUME Found, collided' = {} => collided = {}, used' = used, item' = item, heap' = heap,
           \A t \in Threads : pc[t] \in Adding => pc'[t] \in Adding /\ new_user'[t] = new_user[t]
    PROVE  Found'
BY DEF Found

LEMMA FaultsKept ==
    ASSUME ~fault'
    PROVE  Faults'
BY DEF Faults

-----------------------------------------------------------------------------
(* biglist::add: the steps that look for a row and mark it.                *)

LEMMA Least ==
    ASSUME NEW T, T \subseteq Nat, T # {}
    PROVE  \E m \in T : \A k \in T : ~(k < m)
<1>1. PICK x \in T : \A y \in T : ~ (<<y, x>> \in OpToRel(<, Nat))
  BY NatLessThanWellFounded, WFMin
<1>2. ASSUME NEW y \in T PROVE ~(y < x)
  <2>1. ~ (<<y, x>> \in OpToRel(<, Nat))
    BY <1>1
  <2>2. y < x => <<y, x>> \in OpToRel(<, Nat)
    BY DEF OpToRel
  <2>. QED
    BY <2>1, <2>2
<1>. QED
  BY <1>2

(* As long as one user is in no row, one row is empty or was when it was   *)
(* passed over.                                                            *)
LEMMA RowLeft ==
    ASSUME NEW place \in [Users -> Nat], NEW v \in Users, place[v] = 0,
           NEW n \in Nat, \A r \in 1 .. n : \E u \in Users : place[u] = r
    PROVE  n < MaxUsers
<1>. DEFINE T == Users \ {v}
            f == [r \in 1 .. n |-> CHOOSE u \in T : place[u] = r]
<1>1. MaxUsers \in Nat /\ MaxUsers >= 1
  BY AccountsAssumption
<1>2. IsFiniteSet(Users) /\ Cardinality(Users) = MaxUsers
  <2>1. IsFiniteSet(1 .. MaxUsers) /\ Cardinality(1 .. MaxUsers) = IF 1 > MaxUsers THEN 0 ELSE MaxUsers - 1 + 1
    <3>1. 1 \in Int /\ MaxUsers \in Int
      BY <1>1
    <3>. QED
      BY <3>1, FS_Interval
  <2>2. (IF 1 > MaxUsers THEN 0 ELSE MaxUsers - 1 + 1) = MaxUsers
    BY <1>1
  <2>. QED
    BY <2>1, <2>2 DEF Users
<1>3. IsFiniteSet(T) /\ Cardinality(T) = MaxUsers - 1
  BY <1>2, FS_RemoveElement
<1>4. IsFiniteSet(1 .. n) /\ Cardinality(1 .. n) = n
  <2>1. IsFiniteSet(1 .. n) /\ Cardinality(1 .. n) = IF 1 > n THEN 0 ELSE n - 1 + 1
    <3>1. 1 \in Int /\ n \in Int
      OBVIOUS
    <3>. QED
      BY <3>1, FS_Interval
  <2>2. (IF 1 > n THEN 0 ELSE n - 1 + 1) = n
    OBVIOUS
  <2>. QED
    BY <2>1, <2>2
<1>5. \A r \in 1 .. n : f[r] \in T /\ place[f[r]] = r
  <2>1. ASSUME NEW r \in 1 .. n PROVE \E u \in T : place[u] = r
    <3>1. PICK u \in Users : place[u] = r
      OBVIOUS
    <3>2. r # 0
      OBVIOUS
    <3>. QED
      BY <3>1, <3>2
  <2>. QED
    BY <2>1
<1>6. f \in [1 .. n -> T]
  BY <1>5
<1>7. \A x, y \in 1 .. n : f[x] = f[y] => x = y
  BY <1>5
<1>. HIDE DEF T, f
<1>8. ~(Cardinality(T) < Cardinality(1 .. n))
  BY <1>3, <1>4, <1>6, <1>7, FS_PigeonHole
<1>9. ~(MaxUsers - 1 < n)
  BY <1>3, <1>4, <1>8
<1>. QED
  BY <1>1, <1>9

LEMMA FindRowStep ==
    ASSUME IndInv, ~fault, NEW t \in Threads, FindRow(t)
    PROVE  IndInv'
<1>. USE DEF At, Goto, user_vars, list_vars, login_vars, slow_vars
<1>1. /\ pc[t] = "find row" /\ pc' = [pc EXCEPT ![t] = "test row"]
      /\ row' = [row EXCEPT ![t] = FirstUnused]
      /\ UNCHANGED <<connection, logged_in_user, by, heap, userid, username, remote, used, item, collided,
                     slow_tasks, task, command, new_user, unseen, fault>>
  BY DEF FindRow
<1>2. /\ pc'[t] = "test row" /\ row'[t] = FirstUnused
      /\ \A s \in Threads \ {t} : pc'[s] = pc[s] /\ row'[s] = row[s]
  BY <1>1 DEF IndInv, Types, TypeOK
<1>3. PICK place \in [Users -> Nat] : PlacedBy(place)
  BY DEF IndInv, Placed
<1>4. FirstUnused \in Rows /\ ~used[FirstUnused] /\ \A r \in Rows : r < FirstUnused => used[r]
  <2>1. \E r \in Rows : ~used[r]
    <3>1. SUFFICES ASSUME \A r \in Rows : used[r] PROVE FALSE
      OBVIOUS
    <3>2. new_user[t] \in Users /\ place[new_user[t]] = 0
      BY <1>1, <1>3 DEF IndInv, Types, TypeOK, Created, PlacedBy, Finding, Adding
    <3>3. \A r \in 1 .. MaxUsers : \E u \in Users : place[u] = r
      BY <1>3, <3>1 DEF PlacedBy, Rows
    <3>4. MaxUsers \in Nat
      BY ThreadFacts
    <3>5. MaxUsers < MaxUsers
      BY <3>2, <3>3, <3>4, RowLeft
    <3>. QED
      BY <3>4, <3>5
  <2>2. PICK m \in {r \in Rows : ~used[r]} : \A k \in {r \in Rows : ~used[r]} : ~(k < m)
    <3>1. {r \in Rows : ~used[r]} \subseteq Nat
      BY ThreadFacts
    <3>. QED
      BY <2>1, <3>1, Least
  <2>3. \E r \in Rows : ~used[r] /\ \A s \in Rows : s < r => used[s]
    BY <2>2
  <2>. QED
    BY <2>3 DEF FirstUnused
<1>5. Types'
  <2>1. TypeOK'
    <3>1. row' \in [Threads -> Rows \cup {MaxUsers + 1}]
      BY <1>1, <1>4 DEF IndInv, Types, TypeOK
    <3>. QED
      BY <1>1, <3>1 DEF IndInv, Types, TypeOK
  <2>2. pc' \in [Threads -> WorkerLabels \cup SlowLabels]
    BY <1>1 DEF IndInv, Types, WorkerLabels, Adding, Finding
  <2>3. pc'["worker"] \in WorkerLabels /\ pc'["slow"] \in SlowLabels
    BY <1>2, ThreadFacts DEF IndInv, Types, WorkerLabels, SlowLabels, Adding, Finding
  <2>. QED
    BY <1>1, <2>1, <2>2, <2>3 DEF IndInv, Types
<1>6. WorkerStage' /\ SlowStage'
  BY <1>1, <1>2, <1>4, ThreadFacts DEF IndInv, WorkerStage, SlowStage, Searching, Removing, Adding, Finding
<1>7. /\ \A s \in Threads : pc'[s] \in Adding => pc[s] \in Adding /\ new_user'[s] = new_user[s]
      /\ \A s \in Threads : pc[s] \in Adding => pc'[s] \in Adding /\ new_user'[s] = new_user[s]
      /\ \A s \in Threads : pc'[s] \in Placing \/ pc[s] \in Placing => pc'[s] = pc[s] /\ row'[s] = row[s]
      /\ pc'["worker"] \notin Adding \/ pc["worker"] \notin Adding =>
            pc'["worker"] = pc["worker"] /\ row'["worker"] = row["worker"]
  BY <1>1, <1>2, ThreadFacts DEF Placing, Adding, Finding
<1>8. Created'
  BY <1>1, <1>7, CreatedKept DEF IndInv, Adding, Finding
<1>9. Placed'
  <2>1. \A s \in Threads : pc'[s] \in Finding => place[new_user'[s]] = 0
    BY <1>1, <1>2, <1>3 DEF PlacedBy, Finding
  <2>2. \A s \in Threads : pc'[s] \in {"test row", "mark row"} =>
           \A r \in Rows : r < row'[s] => \E u \in Users : place[u] = r
    <3>. SUFFICES ASSUME NEW s \in Threads, pc'[s] \in {"test row", "mark row"},
                         NEW r \in Rows, r < row'[s]
                  PROVE  \E u \in Users : place[u] = r
      OBVIOUS
    <3>1. CASE s = t
      <4>1. r < FirstUnused
        BY <1>2, <3>1
      <4>2. used[r]
        BY <1>4, <4>1
      <4>. QED
        BY <1>3, <4>2 DEF PlacedBy
    <3>2. CASE s # t
      BY <1>2, <1>3, <3>2 DEF PlacedBy
    <3>. QED
      BY <3>1, <3>2
  <2>. QED
    BY <1>1, <1>3, <2>1, <2>2 DEF Placed, PlacedBy
<1>10. NullRows'
  BY <1>1, <1>7, NullRowsKept DEF IndInv, Placing, Adding, Finding
<1>11. Twins'
  BY <1>1, <1>7, ThreadFacts, TwinsKept DEF IndInv, WorkerStage, Placing, Searching, Adding, Finding, Removing
<1>12. Logins'
  BY <1>1, <1>7, LoginsKept DEF IndInv, Adding, Finding
<1>13. Removal'
  BY <1>1, <1>7, RemovalKept DEF IndInv, Removing, Adding, Finding
<1>14. Apart'
  BY <1>1, <1>7, ApartKept DEF IndInv, Removing, Adding, Finding
<1>15. Found'
  BY <1>1, <1>7, FoundKept DEF IndInv
<1>16. Faults'
  BY <1>1, FaultsKept
<1>. QED
  BY <1>5, <1>6, <1>8, <1>9, <1>10, <1>11, <1>12, <1>13, <1>14, <1>15, <1>16 DEF IndInv

(* A step of the worker that reads: it changes where the worker is, the    *)
(* command and what the worker has still to see, and nothing of the users. *)
LEMMA WorkerLooks ==
    ASSUME IndInv,
           NEW label \in WorkerLabels, label \notin Adding \cup {"clear row", "clear row again"},
           NEW r \in Rows \cup {MaxUsers + 1},
           pc["worker"] \notin Adding \cup {"clear row", "clear row again"},
           pc' = [pc EXCEPT !["worker"] = label], row' = [row EXCEPT !["worker"] = r],
           command' \in [client : Clients \cup {Null}, name : Names \cup {Null},
                         id : Ids \cup {Null}, user : Users \cup {Null}],
           unseen' \subseteq Clients, fault' \in BOOLEAN,
           slow_tasks' \in Seq([client : Clients, name : Names]),
           UNCHANGED <<connection, logged_in_user, by, heap, userid, username, remote,
                       used, item, collided, task, new_user>>
    PROVE  /\ pc'["worker"] = label /\ row'["worker"] = r
           /\ pc'["slow"] = pc["slow"] /\ row'["slow"] = row["slow"]
           /\ Types' /\ SlowStage' /\ Created' /\ Placed' /\ NullRows' /\ Found'
           /\ label \notin Searching => Twins'
           /\ label \notin {"login", "compare password"} => Logins'
           /\ label \notin {"look for login", "remove"} \cup Removing => Removal'
           /\ label \notin Removing => Apart'
           /\ ~fault' => Faults'
<1>1. /\ pc'["worker"] = label /\ row'["worker"] = r
      /\ pc'["slow"] = pc["slow"] /\ row'["slow"] = row["slow"]
  <2>1. DOMAIN pc = Threads /\ DOMAIN row = Threads
    BY DEF IndInv, Types, TypeOK
  <2>2. "worker" \in Threads /\ "slow" \in Threads /\ "worker" # "slow"
    BY ThreadFacts
  <2>. QED
    BY <2>1, <2>2
<1>2. /\ \A s \in Threads : pc'[s] \in Adding => pc[s] \in Adding /\ new_user'[s] = new_user[s]
      /\ \A s \in Threads : pc[s] \in Adding => pc'[s] \in Adding /\ new_user'[s] = new_user[s]
      /\ \A s \in Threads : pc'[s] \in Adding \/ pc[s] \in Adding => pc'[s] = pc[s] /\ row'[s] = row[s]
  BY <1>1, ThreadFacts
<1>3. Types'
  <2>1. TypeOK'
    <3>1. row' \in [Threads -> Rows \cup {MaxUsers + 1}]
      BY DEF IndInv, Types, TypeOK
    <3>. QED
      BY <3>1 DEF IndInv, Types, TypeOK
  <2>2. pc' \in [Threads -> WorkerLabels \cup SlowLabels]
    BY DEF IndInv, Types
  <2>3. pc'["worker"] \in WorkerLabels /\ pc'["slow"] \in SlowLabels
    BY <1>1 DEF IndInv, Types
  <2>. QED
    BY <2>1, <2>2, <2>3 DEF IndInv, Types
<1>4. SlowStage'
  BY <1>1 DEF IndInv, SlowStage
<1>5. Created'
  BY <1>2, CreatedKept DEF IndInv
<1>6. Placed'
  BY <1>2, PlacedKept DEF IndInv, Adding
<1>7. NullRows'
  BY <1>2, NullRowsKept DEF IndInv, Adding
<1>8. Found'
  BY <1>2, FoundKept DEF IndInv
<1>9. ASSUME label \notin Searching PROVE Twins'
  BY <1>1, <1>9, TwinsKept DEF IndInv, Adding
<1>10. ASSUME label \notin {"login", "compare password"} PROVE Logins'
  BY <1>1, <1>2, <1>10, LoginsKept DEF IndInv
<1>11. ASSUME label \notin {"look for login", "remove"} \cup Removing PROVE Removal'
  BY <1>1, <1>11, RemovalKept DEF IndInv
<1>12. ASSUME label \notin Removing PROVE Apart'
  <2>1. \A s \in Threads : pc'[s] \in Placing => pc'[s] = pc[s] /\ row'[s] = row[s]
    BY <1>2 DEF Placing, Adding, Finding
  <2>. QED
    BY <1>1, <1>12, <2>1, ApartKept DEF IndInv
<1>13. ASSUME ~fault' PROVE Faults'
  BY <1>13, FaultsKept
<1>. QED
  BY <1>1, <1>3, <1>4, <1>5, <1>6, <1>7, <1>8, <1>9, <1>10, <1>11, <1>12, <1>13

(* The same of a step that does not go to another row. *)
LEMMA WorkerGoes ==
    ASSUME IndInv, ~fault,
           NEW label \in WorkerLabels, label \notin Adding \cup {"clear row", "clear row again"},
           pc["worker"] \notin Adding \cup {"clear row", "clear row again"},
           pc' = [pc EXCEPT !["worker"] = label],
           command' \in [client : Clients \cup {Null}, name : Names \cup {Null},
                         id : Ids \cup {Null}, user : Users \cup {Null}],
           unseen' \subseteq Clients,
           slow_tasks' \in Seq([client : Clients, name : Names]),
           UNCHANGED <<connection, logged_in_user, by, heap, userid, username, remote,
                       used, item, collided, task, new_user, row, fault>>
    PROVE  /\ pc'["worker"] = label /\ row'["worker"] = row["worker"]
           /\ pc'["slow"] = pc["slow"]
           /\ Types' /\ SlowStage' /\ Created' /\ Placed' /\ NullRows' /\ Found' /\ Faults'
           /\ label \notin Searching => Twins'
           /\ label \notin {"login", "compare password"} => Logins'
           /\ label \notin {"look for login", "remove"} \cup Removing => Removal'
           /\ label \notin Removing => Apart'
<1>1. row \in [Threads -> Rows \cup {MaxUsers + 1}] /\ fault \in BOOLEAN
  BY DEF IndInv, Types, TypeOK
<1>2. /\ row' = [row EXCEPT !["worker"] = row["worker"]]
      /\ row["worker"] \in Rows \cup {MaxUsers + 1}
  BY <1>1, ThreadFacts
<1>. QED
  BY <1>1, <1>2, WorkerLooks

LEMMA CommandTypes ==
    /\ NoCommand \in [client : Clients \cup {Null}, name : Names \cup {Null},
                      id : Ids \cup {Null}, user : Users \cup {Null}]
    /\ \A c \in Clients \cup {Null}, name \in Names \cup {Null}, id \in Ids \cup {Null} :
          [client |-> c, name |-> name, id |-> id, user |-> Null] \in
             [client : Clients \cup {Null}, name : Names \cup {Null},
              id : Ids \cup {Null}, user : Users \cup {Null}]
    /\ NoTask \in [client : Clients \cup {Null}, name : Names \cup {Null}]
BY DEF NoCommand, NoTask

LEMMA CommandIs ==
    IndInv =>
    /\ command \in [client : Clients \cup {Null}, name : Names \cup {Null},
                    id : Ids \cup {Null}, user : Users \cup {Null}]
    /\ task \in [client : Clients \cup {Null}, name : Names \cup {Null}]
    /\ unseen \subseteq Clients
    /\ slow_tasks \in Seq([client : Clients, name : Names])
    /\ fault \in BOOLEAN
BY DEF IndInv, Types, TypeOK

(* Each command begins with the worker idle.                               *)
LEMMA BeginLoginStep ==
    ASSUME IndInv, ~fault, NEW c \in Clients, NEW name \in Names, BeginLogin(c, name)
    PROVE  IndInv'
<1>. USE DEF At, Goto, user_vars, list_vars, login_vars, slow_vars
<1>1. /\ pc["worker"] = "idle" /\ pc' = [pc EXCEPT !["worker"] = "login"]
      /\ command' = [client |-> c, name |-> name, id |-> Null, user |-> Null]
      /\ connection[c] = "open"
      /\ UNCHANGED <<connection, logged_in_user, by, heap, userid, username, remote, used, item, collided,
                     slow_tasks, task, row, new_user, unseen, fault>>
  BY DEF BeginLogin, Open
<1>2. /\ pc'["worker"] = "login" /\ row'["worker"] = row["worker"] /\ pc'["slow"] = pc["slow"]
      /\ Types' /\ SlowStage' /\ Created' /\ Placed' /\ NullRows' /\ Found' /\ Faults'
      /\ Twins' /\ Removal' /\ Apart'
  <2>1. /\ "login" \in WorkerLabels /\ "login" \notin Adding \cup {"clear row", "clear row again"}
        /\ pc["worker"] \notin Adding \cup {"clear row", "clear row again"}
    BY <1>1 DEF WorkerLabels, Searching, Removing, Adding, Finding
  <2>2. /\ command' \in [client : Clients \cup {Null}, name : Names \cup {Null},
                      id : Ids \cup {Null}, user : Users \cup {Null}]
        /\ unseen' \subseteq Clients /\ slow_tasks' \in Seq([client : Clients, name : Names])
    BY <1>1, CommandTypes, CommandIs
  <2>3. "login" \notin Searching \cup {"look for login", "remove"} \cup Removing
    BY DEF Searching, Removing
  <2>. QED
    BY <1>1, <2>1, <2>2, <2>3, WorkerGoes
<1>3. WorkerStage'
  BY <1>1, <1>2 DEF WorkerStage, Searching, Removing, Adding, Finding
<1>4. Logins'
  <2>1. \A t \in Threads : pc'[t] \in Adding => pc[t] \in Adding
    BY <1>1, <1>2, ThreadFacts DEF Adding, Finding
  <2>2. connection'[command'.client] = "open" /\ pc'["worker"] # "compare password"
    BY <1>1, <1>2
  <2>. QED
    BY <1>1, <2>1, <2>2 DEF IndInv, Logins, Trusted
<1>. QED
  BY <1>2, <1>3, <1>4 DEF IndInv

LEMMA BeginAddUserStep ==
    ASSUME IndInv, ~fault, NEW id \in Ids, NEW name \in Names, BeginAddUser(id, name)
    PROVE  IndInv'
<1>. USE DEF At, Goto, user_vars, list_vars, login_vars, slow_vars
<1>1. /\ pc["worker"] = "idle" /\ pc' = [pc EXCEPT !["worker"] = "find id"]
      /\ command' = [client |-> Null, name |-> name, id |-> id, user |-> Null]
      /\ UNCHANGED <<connection, logged_in_user, by, heap, userid, username, remote, used, item, collided,
                     slow_tasks, task, row, new_user, unseen, fault>>
  BY DEF BeginAddUser
<1>2. /\ pc'["worker"] = "find id" /\ row'["worker"] = row["worker"] /\ pc'["slow"] = pc["slow"]
      /\ Types' /\ SlowStage' /\ Created' /\ Placed' /\ NullRows' /\ Found' /\ Faults'
      /\ Logins' /\ Removal' /\ Apart'
  <2>1. /\ "find id" \in WorkerLabels /\ "find id" \notin Adding \cup {"clear row", "clear row again"}
        /\ pc["worker"] \notin Adding \cup {"clear row", "clear row again"}
    BY <1>1 DEF WorkerLabels, Searching, Removing, Adding, Finding
  <2>2. /\ command' \in [client : Clients \cup {Null}, name : Names \cup {Null},
                      id : Ids \cup {Null}, user : Users \cup {Null}]
        /\ unseen' \subseteq Clients /\ slow_tasks' \in Seq([client : Clients, name : Names])
    BY <1>1, CommandTypes, CommandIs
  <2>3. "find id" \notin {"login", "compare password"} \cup {"look for login", "remove"} \cup Removing
    BY DEF Searching, Removing
  <2>. QED
    BY <1>1, <2>1, <2>2, <2>3, WorkerGoes
<1>3. WorkerStage'
  BY <1>1, <1>2 DEF WorkerStage, Searching, Removing, Adding, Finding
<1>4. \A r \in Rows : ~(r < row'["worker"])
  <2>1. row'["worker"] = 1
    BY <1>1, <1>2 DEF IndInv, WorkerStage
  <2>. QED
    BY <2>1, ThreadFacts
<1>5. Twins'
  BY <1>1, <1>2, <1>4 DEF IndInv, Twins, Own, Adding, Finding
<1>. QED
  BY <1>2, <1>3, <1>5 DEF IndInv

LEMMA BeginRemoveUserStep ==
    ASSUME IndInv, ~fault, NEW id \in Ids, BeginRemoveUser(id)
    PROVE  IndInv'
<1>. USE DEF At, Goto, user_vars, list_vars, login_vars, slow_vars
<1>1. /\ pc["worker"] = "idle" /\ pc' = [pc EXCEPT !["worker"] = "look for login"]
      /\ command' = [client |-> Null, name |-> Null, id |-> id, user |-> Null]
      /\ unseen' = {c \in Clients : connection[c] = "open"}
      /\ UNCHANGED <<connection, logged_in_user, by, heap, userid, username, remote, used, item, collided,
                     slow_tasks, task, row, new_user, fault>>
  BY DEF BeginRemoveUser, Open
<1>2. /\ pc'["worker"] = "look for login" /\ row'["worker"] = row["worker"] /\ pc'["slow"] = pc["slow"]
      /\ Types' /\ SlowStage' /\ Created' /\ Placed' /\ NullRows' /\ Found' /\ Faults'
      /\ Logins' /\ Twins' /\ Apart'
  <2>1. /\ "look for login" \in WorkerLabels /\ "look for login" \notin Adding \cup {"clear row", "clear row again"}
        /\ pc["worker"] \notin Adding \cup {"clear row", "clear row again"}
    BY <1>1 DEF WorkerLabels, Searching, Removing, Adding, Finding
  <2>2. /\ command' \in [client : Clients \cup {Null}, name : Names \cup {Null},
                      id : Ids \cup {Null}, user : Users \cup {Null}]
        /\ unseen' \subseteq Clients /\ slow_tasks' \in Seq([client : Clients, name : Names])
    BY <1>1, CommandTypes, CommandIs
  <2>3. "look for login" \notin {"login", "compare password"} \cup Searching \cup Removing
    BY DEF Searching, Removing
  <2>. QED
    BY <1>1, <2>1, <2>2, <2>3, WorkerGoes
<1>3. WorkerStage'
  BY <1>1, <1>2 DEF IndInv, WorkerStage, Searching, Removing, Adding, Finding
<1>4. Removal'
  BY <1>1, <1>2 DEF IndInv, Logins, Removal, Trusted, Removing
<1>. QED
  BY <1>2, <1>3, <1>4 DEF IndInv

LEMMA BeginGetUsersStep ==
    ASSUME IndInv, ~fault, BeginGetUsers
    PROVE  IndInv'
<1>. USE DEF At, Goto, user_vars, list_vars, login_vars, slow_vars
<1>1. /\ pc["worker"] = "idle" /\ pc' = [pc EXCEPT !["worker"] = "get users"]
      /\ UNCHANGED <<connection, logged_in_user, by, heap, userid, username, remote, used, item, collided,
                     slow_tasks, task, command, row, new_user, unseen, fault>>
  BY DEF BeginGetUsers
<1>2. /\ pc'["worker"] = "get users" /\ row'["worker"] = row["worker"] /\ pc'["slow"] = pc["slow"]
      /\ Types' /\ SlowStage' /\ Created' /\ Placed' /\ NullRows' /\ Found' /\ Faults'
      /\ Logins' /\ Twins' /\ Removal' /\ Apart'
  <2>1. /\ "get users" \in WorkerLabels /\ "get users" \notin Adding \cup {"clear row", "clear row again"}
        /\ pc["worker"] \notin Adding \cup {"clear row", "clear row again"}
    BY <1>1 DEF WorkerLabels, Searching, Removing, Adding, Finding
  <2>2. /\ command' \in [client : Clients \cup {Null}, name : Names \cup {Null},
                      id : Ids \cup {Null}, user : Users \cup {Null}]
        /\ unseen' \subseteq Clients /\ slow_tasks' \in Seq([client : Clients, name : Names])
    BY <1>1, CommandIs
  <2>3. "get users" \notin {"login", "compare password", "look for login", "remove"} \cup Searching \cup Removing
    BY DEF Searching, Removing
  <2>. QED
    BY <1>1, <2>1, <2>2, <2>3, WorkerGoes
<1>3. WorkerStage'
  BY <1>1, <1>2 DEF WorkerStage, Searching, Removing, Adding, Finding
<1>. QED
  BY <1>2, <1>3 DEF IndInv

(* The steps of a command that look at no row.                             *)
LEMMA AnswerStep ==
    ASSUME IndInv, ~fault, Answer
    PROVE  IndInv'
<1>. USE DEF At, Goto, user_vars, list_vars, login_vars, slow_vars
<1>1. /\ pc["worker"] = "answer" /\ pc' = [pc EXCEPT !["worker"] = "idle"]
      /\ command' = NoCommand
      /\ UNCHANGED <<connection, logged_in_user, by, heap, userid, username, remote, used, item, collided,
                     slow_tasks, task, row, new_user, unseen, fault>>
  BY DEF Answer, Done
<1>2. /\ pc'["worker"] = "idle" /\ row'["worker"] = row["worker"] /\ pc'["slow"] = pc["slow"]
      /\ Types' /\ SlowStage' /\ Created' /\ Placed' /\ NullRows' /\ Found' /\ Faults'
      /\ Logins' /\ Twins' /\ Removal' /\ Apart'
  <2>1. /\ "idle" \in WorkerLabels /\ "idle" \notin Adding \cup {"clear row", "clear row again"}
        /\ pc["worker"] \notin Adding \cup {"clear row", "clear row again"}
    BY <1>1 DEF WorkerLabels, Searching, Removing, Adding, Finding
  <2>2. /\ command' \in [client : Clients \cup {Null}, name : Names \cup {Null},
                      id : Ids \cup {Null}, user : Users \cup {Null}]
        /\ unseen' \subseteq Clients /\ slow_tasks' \in Seq([client : Clients, name : Names])
    BY <1>1, CommandTypes, CommandIs
  <2>3. "idle" \notin {"login", "compare password"} \cup Searching \cup {"look for login", "remove"} \cup Removing
    BY DEF Searching, Removing
  <2>. QED
    BY <1>1, <2>1, <2>2, <2>3, WorkerGoes
<1>3. WorkerStage'
  BY <1>1, <1>2 DEF IndInv, WorkerStage, Searching, Removing, Adding, Finding
<1>. QED
  BY <1>2, <1>3 DEF IndInv

LEMMA QueueRemoteLoginStep ==
    ASSUME IndInv, ~fault, QueueRemoteLogin
    PROVE  IndInv'
<1>. USE DEF At, Goto, user_vars, list_vars, login_vars, slow_vars
<1>1. /\ pc["worker"] = "not found" /\ pc' = [pc EXCEPT !["worker"] = "idle"]
      /\ command' = NoCommand
      /\ slow_tasks' = Append(slow_tasks, [client |-> command.client, name |-> command.name])
      /\ UNCHANGED <<connection, logged_in_user, by, heap, userid, username, remote, used, item, collided,
                     task, row, new_user, unseen, fault>>
  BY DEF QueueRemoteLogin, Done
<1>2. /\ pc'["worker"] = "idle" /\ row'["worker"] = row["worker"] /\ pc'["slow"] = pc["slow"]
      /\ Types' /\ SlowStage' /\ Created' /\ Placed' /\ NullRows' /\ Found' /\ Faults'
      /\ Logins' /\ Twins' /\ Removal' /\ Apart'
  <2>1. /\ "idle" \in WorkerLabels /\ "idle" \notin Adding \cup {"clear row", "clear row again"}
        /\ pc["worker"] \notin Adding \cup {"clear row", "clear row again"}
    BY <1>1 DEF WorkerLabels, Searching, Removing, Adding, Finding
  <2>2. /\ command' \in [client : Clients \cup {Null}, name : Names \cup {Null},
                      id : Ids \cup {Null}, user : Users \cup {Null}]
        /\ unseen' \subseteq Clients /\ slow_tasks' \in Seq([client : Clients, name : Names])
    <3>1. [client |-> command.client, name |-> command.name] \in [client : Clients, name : Names]
      BY <1>1 DEF IndInv, WorkerStage
    <3>2. slow_tasks \in Seq([client : Clients, name : Names])
      BY CommandIs
    <3>3. slow_tasks' \in Seq([client : Clients, name : Names])
      BY <1>1, <3>1, <3>2, AppendProperties
    <3>. QED
      BY <1>1, <3>3, CommandTypes, CommandIs
  <2>3. "idle" \notin {"login", "compare password"} \cup Searching \cup {"look for login", "remove"} \cup Removing
    BY DEF Searching, Removing
  <2>. QED
    BY <1>1, <2>1, <2>2, <2>3, WorkerGoes
<1>3. WorkerStage'
  BY <1>1, <1>2 DEF IndInv, WorkerStage, Searching, Removing, Adding, Finding
<1>. QED
  BY <1>2, <1>3 DEF IndInv

LEMMA NobodyLoggedInStep ==
    ASSUME IndInv, ~fault, NobodyLoggedIn
    PROVE  IndInv'
<1>. USE DEF At, Goto, user_vars, list_vars, login_vars, slow_vars
<1>1. /\ pc["worker"] = "look for login" /\ pc' = [pc EXCEPT !["worker"] = "remove"]
      /\ unseen = {}
      /\ UNCHANGED <<connection, logged_in_user, by, heap, userid, username, remote, used, item, collided,
                     slow_tasks, task, command, row, new_user, unseen, fault>>
  BY DEF NobodyLoggedIn
<1>2. /\ pc'["worker"] = "remove" /\ row'["worker"] = row["worker"] /\ pc'["slow"] = pc["slow"]
      /\ Types' /\ SlowStage' /\ Created' /\ Placed' /\ NullRows' /\ Found' /\ Faults'
      /\ Logins' /\ Twins' /\ Apart'
  <2>1. /\ "remove" \in WorkerLabels /\ "remove" \notin Adding \cup {"clear row", "clear row again"}
        /\ pc["worker"] \notin Adding \cup {"clear row", "clear row again"}
    BY <1>1 DEF WorkerLabels, Searching, Removing, Adding, Finding
  <2>2. /\ command' \in [client : Clients \cup {Null}, name : Names \cup {Null},
                      id : Ids \cup {Null}, user : Users \cup {Null}]
        /\ unseen' \subseteq Clients /\ slow_tasks' \in Seq([client : Clients, name : Names])
    BY <1>1, CommandIs
  <2>3. "remove" \notin {"login", "compare password"} \cup Searching \cup Removing
    BY DEF Searching, Removing
  <2>. QED
    BY <1>1, <2>1, <2>2, <2>3, WorkerGoes
<1>3. WorkerStage'
  BY <1>1, <1>2 DEF IndInv, WorkerStage, Searching, Removing, Adding, Finding
<1>4. Removal'
  BY <1>1, <1>2 DEF IndInv, Removal, Trusted, Removing
<1>. QED
  BY <1>2, <1>3, <1>4 DEF IndInv

LEMMA TestUserStep ==
    ASSUME IndInv, ~fault, TestUser
    PROVE  IndInv'
<1>. USE DEF At, Goto, user_vars, list_vars, login_vars, slow_vars
<1>1. /\ pc["worker"] = "first user" /\ pc' = [pc EXCEPT !["worker"] = "delete user"]
      /\ userid[command.user] = command.id
      /\ UNCHANGED <<connection, logged_in_user, by, heap, userid, username, remote, used, item, collided,
                     slow_tasks, task, command, row, new_user, unseen, fault>>
  BY DEF TestUser, HasId
<1>2. /\ pc'["worker"] = "delete user" /\ row'["worker"] = row["worker"] /\ pc'["slow"] = pc["slow"]
      /\ Types' /\ SlowStage' /\ Created' /\ Placed' /\ NullRows' /\ Found' /\ Faults'
      /\ Logins' /\ Twins'
  <2>1. /\ "delete user" \in WorkerLabels /\ "delete user" \notin Adding \cup {"clear row", "clear row again"}
        /\ pc["worker"] \notin Adding \cup {"clear row", "clear row again"}
    BY <1>1 DEF WorkerLabels, Searching, Removing, Adding, Finding
  <2>2. /\ command' \in [client : Clients \cup {Null}, name : Names \cup {Null},
                      id : Ids \cup {Null}, user : Users \cup {Null}]
        /\ unseen' \subseteq Clients /\ slow_tasks' \in Seq([client : Clients, name : Names])
    BY <1>1, CommandIs
  <2>3. "delete user" \notin {"login", "compare password"} \cup Searching \cup {"look for login", "remove"}
    BY DEF Searching, Removing
  <2>. QED
    BY <1>1, <2>1, <2>2, <2>3, WorkerGoes
<1>3. WorkerStage'
  BY <1>1, <1>2 DEF IndInv, WorkerStage, Searching, Removing, Adding, Finding
<1>4. Removal'
  BY <1>1, <1>2 DEF IndInv, Removal, Trusted, Removing
<1>5. Apart'
  <2>1. \A t \in Threads : pc'[t] \in Placing => pc'[t] = pc[t]
    BY <1>1, <1>2, ThreadFacts DEF Placing
  <2>. QED
    BY <1>1, <1>2, <2>1, ThreadFacts DEF IndInv, Apart, Removing, Placing
<1>. QED
  BY <1>2, <1>3, <1>4, <1>5 DEF IndInv

(* Either somebody is logged in as the user, or c is not.                  *)
LEMMA LookForLoginStep ==
    ASSUME IndInv, ~fault, NEW c \in Clients, LookForLogin(c)
    PROVE  IndInv'
<1>. USE DEF At, Goto, user_vars, list_vars, login_vars, slow_vars
<1>1. PICK found \in BOOLEAN :
          /\ logged_in_user[c] \in heap => (found <=> userid[logged_in_user[c]] = command.id)
          /\ IF found
             THEN pc' = [pc EXCEPT !["worker"] = "answer"] /\ unseen' = {}
             ELSE unseen' = unseen \ {c} /\ pc' = pc
  <2>1. PICK found \in BOOLEAN :
            /\ logged_in_user[c] \in heap \cup {Null} =>
                  (found <=> logged_in_user[c] # Null /\ HasId(logged_in_user[c]))
            /\ IF found
               THEN pc' = [pc EXCEPT !["worker"] = "answer"] /\ unseen' = {}
               ELSE unseen' = unseen \ {c} /\ pc' = pc
    BY DEF LookForLogin
  <2>2. Null \notin heap
    BY ThreadFacts DEF IndInv, Types, TypeOK
  <2>. QED
    BY <2>1, <2>2 DEF HasId
<1>2. /\ pc["worker"] = "look for login"
      /\ UNCHANGED <<connection, logged_in_user, by, heap, userid, username, remote, used, item, collided,
                     slow_tasks, task, command, row, new_user, fault>>
  BY DEF LookForLogin
<1>. DEFINE label == IF found THEN "answer" ELSE "look for login"
<1>3. pc' = [pc EXCEPT !["worker"] = label]
  BY <1>1, <1>2 DEF IndInv, Types
<1>4. /\ pc'["worker"] = label /\ row'["worker"] = row["worker"] /\ pc'["slow"] = pc["slow"]
      /\ Types' /\ SlowStage' /\ Created' /\ Placed' /\ NullRows' /\ Found' /\ Faults'
      /\ Logins' /\ Twins' /\ Apart' /\ (found => Removal')
  <2>1. /\ label \in WorkerLabels /\ label \notin Adding \cup {"clear row", "clear row again"}
        /\ pc["worker"] \notin Adding \cup {"clear row", "clear row again"}
    BY <1>2 DEF WorkerLabels, Searching, Removing, Adding, Finding
  <2>2. /\ command' \in [client : Clients \cup {Null}, name : Names \cup {Null},
                         id : Ids \cup {Null}, user : Users \cup {Null}]
        /\ unseen' \subseteq Clients /\ slow_tasks' \in Seq([client : Clients, name : Names])
    BY <1>1, <1>2, CommandIs
  <2>3. /\ label \notin {"login", "compare password"} \cup Searching \cup Removing
        /\ found => label \notin {"look for login", "remove"} \cup Removing
    BY DEF Searching, Removing
  <2>. HIDE DEF label
  <2>. QED
    BY <1>2, <1>3, <2>1, <2>2, <2>3, WorkerGoes
<1>5. WorkerStage'
  BY <1>2, <1>4 DEF IndInv, WorkerStage, Searching, Removing, Adding, Finding
<1>6. ASSUME ~found PROVE Removal'
  <2>1. pc' = pc /\ unseen' = unseen \ {c}
    BY <1>1, <1>6
  <2>2. Trusted(c) => userid[logged_in_user[c]] # command.id
    BY <1>1, <1>6 DEF IndInv, Logins
  <2>. QED
    BY <1>2, <2>1, <2>2 DEF IndInv, Removal, Trusted, Removing
<1>. QED
  BY <1>4, <1>5, <1>6 DEF IndInv

-----------------------------------------------------------------------------
(* The loops over the users.  What follows of any of them: it ends, meets  *)
(* a null pointer, finds a user of the list or goes to the next row.       *)
Ends(end) ==
    /\ pc'["worker"] = end /\ row'["worker"] = 1 /\ command' = command /\ ~fault'
    /\ \A r \in Rows : r < row["worker"]
MeetsNull(label) ==
    /\ pc'["worker"] = label /\ row'["worker"] = row["worker"] /\ command' = command
    /\ row["worker"] \in Rows /\ used[row["worker"]] /\ item[row["worker"]] = Null
Finds(found, stop) ==
    /\ pc'["worker"] = found /\ row'["worker"] = stop /\ ~fault'
    /\ row["worker"] \in Rows /\ used[row["worker"]]
    /\ command' = [command EXCEPT !.user = item[row["worker"]]]
    /\ item[row["worker"]] \in Users /\ item[row["worker"]] \in heap
    /\ \A t \in Threads : pc[t] \in Adding => item[row["worker"]] # new_user[t]
PassesOver(label) ==
    /\ pc'["worker"] = label /\ row["worker"] \in Rows /\ row'["worker"] = row["worker"] + 1
    /\ command' = command /\ ~fault'

(* The same in the words of Visit. *)
Moves(label, found, stop, end) ==
    \/ row["worker"] > MaxUsers /\ StopAt(end, 1) /\ UNCHANGED <<command, fault>>
    \/ /\ ~(row["worker"] > MaxUsers) /\ used[row["worker"]] /\ Here = Null
       /\ fault' = TRUE /\ UNCHANGED <<pc, row, command>>
    \/ /\ ~(row["worker"] > MaxUsers) /\ used[row["worker"]] /\ Here # Null
       /\ StopAt(found, stop) /\ command' = [command EXCEPT !.user = Here] /\ UNCHANGED fault
    \/ /\ ~(row["worker"] > MaxUsers) /\ ~(used[row["worker"]] /\ Here = Null)
       /\ StopAt(label, row["worker"] + 1) /\ UNCHANGED <<command, fault>>

LEMMA RowRange ==
    ASSUME NEW M \in Nat, M >= 1, NEW n \in 1 .. M \cup {M + 1}
    PROVE  /\ n \in Nat /\ (n > M \/ n \in 1 .. M)
           /\ n \in 1 .. M => n + 1 \in 1 .. M \cup {M + 1} /\ ~(n > M)
OBVIOUS

LEMMA Below == \A a, b, c \in Nat : a <= b /\ c > b => a < c
OBVIOUS

LEMMA Visited ==
    ASSUME IndInv, ~fault, NEW label, NEW found, NEW stop, NEW end,
           pc["worker"] = label, Moves(label, found, stop, end),
           UNCHANGED <<connection, logged_in_user, by, heap, userid, username, remote,
                       used, item, collided, slow_tasks, task, new_user, unseen>>,
           label \in WorkerLabels, label \notin Adding \cup {"clear row", "clear row again"},
           found \in WorkerLabels, found \notin Adding \cup {"clear row", "clear row again"},
           end \in WorkerLabels, end \notin Adding \cup {"clear row", "clear row again"},
           stop \in Rows \cup {MaxUsers + 1}
    PROVE  /\ pc'["slow"] = pc["slow"] /\ row'["slow"] = row["slow"]
           /\ Ends(end) \/ MeetsNull(label) \/ Finds(found, stop) \/ PassesOver(label)
           /\ Types' /\ SlowStage' /\ Created' /\ Placed' /\ NullRows' /\ Found' /\ Faults'
           /\ label \notin Searching /\ found \notin Searching /\ end \notin Searching => Twins'
           /\ label \notin {"login", "compare password"} /\ found \notin {"login", "compare password"} /\ end \notin {"login", "compare password"} => Logins'
           /\ label \notin ({"look for login", "remove"} \cup Removing) /\ found \notin ({"look for login", "remove"} \cup Removing) /\ end \notin ({"look for login", "remove"} \cup Removing) => Removal'
           /\ label \notin Removing /\ found \notin Removing /\ end \notin Removing => Apart'
<1>. DEFINE r == row["worker"]
<1>2. /\ r \in Rows \cup {MaxUsers + 1} /\ r \in Nat /\ MaxUsers \in Nat
      /\ r > MaxUsers \/ r \in Rows
      /\ r \in Rows => r + 1 \in Rows \cup {MaxUsers + 1} /\ ~(r > MaxUsers)
      /\ 1 \in Rows
  <2>1. r \in Rows \cup {MaxUsers + 1} /\ MaxUsers \in Nat /\ 1 \in Rows
    BY ThreadFacts DEF IndInv, Types, TypeOK
  <2>2. MaxUsers >= 1
    BY <2>1, ThreadFacts
  <2>. QED
    BY <2>1, <2>2, RowRange DEF Rows
<1>3. /\ fault \in BOOLEAN
      /\ command \in [client : Clients \cup {Null}, name : Names \cup {Null},
                      id : Ids \cup {Null}, user : Users \cup {Null}]
      /\ unseen' \subseteq Clients /\ slow_tasks' \in Seq([client : Clients, name : Names])
  BY CommandIs
<1>4. /\ pc["worker"] \notin Adding \cup {"clear row", "clear row again"}
      /\ pc = [pc EXCEPT !["worker"] = label] /\ row = [row EXCEPT !["worker"] = r]
  BY DEF IndInv, Types, TypeOK
<1>. HIDE DEF r
<1>5. CASE r > MaxUsers /\ StopAt(end, 1) /\ UNCHANGED <<command, fault>>
  <2>1. /\ pc' = [pc EXCEPT !["worker"] = end] /\ row' = [row EXCEPT !["worker"] = 1]
        /\ command' = command /\ ~fault' /\ fault' \in BOOLEAN
    BY <1>3, <1>5 DEF StopAt, Goto
  <2>2. 1 \in Rows \cup {MaxUsers + 1}
    BY <1>2
  <2>3. Ends(end)
    <3>1. pc'["worker"] = end /\ row'["worker"] = 1
      BY <1>3, <1>4, <2>1, <2>2, WorkerLooks
    <3>2. \A q \in Rows : q < r
      <4>1. SUFFICES ASSUME NEW q \in Rows PROVE q < r
        OBVIOUS
      <4>2. q \in Nat /\ q <= MaxUsers /\ r \in Nat /\ MaxUsers \in Nat /\ r > MaxUsers
        BY <1>2, <1>5, ThreadFacts
      <4>. QED
        BY <4>2, Below
    <3>. QED
      BY <2>1, <3>1, <3>2 DEF Ends, r
  <2>. QED
    BY <1>3, <1>4, <2>1, <2>2, <2>3, WorkerLooks
<1>6. CASE /\ ~(r > MaxUsers) /\ used[r] /\ Here = Null
           /\ fault' = TRUE /\ UNCHANGED <<pc, row, command>>
  <2>1. r \in Rows /\ item[r] = Null /\ pc' = pc /\ row' = row /\ command' = command /\ fault' = TRUE
    BY <1>2, <1>6 DEF Here, r
  <2>2. MeetsNull(label)
    BY <1>6, <2>1 DEF MeetsNull, r
  <2>3. Faults'
    <3>1. \/ \E t \in Threads : pc[t] = "fill row" /\ row[t] = r
          \/ pc["worker"] = "clear row again" /\ row["worker"] = r
      BY <1>6, <2>1 DEF IndInv, NullRows
    <3>2. pc["worker"] # "fill row" /\ pc["worker"] # "clear row again"
      BY <1>4 DEF Adding
    <3>3. pc["slow"] = "fill row" /\ row["slow"] = r
      BY <3>1, <3>2, ThreadFacts
    <3>. QED
      BY <2>1, <3>3 DEF Faults, r
  <2>. QED
    BY <1>2, <1>3, <1>4, <2>1, <2>2, <2>3, WorkerLooks
<1>7. CASE /\ ~(r > MaxUsers) /\ used[r] /\ Here # Null /\ StopAt(found, stop)
           /\ command' = [command EXCEPT !.user = Here] /\ UNCHANGED fault
  <2>1. /\ pc' = [pc EXCEPT !["worker"] = found] /\ row' = [row EXCEPT !["worker"] = stop]
        /\ command' = [command EXCEPT !.user = item[r]] /\ ~fault' /\ fault' \in BOOLEAN
        /\ r \in Rows /\ item[r] # Null
    BY <1>2, <1>3, <1>7 DEF Here, StopAt, Goto, r
  <2>2. /\ item[r] \in Users /\ item[r] \in heap
        /\ \A t \in Threads : pc[t] \in Adding => item[r] # new_user[t]
    BY <1>4, <2>1 DEF IndInv, Types, TypeOK, Created
  <2>3. command' \in [client : Clients \cup {Null}, name : Names \cup {Null},
                      id : Ids \cup {Null}, user : Users \cup {Null}]
    BY <1>3, <2>1, <2>2
  <2>4. Finds(found, stop)
    <3>1. pc'["worker"] = found /\ row'["worker"] = stop
      BY <1>3, <1>4, <2>1, <2>3, WorkerLooks
    <3>. QED
      BY <1>7, <2>1, <2>2, <3>1 DEF Finds, r
  <2>. QED
    BY <1>3, <1>4, <2>1, <2>3, <2>4, WorkerLooks
<1>8. CASE /\ ~(r > MaxUsers) /\ StopAt(label, r + 1) /\ UNCHANGED <<command, fault>>
  <2>1. /\ pc' = [pc EXCEPT !["worker"] = label] /\ row' = [row EXCEPT !["worker"] = r + 1]
        /\ command' = command /\ ~fault' /\ fault' \in BOOLEAN /\ r \in Rows
    BY <1>2, <1>3, <1>8 DEF StopAt, Goto
  <2>2. r + 1 \in Rows \cup {MaxUsers + 1}
    BY <1>2, <2>1
  <2>3. PassesOver(label)
    <3>1. pc'["worker"] = label /\ row'["worker"] = r + 1
      BY <1>3, <1>4, <2>1, <2>2, WorkerLooks
    <3>. QED
      BY <2>1, <3>1 DEF PassesOver, r
  <2>. QED
    BY <1>3, <1>4, <2>1, <2>2, <2>3, WorkerLooks
<1>. QED
  BY <1>5, <1>6, <1>7, <1>8 DEF Moves, r

LEMMA GetUsersStep ==
    ASSUME IndInv, ~fault, GetUsers
    PROVE  IndInv'
<1>1. /\ pc["worker"] = "get users" /\ pc'["slow"] = pc["slow"] /\ row'["slow"] = row["slow"]
      /\ UNCHANGED <<connection, logged_in_user, by, heap, userid, username, remote,
                     used, item, collided, slow_tasks, task, new_user, unseen>>
      /\ \/ Ends("idle") \/ MeetsNull("get users") \/ Finds("idle", 1)
         \/ PassesOver("get users")
      /\ Types' /\ SlowStage' /\ Created' /\ Placed' /\ NullRows' /\ Found' /\ Faults'
      /\ Twins' /\ Logins' /\ Removal' /\ Apart'
  <2>. DEFINE stop == 1
  <2>1. \A l \in {"get users", "idle"} :
           l \in WorkerLabels /\ l \notin Adding \cup {"clear row", "clear row again"}
    BY DEF WorkerLabels, Searching, Removing, Adding, Finding
  <2>2. /\ \A l \in {"get users", "idle"} : l \notin {"login", "compare password"}
        /\ \A l \in {"get users", "idle"} : l \notin Searching
        /\ \A l \in {"get users", "idle"} : l \notin ({"look for login", "remove"} \cup Removing)
    BY DEF Searching, Removing
  <2>3. /\ pc["worker"] = "get users"
        /\ Moves("get users", "idle", stop, "idle")
        /\ UNCHANGED <<connection, logged_in_user, by, heap, userid, username, remote,
                       used, item, collided, slow_tasks, task, new_user, unseen>>
    BY DEF GetUsers, Visit, At, Moves, user_vars, list_vars, login_vars, slow_vars
  <2>4. stop \in Rows \cup {MaxUsers + 1}
    BY ThreadFacts DEF IndInv, Types, TypeOK
  <2>5. Finds("idle", stop) => Finds("idle", 1)
    OBVIOUS
  <2>. HIDE DEF stop
  <2>. QED
    BY <2>1, <2>2, <2>3, <2>4, <2>5, Visited
<1>2. WorkerStage'
  <2>1. pc'["worker"] \in {"get users", "idle"} /\ (pc'["worker"] = "idle" => row'["worker"] = 1)
    BY <1>1 DEF Ends, MeetsNull, Finds, PassesOver
  <2>. QED
    BY <2>1 DEF WorkerStage, Searching, Removing, Adding, Finding
<1>. QED
  BY <1>1, <1>2 DEF IndInv

LEMMA LoginFindsStep ==
    ASSUME IndInv, ~fault, LoginFinds
    PROVE  IndInv'
<1>1. /\ pc["worker"] = "login" /\ pc'["slow"] = pc["slow"] /\ row'["slow"] = row["slow"]
      /\ UNCHANGED <<connection, logged_in_user, by, heap, userid, username, remote,
                     used, item, collided, slow_tasks, task, new_user, unseen>>
      /\ \/ Ends("not found") \/ MeetsNull("login") \/ Finds("compare password", 1)
         \/ PassesOver("login")
      /\ Types' /\ SlowStage' /\ Created' /\ Placed' /\ NullRows' /\ Found' /\ Faults'
      /\ Twins' /\ Removal' /\ Apart'
  <2>. DEFINE stop == 1
  <2>1. \A l \in {"login", "compare password", "not found"} :
           l \in WorkerLabels /\ l \notin Adding \cup {"clear row", "clear row again"}
    BY DEF WorkerLabels, Searching, Removing, Adding, Finding
  <2>2. /\ \A l \in {"login", "compare password", "not found"} : l \notin Searching
        /\ \A l \in {"login", "compare password", "not found"} : l \notin ({"look for login", "remove"} \cup Removing)
    BY DEF Searching, Removing
  <2>3. /\ pc["worker"] = "login"
        /\ Moves("login", "compare password", stop, "not found")
        /\ UNCHANGED <<connection, logged_in_user, by, heap, userid, username, remote,
                       used, item, collided, slow_tasks, task, new_user, unseen>>
    BY DEF LoginFinds, Visit, At, Moves, user_vars, list_vars, login_vars, slow_vars
  <2>4. stop \in Rows \cup {MaxUsers + 1}
    BY ThreadFacts DEF IndInv, Types, TypeOK
  <2>5. Finds("compare password", stop) => Finds("compare password", 1)
    OBVIOUS
  <2>. HIDE DEF stop
  <2>. QED
    BY <2>1, <2>2, <2>3, <2>4, <2>5, Visited
<1>2. command'.client = command.client /\ command'.name = command.name
  BY <1>1, CommandIs DEF Ends, MeetsNull, Finds, PassesOver
<1>3. /\ pc'["worker"] \in {"login", "compare password", "not found"}
      /\ pc'["worker"] # "login" => row'["worker"] = 1
      /\ pc'["worker"] = "compare password" =>
            /\ command'.user \in Users /\ command'.user \in heap
            /\ \A t \in Threads : pc[t] \in Adding => command'.user # new_user[t]
  BY <1>1, CommandIs DEF Ends, MeetsNull, Finds, PassesOver
<1>4. WorkerStage'
  <2>1. command'.client \in Clients /\ command'.name \in Names
    BY <1>1, <1>2 DEF IndInv, WorkerStage
  <2>2. \A u \in heap : username[u] # Null
    BY DEF IndInv, Created
  <2>. QED
    BY <1>1, <1>3, <2>1, <2>2 DEF WorkerStage, Searching, Removing, Adding, Finding
<1>5. Logins'
  <2>1. \A t \in Threads : pc'[t] \in Adding => pc[t] \in Adding
    BY <1>1, <1>3, ThreadFacts DEF Adding, Finding
  <2>2. connection'[command'.client] = "open"
    BY <1>1, <1>2 DEF IndInv, Logins
  <2>. QED
    BY <1>1, <1>3, <2>1, <2>2 DEF IndInv, Logins, Trusted
<1>. QED
  BY <1>1, <1>4, <1>5 DEF IndInv

LEMMA FindIdStep ==
    ASSUME IndInv, ~fault, FindId
    PROVE  IndInv'
<1>1. /\ pc["worker"] = "find id" /\ pc'["slow"] = pc["slow"] /\ row'["slow"] = row["slow"]
      /\ UNCHANGED <<connection, logged_in_user, by, heap, userid, username, remote,
                     used, item, collided, slow_tasks, task, new_user, unseen>>
      /\ \/ Ends("find name") \/ MeetsNull("find id") \/ Finds("answer", 1)
         \/ PassesOver("find id")
      /\ Types' /\ SlowStage' /\ Created' /\ Placed' /\ NullRows' /\ Found' /\ Faults'
      /\ Logins' /\ Removal' /\ Apart'
  <2>. DEFINE stop == 1
  <2>1. \A l \in {"find id", "answer", "find name"} :
           l \in WorkerLabels /\ l \notin Adding \cup {"clear row", "clear row again"}
    BY DEF WorkerLabels, Searching, Removing, Adding, Finding
  <2>2. /\ \A l \in {"find id", "answer", "find name"} : l \notin {"login", "compare password"}
        /\ \A l \in {"find id", "answer", "find name"} : l \notin ({"look for login", "remove"} \cup Removing)
    BY DEF Searching, Removing
  <2>3. /\ pc["worker"] = "find id"
        /\ Moves("find id", "answer", stop, "find name")
        /\ UNCHANGED <<connection, logged_in_user, by, heap, userid, username, remote,
                       used, item, collided, slow_tasks, task, new_user, unseen>>
    BY DEF FindId, Visit, At, Moves, user_vars, list_vars, login_vars, slow_vars
  <2>4. stop \in Rows \cup {MaxUsers + 1}
    BY ThreadFacts DEF IndInv, Types, TypeOK
  <2>5. Finds("answer", stop) => Finds("answer", 1)
    OBVIOUS
  <2>. HIDE DEF stop
  <2>. QED
    BY <2>1, <2>2, <2>3, <2>4, <2>5, Visited
<1>2. command'.name = command.name /\ command'.id = command.id
  BY <1>1, CommandIs DEF Ends, MeetsNull, Finds, PassesOver
<1>3. /\ pc'["worker"] \in {"find id", "find name", "answer"}
      /\ pc'["worker"] # "find id" => row'["worker"] = 1
  BY <1>1 DEF Ends, MeetsNull, Finds, PassesOver
<1>4. WorkerStage'
  BY <1>1, <1>2, <1>3 DEF IndInv, WorkerStage, Searching, Removing, Adding, Finding
<1>5. ASSUME NEW r \in Rows, Own(r)
      PROVE  /\ pc'["worker"] = "find id" /\ r < row'["worker"] => userid[item[r]] # command.id
             /\ pc'["worker"] = "find name" => userid[item[r]] # command.id
             /\ pc'["worker"] = "find name" => ~(r < row'["worker"])
  <2>1. r < row["worker"] => userid[item[r]] # command.id
    BY <1>1, <1>5 DEF IndInv, Twins
  <2>2. CASE Ends("find name")
    <3>1. r < row["worker"] /\ pc'["worker"] = "find name" /\ row'["worker"] = 1
      BY <2>2 DEF Ends
    <3>2. ~(r < 1)
      BY ThreadFacts
    <3>. QED
      BY <2>1, <3>1, <3>2
  <2>3. CASE MeetsNull("find id")
    BY <2>1, <2>3 DEF MeetsNull
  <2>4. CASE Finds("answer", 1)
    BY <2>4 DEF Finds
  <2>5. CASE PassesOver("find id")
    <3>1. r < row'["worker"] => r < row["worker"] \/ r = row["worker"]
      <4>1. r \in Nat /\ row["worker"] \in Nat /\ row'["worker"] = row["worker"] + 1
        BY <2>5, ThreadFacts DEF PassesOver
      <4>. QED
        BY <4>1
    <3>2. used[r]
      BY <1>5 DEF IndInv, Twins
    <3>3. r = row["worker"] => userid[item[r]] # command.id
      <4>1. SUFFICES ASSUME r = row["worker"], ~(userid[item[r]] # command.id) PROVE FALSE
        OBVIOUS
      <4>2. ~(row["worker"] > MaxUsers) /\ HasId(Here) /\ Here # Null
        BY <1>5, <4>1, ThreadFacts DEF HasId, Here, Own
      <4>3. pc' = [pc EXCEPT !["worker"] = "answer"]
        BY <3>2, <4>1, <4>2 DEF FindId, Visit, StopAt, Goto
      <4>. QED
        BY <2>5, <4>3, ThreadFacts DEF PassesOver, IndInv, Types
    <3>. QED
      BY <2>1, <2>5, <3>1, <3>3 DEF PassesOver
  <2>. QED
    BY <1>1, <2>2, <2>3, <2>4, <2>5
<1>6. Twins'
  BY <1>1, <1>2, <1>3, <1>5 DEF IndInv, Twins, Own, Adding, Finding
<1>. QED
  BY <1>1, <1>4, <1>6 DEF IndInv

LEMMA FindNameStep ==
    ASSUME IndInv, ~fault, FindName
    PROVE  IndInv'
<1>1. /\ pc["worker"] = "find name" /\ pc'["slow"] = pc["slow"] /\ row'["slow"] = row["slow"]
      /\ UNCHANGED <<connection, logged_in_user, by, heap, userid, username, remote,
                     used, item, collided, slow_tasks, task, new_user, unseen>>
      /\ \/ Ends("new user") \/ MeetsNull("find name") \/ Finds("answer", 1)
         \/ PassesOver("find name")
      /\ Types' /\ SlowStage' /\ Created' /\ Placed' /\ NullRows' /\ Found' /\ Faults'
      /\ Logins' /\ Removal' /\ Apart'
  <2>. DEFINE stop == 1
  <2>1. \A l \in {"find name", "answer", "new user"} :
           l \in WorkerLabels /\ l \notin Adding \cup {"clear row", "clear row again"}
    BY DEF WorkerLabels, Searching, Removing, Adding, Finding
  <2>2. /\ \A l \in {"find name", "answer", "new user"} : l \notin {"login", "compare password"}
        /\ \A l \in {"find name", "answer", "new user"} : l \notin ({"look for login", "remove"} \cup Removing)
    BY DEF Searching, Removing
  <2>3. /\ pc["worker"] = "find name"
        /\ Moves("find name", "answer", stop, "new user")
        /\ UNCHANGED <<connection, logged_in_user, by, heap, userid, username, remote,
                       used, item, collided, slow_tasks, task, new_user, unseen>>
    BY DEF FindName, Visit, At, Moves, user_vars, list_vars, login_vars, slow_vars
  <2>4. stop \in Rows \cup {MaxUsers + 1}
    BY ThreadFacts DEF IndInv, Types, TypeOK
  <2>5. Finds("answer", stop) => Finds("answer", 1)
    OBVIOUS
  <2>. HIDE DEF stop
  <2>. QED
    BY <2>1, <2>2, <2>3, <2>4, <2>5, Visited
<1>2. command'.name = command.name /\ command'.id = command.id
  BY <1>1, CommandIs DEF Ends, MeetsNull, Finds, PassesOver
<1>3. /\ pc'["worker"] \in {"find name", "new user", "answer"}
      /\ pc'["worker"] # "find name" => row'["worker"] = 1
  BY <1>1 DEF Ends, MeetsNull, Finds, PassesOver
<1>4. WorkerStage'
  BY <1>1, <1>2, <1>3 DEF IndInv, WorkerStage, Searching, Removing, Adding, Finding
<1>5. ASSUME NEW r \in Rows, Own(r)
      PROVE  /\ pc'["worker"] = "find name" /\ r < row'["worker"] => username[item[r]] # command.name
             /\ pc'["worker"] = "new user" => username[item[r]] # command.name
  <2>1. r < row["worker"] => username[item[r]] # command.name
    BY <1>1, <1>5 DEF IndInv, Twins
  <2>2. CASE Ends("new user")
    BY <2>1, <2>2, ThreadFacts DEF Ends
  <2>3. CASE MeetsNull("find name")
    BY <2>1, <2>3 DEF MeetsNull
  <2>4. CASE Finds("answer", 1)
    BY <2>4 DEF Finds
  <2>5. CASE PassesOver("find name")
    <3>1. r < row'["worker"] => r < row["worker"] \/ r = row["worker"]
      <4>1. r \in Nat /\ row["worker"] \in Nat /\ row'["worker"] = row["worker"] + 1
        BY <2>5, ThreadFacts DEF PassesOver
      <4>. QED
        BY <4>1
    <3>2. used[r]
      BY <1>5 DEF IndInv, Twins
    <3>3. r = row["worker"] => username[item[r]] # command.name
      <4>1. SUFFICES ASSUME r = row["worker"], ~(username[item[r]] # command.name) PROVE FALSE
        OBVIOUS
      <4>2. ~(row["worker"] > MaxUsers) /\ HasName(Here) /\ Here # Null
        BY <1>5, <4>1, ThreadFacts DEF HasName, Here, Own
      <4>3. pc' = [pc EXCEPT !["worker"] = "answer"]
        BY <3>2, <4>1, <4>2 DEF FindName, Visit, StopAt, Goto
      <4>. QED
        BY <2>5, <4>3, ThreadFacts DEF PassesOver, IndInv, Types
    <3>. QED
      BY <2>1, <2>5, <3>1, <3>3 DEF PassesOver
  <2>. QED
    BY <1>1, <2>2, <2>3, <2>4, <2>5
<1>6. \A r \in Rows : Own(r) => userid[item[r]] # command.id
  BY <1>1 DEF IndInv, Twins
<1>7. Twins'
  BY <1>1, <1>2, <1>3, <1>5, <1>6 DEF IndInv, Twins, Own, Adding, Finding
<1>. QED
  BY <1>1, <1>4, <1>7 DEF IndInv

LEMMA FirstUserStep ==
    ASSUME IndInv, ~fault, FirstUser
    PROVE  IndInv'
<1>1. /\ pc["worker"] = "remove" /\ pc'["slow"] = pc["slow"] /\ row'["slow"] = row["slow"]
      /\ UNCHANGED <<connection, logged_in_user, by, heap, userid, username, remote,
                     used, item, collided, slow_tasks, task, new_user, unseen>>
      /\ \/ Ends("answer") \/ MeetsNull("remove") \/ Finds("first user", row["worker"])
         \/ PassesOver("remove")
      /\ Types' /\ SlowStage' /\ Created' /\ Placed' /\ NullRows' /\ Found' /\ Faults'
      /\ Logins' /\ Twins'
  <2>1. \A l \in {"remove", "first user", "answer"} :
           l \in WorkerLabels /\ l \notin Adding \cup {"clear row", "clear row again"}
    BY DEF WorkerLabels, Searching, Removing, Adding, Finding
  <2>2. /\ \A l \in {"remove", "first user", "answer"} : l \notin {"login", "compare password"}
        /\ \A l \in {"remove", "first user", "answer"} : l \notin Searching
    BY DEF Searching, Removing
  <2>3. /\ pc["worker"] = "remove"
        /\ Moves("remove", "first user", row["worker"], "answer")
        /\ UNCHANGED <<connection, logged_in_user, by, heap, userid, username, remote,
                       used, item, collided, slow_tasks, task, new_user, unseen>>
    BY DEF FirstUser, Visit, At, Moves, user_vars, list_vars, login_vars, slow_vars
  <2>4. row["worker"] \in Rows \cup {MaxUsers + 1}
    BY ThreadFacts DEF IndInv, Types, TypeOK
  <2>. QED
    BY <2>1, <2>2, <2>3, <2>4, Visited
<1>2. command'.id = command.id
  BY <1>1, CommandIs DEF Ends, MeetsNull, Finds, PassesOver
<1>3. /\ pc'["worker"] \in {"remove", "first user", "answer"}
      /\ pc'["worker"] = "answer" => row'["worker"] = 1
      /\ pc'["worker"] = "first user" =>
            /\ row'["worker"] = row["worker"] /\ row["worker"] \in Rows /\ used[row["worker"]]
            /\ command'.user = item[row["worker"]]
            /\ item[row["worker"]] \in Users /\ item[row["worker"]] \in heap
  BY <1>1, CommandIs DEF Ends, MeetsNull, Finds, PassesOver
<1>4. WorkerStage'
  <2>1. \A u \in heap : username[u] # Null
    BY DEF IndInv, Created
  <2>. QED
    BY <1>1, <1>2, <1>3, <2>1 DEF IndInv, WorkerStage, Searching, Removing, Adding, Finding
<1>5. Removal'
  BY <1>1, <1>2, <1>3 DEF IndInv, Removal, Trusted, Removing
<1>6. Apart'
  <2>1. /\ \A t \in Threads : pc'[t] \in Placing => pc'[t] = pc[t] /\ row'[t] = row[t]
        /\ pc'["worker"] \notin Placing
    BY <1>1, <1>3, ThreadFacts DEF Placing
  <2>2. ASSUME collided = {} PROVE pc["slow"] = "fill row" => item[row["slow"]] = Null
    BY <2>2, ThreadFacts DEF IndInv, Apart
  <2>3. Null \notin Users
    BY ThreadFacts
  <2>4. \A l \in {"delete user", "clear row", "clear row again"} : pc'["worker"] # l
    BY <1>3
  <2>. QED
    BY <1>1, <1>3, <2>1, <2>2, <2>3, <2>4 DEF IndInv, Apart, Removing, Placing
<1>. QED
  BY <1>1, <1>4, <1>5, <1>6 DEF IndInv

-----------------------------------------------------------------------------
(* biglist::add goes on.                                                   *)

LEMMA WorkerStageKept ==
    ASSUME WorkerStage, pc'["worker"] = pc["worker"], row'["worker"] = row["worker"], command' = command,
           \A u \in Users : username[u] # Null => username'[u] # Null
    PROVE  WorkerStage'
BY DEF WorkerStage

LEMMA SlowStageKept ==
    ASSUME SlowStage, pc'["slow"] = pc["slow"], row'["slow"] = row["slow"], task' = task,
           new_user'["slow"] = new_user["slow"], remote \subseteq remote'
    PROVE  SlowStage'
BY DEF SlowStage

LEMMA RowsUpTo ==
    ASSUME NEW M \in Nat, NEW n \in 1 .. M
    PROVE  /\ \A r \in 1 .. n : r \in 1 .. M /\ (r < n \/ r = n)
           /\ n < M => n + 1 \in 1 .. M
OBVIOUS

(* A user is yet to be put in a row: there is a row for it.                *)
LEMMA NextRow ==
    ASSUME IndInv, NEW t \in Threads, pc[t] = "test row", row[t] \in Rows, used[row[t]]
    PROVE  row[t] + 1 \in Rows
<1>1. PICK place \in [Users -> Nat] : PlacedBy(place)
  BY DEF IndInv, Placed
<1>2. new_user[t] \in Users /\ place[new_user[t]] = 0
  BY <1>1 DEF IndInv, Types, TypeOK, Created, PlacedBy, Finding, Adding
<1>3. row[t] \in Nat /\ row[t] >= 1 /\ row[t] <= MaxUsers /\ MaxUsers \in Nat
  BY ThreadFacts
<1>4. \A r \in 1 .. row[t] : \E u \in Users : place[u] = r
  <2>1. SUFFICES ASSUME NEW r \in 1 .. row[t] PROVE \E u \in Users : place[u] = r
    OBVIOUS
  <2>2. r \in Rows /\ (r < row[t] \/ r = row[t])
    BY <1>3, RowsUpTo DEF Rows
  <2>. QED
    BY <1>1, <2>2 DEF PlacedBy
<1>5. row[t] < MaxUsers
  BY <1>2, <1>3, <1>4, RowLeft
<1>. QED
  BY <1>3, <1>5, RowsUpTo DEF Rows

LEMMA TestRowStep ==
    ASSUME IndInv, ~fault, NEW t \in Threads, TestRow(t)
    PROVE  IndInv'
<1>. USE DEF At, Goto, user_vars, list_vars, login_vars, slow_vars
<1>1. /\ pc[t] = "test row"
      /\ UNCHANGED <<connection, logged_in_user, by, heap, userid, username, remote, used, item,
                     slow_tasks, task, command, new_user, unseen, fault>>
      /\ IF used[row[t]]
         THEN row' = [row EXCEPT ![t] = @ + 1] /\ pc' = pc /\ collided' = collided
         ELSE /\ pc' = [pc EXCEPT ![t] = "mark row"] /\ row' = row
              /\ collided' = IF \E s \in Threads \ {t} : pc[s] = "mark row" /\ row[s] = row[t]
                             THEN collided \cup {row[t]} ELSE collided
  BY DEF TestRow
<1>2. /\ pc \in [Threads -> WorkerLabels \cup SlowLabels] /\ row \in [Threads -> Rows \cup {MaxUsers + 1}]
      /\ pc["worker"] \in WorkerLabels /\ pc["slow"] \in SlowLabels
  BY DEF IndInv, Types, TypeOK
<1>3. row[t] \in Rows
  BY <1>1, ThreadFacts DEF IndInv, WorkerStage, SlowStage, Adding, Finding
<1>4. /\ row' = [row EXCEPT ![t] = row'[t]] /\ row'[t] \in Rows
      /\ used[row[t]] => row'[t] = row[t] + 1 /\ pc'[t] = "test row"
      /\ ~used[row[t]] => row'[t] = row[t] /\ pc'[t] = "mark row"
      /\ pc' = [pc EXCEPT ![t] = pc'[t]] /\ pc'[t] \in {"test row", "mark row"}
      /\ collided' = {} => collided = {}
  <2>1. CASE used[row[t]]
    <3>1. row[t] + 1 \in Rows
      BY <1>1, <1>3, <2>1, NextRow
    <3>. QED
      BY <1>1, <1>2, <2>1, <3>1
  <2>2. CASE ~used[row[t]]
    BY <1>1, <1>2, <1>3, <2>2
  <2>. QED
    BY <2>1, <2>2
<1>5. \A s \in Threads \ {t} : pc'[s] = pc[s] /\ row'[s] = row[s]
  BY <1>2, <1>4
<1>6. Types'
  <2>1. row' \in [Threads -> Rows \cup {MaxUsers + 1}]
    BY <1>2, <1>4
  <2>2. TypeOK'
    BY <1>1, <2>1 DEF IndInv, Types, TypeOK
  <2>3. pc' \in [Threads -> WorkerLabels \cup SlowLabels]
    <3>1. pc'[t] \in WorkerLabels
      BY <1>4 DEF WorkerLabels, Adding, Finding
    <3>. QED
      BY <1>2, <1>4, <3>1
  <2>4. pc'["worker"] \in WorkerLabels /\ pc'["slow"] \in SlowLabels
    BY <1>2, <1>4, <1>5, ThreadFacts DEF WorkerLabels, SlowLabels, Adding, Finding
  <2>. QED
    BY <1>1, <2>2, <2>3, <2>4 DEF IndInv, Types
<1>7. /\ \A s \in Threads : pc'[s] \in Adding => pc[s] \in Adding /\ new_user'[s] = new_user[s]
      /\ \A s \in Threads : pc[s] \in Adding => pc'[s] \in Adding /\ new_user'[s] = new_user[s]
      /\ \A s \in Threads : pc'[s] = "fill row" \/ pc[s] = "fill row" => pc'[s] = pc[s] /\ row'[s] = row[s]
      /\ pc'["worker"] \notin Adding \/ pc["worker"] \notin Adding =>
            pc'["worker"] = pc["worker"] /\ row'["worker"] = row["worker"]
  BY <1>1, <1>4, <1>5, ThreadFacts DEF Adding, Finding
<1>8. WorkerStage' /\ SlowStage'
  <2>1. CASE t = "worker"
    <3>1. SlowStage'
      BY <1>1, <1>5, <2>1, ThreadFacts, SlowStageKept DEF IndInv
    <3>2. pc'["worker"] \in {"test row", "mark row"} /\ row'["worker"] \in Rows
      BY <1>4, <2>1
    <3>. QED
      BY <3>1, <3>2 DEF WorkerStage, Searching, Removing
  <2>2. CASE t = "slow"
    <3>1. WorkerStage'
      BY <1>1, <1>5, <2>2, ThreadFacts, WorkerStageKept DEF IndInv
    <3>2. pc'["slow"] \in {"test row", "mark row"} /\ row'["slow"] \in Rows
      BY <1>4, <2>2
    <3>3. pc["slow"] # "idle" /\ pc["slow"] \in Adding
      BY <1>1, <2>2 DEF Adding, Finding
    <3>. QED
      BY <1>1, <3>1, <3>2, <3>3 DEF IndInv, SlowStage
  <2>. QED
    BY <2>1, <2>2, ThreadFacts
<1>9. Created'
  BY <1>1, <1>7, CreatedKept DEF IndInv, Adding, Finding
<1>10. Placed'
  <2>1. PICK place \in [Users -> Nat] : PlacedBy(place)
    BY DEF IndInv, Placed
  <2>2. \A s \in Threads : pc'[s] \in Finding => place[new_user'[s]] = 0
    BY <1>1, <1>4, <1>5, <2>1 DEF PlacedBy, Finding
  <2>3. ASSUME NEW s \in Threads, pc'[s] \in {"test row", "mark row"}, NEW r \in Rows, r < row'[s]
        PROVE  \E u \in Users : place[u] = r
    <3>1. CASE s # t
      BY <1>5, <2>1, <2>3, <3>1 DEF PlacedBy
    <3>2. CASE s = t /\ r < row[t]
      BY <1>1, <2>1, <3>2 DEF PlacedBy
    <3>3. CASE s = t /\ ~(r < row[t])
      <4>1. used[row[t]] /\ row'[t] = row[t] + 1
        BY <1>4, <2>3, <3>3
      <4>2. r \in Nat /\ row[t] \in Nat /\ r < row[t] + 1 /\ ~(r < row[t])
        BY <1>3, <2>3, <3>3, <4>1, ThreadFacts
      <4>3. r = row[t]
        BY <4>2
      <4>. QED
        BY <1>3, <2>1, <4>1, <4>3 DEF PlacedBy
    <3>. QED
      BY <3>1, <3>2, <3>3
  <2>. QED
    BY <1>1, <2>1, <2>2, <2>3 DEF Placed, PlacedBy
<1>11. NullRows'
  BY <1>1, <1>7, NullRowsKept DEF IndInv, Adding, Finding
<1>12. Twins'
  BY <1>1, <1>7, ThreadFacts, TwinsKept DEF IndInv, WorkerStage, Searching, Adding, Finding, Removing
<1>13. Logins'
  BY <1>1, <1>7, LoginsKept DEF IndInv, Adding, Finding
<1>14. Removal'
  BY <1>1, <1>7, RemovalKept DEF IndInv, Removing, Adding, Finding
<1>15. Apart'
  <2>1. CASE used[row[t]]
    <3>1. \A s \in Threads : pc'[s] \in Placing => pc'[s] = pc[s] /\ row'[s] = row[s]
      BY <1>1, <1>4, <1>5, <2>1 DEF Placing
    <3>2. pc'["worker"] \in Removing => pc'["worker"] = pc["worker"] /\ row'["worker"] = row["worker"]
      BY <1>7 DEF Removing, Adding, Finding
    <3>. QED
      BY <1>1, <1>4, <3>1, <3>2, ApartKept DEF IndInv
  <2>2. CASE ~used[row[t]]
    <3>. SUFFICES ASSUME collided' = {} PROVE Apart'
      BY DEF Apart
    <3>1. collided = {} /\ \A s \in Threads \ {t} : pc[s] = "mark row" => row[s] # row[t]
      BY <1>1, <2>2
    <3>2. \A s \in Threads : pc[s] = "fill row" => used[row[s]] /\ item[row[s]] = Null
      BY <3>1 DEF IndInv, Apart
    <3>3. \A s \in Threads \ {t} : pc[s] \in Placing => row[s] # row[t]
      BY <2>2, <3>1, <3>2 DEF Placing
    <3>4. \A s \in Threads : pc'[s] = "mark row" => ~used'[row'[s]]
      BY <1>1, <1>4, <1>5, <2>2, <3>1 DEF IndInv, Apart
    <3>5. \A s \in Threads : pc'[s] = "fill row" => used'[row'[s]] /\ item'[row'[s]] = Null
      BY <1>1, <1>7, <3>2
    <3>6. pc'["worker"] \in Placing /\ pc'["slow"] \in Placing => row'["worker"] # row'["slow"]
      BY <1>4, <1>5, <2>2, <3>3, ThreadFacts
    <3>7. /\ \A r \in Rows : ~used'[r] => item'[r] = Null
          /\ pc'["worker"] \in Removing =>
                used'[row'["worker"]] /\ (pc'["slow"] = "fill row" => row'["slow"] # row'["worker"])
          /\ pc'["worker"] \in {"first user", "delete user", "clear row"} => item'[row'["worker"]] # Null
          /\ pc'["worker"] = "clear row" => item'[row'["worker"]] \notin heap'
          /\ pc'["worker"] = "clear row again" => item'[row'["worker"]] = Null
      BY <1>1, <1>7, <3>1, ThreadFacts DEF IndInv, Apart, Removing, Adding, Finding
    <3>. QED
      BY <3>4, <3>5, <3>6, <3>7 DEF Apart
  <2>. QED
    BY <2>1, <2>2
<1>16. Found'
  BY <1>1, <1>4, <1>7, FoundKept DEF IndInv
<1>17. Faults'
  BY <1>1, FaultsKept
<1>. QED
  BY <1>6, <1>8, <1>9, <1>10, <1>11, <1>12, <1>13, <1>14, <1>15, <1>16, <1>17 DEF IndInv

LEMMA MarkRowStep ==
    ASSUME IndInv, ~fault, NEW t \in Threads, MarkRow(t)
    PROVE  IndInv'
<1>. USE DEF At, Goto, user_vars, list_vars, login_vars, slow_vars
<1>1. /\ pc[t] = "mark row" /\ pc' = [pc EXCEPT ![t] = "fill row"]
      /\ used' = [used EXCEPT ![row[t]] = TRUE]
      /\ UNCHANGED <<connection, logged_in_user, by, heap, userid, username, remote, item, collided,
                     slow_tasks, task, command, row, new_user, unseen, fault>>
  BY DEF MarkRow
<1>2. /\ pc \in [Threads -> WorkerLabels \cup SlowLabels] /\ used \in [Rows -> BOOLEAN]
      /\ pc["worker"] \in WorkerLabels /\ pc["slow"] \in SlowLabels
  BY DEF IndInv, Types, TypeOK
<1>3. row[t] \in Rows
  BY <1>1, ThreadFacts DEF IndInv, WorkerStage, SlowStage, Adding, Finding
<1>4. /\ pc'[t] = "fill row" /\ \A s \in Threads \ {t} : pc'[s] = pc[s]
      /\ used'[row[t]] /\ \A r \in Rows \ {row[t]} : used'[r] = used[r]
      /\ \A r \in Rows : used[r] => used'[r]
  BY <1>1, <1>2, <1>3
<1>5. Types'
  <2>1. TypeOK'
    <3>1. used' \in [Rows -> BOOLEAN]
      BY <1>1, <1>2
    <3>. QED
      BY <1>1, <3>1 DEF IndInv, Types, TypeOK
  <2>2. pc' \in [Threads -> WorkerLabels \cup SlowLabels]
    BY <1>1, <1>2 DEF WorkerLabels, Adding
  <2>3. pc'["worker"] \in WorkerLabels /\ pc'["slow"] \in SlowLabels
    BY <1>2, <1>4, ThreadFacts DEF WorkerLabels, SlowLabels, Adding
  <2>. QED
    BY <1>1, <2>1, <2>2, <2>3 DEF IndInv, Types
<1>6. /\ \A s \in Threads : pc'[s] \in Adding => pc[s] \in Adding
      /\ \A s \in Threads : pc[s] \in Adding => pc'[s] \in Adding
      /\ \A s \in Threads : pc'[s] \in Finding => pc'[s] = pc[s] /\ s # t
      /\ \A s \in Threads : pc'[s] = "fill row" => s = t \/ pc[s] = "fill row"
      /\ \A s \in Threads : pc[s] = "fill row" => pc'[s] = "fill row"
      /\ pc'["worker"] \notin Adding \/ pc["worker"] \notin Adding => pc'["worker"] = pc["worker"]
  BY <1>1, <1>4, ThreadFacts DEF Adding, Finding
<1>7. WorkerStage' /\ SlowStage'
  <2>1. CASE t = "worker"
    <3>1. SlowStage'
      BY <1>1, <1>4, <2>1, ThreadFacts, SlowStageKept DEF IndInv
    <3>2. pc'["worker"] = "fill row" /\ row'["worker"] \in Rows
      BY <1>1, <1>3, <1>4, <2>1
    <3>. QED
      BY <3>1, <3>2 DEF WorkerStage, Searching, Removing
  <2>2. CASE t = "slow"
    <3>1. WorkerStage'
      BY <1>1, <1>4, <2>2, ThreadFacts, WorkerStageKept DEF IndInv
    <3>2. pc'["slow"] = "fill row" /\ row'["slow"] \in Rows
      BY <1>1, <1>3, <1>4, <2>2
    <3>3. pc["slow"] # "idle" /\ pc["slow"] \in Adding
      BY <1>1, <2>2 DEF Adding, Finding
    <3>. QED
      BY <1>1, <3>1, <3>2, <3>3 DEF IndInv, SlowStage
  <2>. QED
    BY <2>1, <2>2, ThreadFacts
<1>8. Created'
  BY <1>1, <1>6, CreatedKept DEF IndInv, Adding, Finding
(* The user is put in the row marked; the other is not this one.           *)
<1>9. Placed'
  <2>1. PICK place \in [Users -> Nat] : PlacedBy(place)
    BY DEF IndInv, Placed
  <2>. DEFINE v == new_user[t]
              placed == [place EXCEPT ![v] = row[t]]
  <2>2. /\ v \in Users /\ username[v] # Null /\ place[v] = 0
        /\ \A s \in Threads \ {t} : pc[s] \in Finding => new_user[s] # v
    BY <1>1, <2>1 DEF IndInv, Types, TypeOK, Created, PlacedBy, Finding, Adding
  <2>3. row[t] \in Nat
    BY <1>3, ThreadFacts
  <2>4. /\ placed \in [Users -> Nat] /\ placed[v] = row[t]
        /\ \A u \in Users \ {v} : placed[u] = place[u]
    BY <2>2, <2>3
  <2>. HIDE DEF v, placed
  <2>5. \A u \in Users : username'[u] = Null => placed[u] = 0
    BY <1>1, <2>1, <2>2, <2>4 DEF PlacedBy
  <2>6. ASSUME NEW r \in Rows, \E u \in Users : place[u] = r
        PROVE  \E u \in Users : placed[u] = r
    <3>1. PICK u \in Users : place[u] = r
      BY <2>6
    <3>2. r # 0
      BY ThreadFacts
    <3>. QED
      BY <2>2, <2>4, <3>1, <3>2
  <2>7. \A r \in Rows : used'[r] => \E u \in Users : placed[u] = r
    <3>1. SUFFICES ASSUME NEW r \in Rows, used'[r] PROVE \E u \in Users : placed[u] = r
      OBVIOUS
    <3>2. CASE r = row[t]
      BY <2>2, <2>4, <3>2
    <3>3. CASE r # row[t]
      BY <1>4, <2>1, <2>6, <3>1, <3>3 DEF PlacedBy
    <3>. QED
      BY <3>2, <3>3
  <2>8. \A s \in Threads : pc'[s] \in Finding => placed[new_user'[s]] = 0
    <3>1. SUFFICES ASSUME NEW s \in Threads, pc'[s] \in Finding PROVE placed[new_user'[s]] = 0
      OBVIOUS
    <3>2. pc[s] \in Finding /\ s # t
      BY <1>6, <3>1
    <3>3. new_user[s] \in Users
      BY <3>2 DEF IndInv, Types, TypeOK, Created, Adding
    <3>4. place[new_user[s]] = 0 /\ new_user[s] # v
      BY <2>1, <2>2, <3>2 DEF PlacedBy
    <3>. QED
      BY <1>1, <2>4, <3>3, <3>4
  <2>9. ASSUME NEW s \in Threads, pc'[s] \in {"test row", "mark row"}, NEW r \in Rows, r < row'[s]
        PROVE  \E u \in Users : placed[u] = r
    <3>1. pc[s] \in {"test row", "mark row"} /\ r < row[s]
      BY <1>1, <1>6, <2>9 DEF Finding
    <3>. QED
      BY <2>1, <2>6, <3>1 DEF PlacedBy
  <2>. QED
    BY <2>4, <2>5, <2>7, <2>8, <2>9 DEF Placed, PlacedBy
<1>10. NullRows'
  <2>1. SUFFICES ASSUME NEW r \in Rows, used'[r], item'[r] = Null
                 PROVE  \/ \E s \in Threads : pc'[s] = "fill row" /\ row'[s] = r
                        \/ pc'["worker"] = "clear row again" /\ row'["worker"] = r
    BY DEF NullRows
  <2>2. CASE r = row[t]
    BY <1>1, <1>4, <2>2
  <2>3. CASE r # row[t]
    <3>1. \/ \E s \in Threads : pc[s] = "fill row" /\ row[s] = r
          \/ pc["worker"] = "clear row again" /\ row["worker"] = r
      BY <1>1, <1>4, <2>1, <2>3 DEF IndInv, NullRows
    <3>2. pc["worker"] = "clear row again" => pc'["worker"] = "clear row again"
      BY <1>6 DEF Adding, Finding
    <3>. QED
      BY <1>1, <1>6, <3>1, <3>2
  <2>. QED
    BY <2>2, <2>3
<1>11. Twins'
  <2>1. pc'["worker"] = "fill row" => used'[row'["worker"]]
    <3>1. CASE t = "worker"
      BY <1>1, <1>4, <3>1
    <3>2. CASE t # "worker"
      <4>1. pc'["worker"] = "fill row" => pc["worker"] = "fill row" /\ row["worker"] \in Rows /\ used[row["worker"]]
        BY <1>4, <3>2, ThreadFacts DEF IndInv, Twins, WorkerStage, Adding
      <4>. QED
        BY <1>1, <1>4, <4>1
    <3>. QED
      BY <3>1, <3>2
  <2>2. /\ pc'["worker"] \in Adding <=> pc["worker"] \in Adding
        /\ \A l \in Searching \cup {"clear row again"} : pc'["worker"] = l => pc["worker"] = l
    BY <1>6, ThreadFacts DEF Searching, Adding, Finding
  <2>3. \A r \in Rows : Own(r)' <=> Own(r)
    BY <1>1 DEF Own
  <2>. QED
    BY <1>1, <1>4, <2>1, <2>2, <2>3 DEF IndInv, Twins, Own, Searching
<1>12. Logins'
  BY <1>1, <1>6, LoginsKept DEF IndInv, Adding, Finding
<1>13. Removal'
  BY <1>1, <1>6, RemovalKept DEF IndInv, Removing, Adding, Finding
<1>14. Apart'
  <2>. SUFFICES ASSUME collided' = {} PROVE Apart'
    BY DEF Apart
  <2>1. /\ collided = {} /\ ~used[row[t]] /\ item[row[t]] = Null
        /\ \A r \in Rows : ~used[r] => item[r] = Null
    BY <1>1, <1>3 DEF IndInv, Apart
  <2>2. \A s \in Threads : pc[s] \in Placing => row[s] \in Rows
    BY ThreadFacts DEF IndInv, WorkerStage, SlowStage, Placing, Adding, Finding
  <2>3. pc["worker"] \in Placing /\ pc["slow"] \in Placing => row["worker"] # row["slow"]
    BY <2>1 DEF IndInv, Apart
  <2>4. \A s \in Threads \ {t} : pc[s] \in Placing => row[s] # row[t]
    BY <1>1, <2>3, ThreadFacts DEF Placing
  <2>5. \A s \in Threads : pc'[s] = "mark row" => ~used'[row'[s]]
    <3>1. SUFFICES ASSUME NEW s \in Threads, pc'[s] = "mark row" PROVE ~used'[row'[s]]
      OBVIOUS
    <3>2. s # t /\ pc[s] = "mark row"
      BY <1>4, <3>1
    <3>3. row[s] \in Rows \ {row[t]} /\ ~used[row[s]]
      BY <2>1, <2>2, <2>4, <3>2 DEF Placing, IndInv, Apart
    <3>. QED
      BY <1>1, <1>4, <3>3
  <2>6. \A s \in Threads : pc'[s] = "fill row" => used'[row'[s]] /\ item'[row'[s]] = Null
    <3>1. SUFFICES ASSUME NEW s \in Threads, pc'[s] = "fill row" PROVE used'[row'[s]] /\ item'[row'[s]] = Null
      OBVIOUS
    <3>2. CASE s = t
      BY <1>1, <1>4, <2>1, <3>2
    <3>3. CASE s # t
      <4>1. pc[s] = "fill row" /\ row[s] \in Rows /\ used[row[s]] /\ item[row[s]] = Null
        BY <1>6, <2>1, <2>2, <3>1, <3>3 DEF Placing, IndInv, Apart
      <4>. QED
        BY <1>1, <1>4, <4>1
    <3>. QED
      BY <3>2, <3>3
  <2>7. pc'["worker"] \in Placing /\ pc'["slow"] \in Placing => row'["worker"] # row'["slow"]
    BY <1>1, <1>4, <2>4, ThreadFacts
  <2>8. \A r \in Rows : ~used'[r] => item'[r] = Null
    BY <1>1, <1>4, <2>1
  <2>9. ASSUME pc'["worker"] \in Removing
        PROVE  used'[row'["worker"]] /\ (pc'["slow"] = "fill row" => row'["slow"] # row'["worker"])
    <3>1. pc["worker"] \in Removing /\ t = "slow"
      BY <1>4, <2>9, ThreadFacts DEF Removing
    <3>2. used[row["worker"]] /\ row["worker"] \in Rows
      BY <2>1, <3>1 DEF IndInv, Apart, WorkerStage, Removing
    <3>. QED
      BY <1>1, <1>4, <2>1, <3>1, <3>2
  <2>10. /\ pc'["worker"] \in {"first user", "delete user", "clear row"} => item'[row'["worker"]] # Null
         /\ pc'["worker"] = "clear row" => item'[row'["worker"]] \notin heap'
         /\ pc'["worker"] = "clear row again" => item'[row'["worker"]] = Null
    <3>1. \A l \in Removing : pc'["worker"] = l => pc["worker"] = l
      BY <1>4, ThreadFacts DEF Removing
    <3>. QED
      BY <1>1, <2>1, <3>1 DEF IndInv, Apart, Removing
  <2>. QED
    BY <2>5, <2>6, <2>7, <2>8, <2>9, <2>10 DEF Apart
<1>15. Found'
  <2>. SUFFICES ASSUME collided' = {}, NEW u \in heap'
                PROVE  \/ \E r \in Rows : used'[r] /\ item'[r] = u
                       \/ \E s \in Threads : pc'[s] \in Adding /\ new_user'[s] = u
    BY DEF Found
  <2>1. \/ \E r \in Rows : used[r] /\ item[r] = u
        \/ \E s \in Threads : pc[s] \in Adding /\ new_user[s] = u
    BY <1>1 DEF IndInv, Found
  <2>. QED
    BY <1>1, <1>4, <1>6, <2>1
<1>16. Faults'
  BY <1>1, FaultsKept
<1>. QED
  BY <1>5, <1>7, <1>8, <1>9, <1>10, <1>11, <1>12, <1>13, <1>14, <1>15, <1>16 DEF IndInv

(* The user is in the list; what follows of it for either thread.          *)
LEMMA Filled ==
    ASSUME IndInv, ~fault, NEW t \in Threads, NEW next \in {"idle", "log in"},
           pc[t] = "fill row", pc' = [pc EXCEPT ![t] = next],
           item' = [item EXCEPT ![row[t]] = new_user[t]], row' = [row EXCEPT ![t] = 1],
           \A s \in Threads \ {t} : new_user'[s] = new_user[s],
           t = "worker" => next = "idle", t = "slow" => command' = command,
           UNCHANGED <<connection, logged_in_user, by, heap, userid, username, remote, used, collided,
                       slow_tasks, unseen, fault>>
    PROVE  /\ pc'[t] = next /\ row'[t] = 1 /\ \A s \in Threads \ {t} : pc'[s] = pc[s] /\ row'[s] = row[s]
           /\ item' \in [Rows -> Users \cup {Null}] /\ row' \in [Threads -> Rows \cup {MaxUsers + 1}]
           /\ new_user[t] \in Users
           /\ Created' /\ Placed' /\ NullRows' /\ Twins' /\ Logins' /\ Removal' /\ Apart' /\ Found' /\ Faults'
<1>1. /\ pc \in [Threads -> WorkerLabels \cup SlowLabels] /\ row \in [Threads -> Rows \cup {MaxUsers + 1}]
      /\ item \in [Rows -> Users \cup {Null}] /\ heap \subseteq Users /\ Null \notin Users
  BY ThreadFacts DEF IndInv, Types, TypeOK
<1>2. row[t] \in Rows
  BY ThreadFacts DEF IndInv, WorkerStage, SlowStage, Adding, Finding
<1>3. new_user[t] \in heap /\ \A r \in Rows : item[r] # new_user[t]
  BY DEF IndInv, Created, Adding
<1>4. /\ pc'[t] = next /\ row'[t] = 1 /\ \A s \in Threads \ {t} : pc'[s] = pc[s] /\ row'[s] = row[s]
      /\ item'[row[t]] = new_user[t] /\ \A r \in Rows \ {row[t]} : item'[r] = item[r]
      /\ item' \in [Rows -> Users \cup {Null}] /\ row' \in [Threads -> Rows \cup {MaxUsers + 1}]
  BY <1>1, <1>2, <1>3, ThreadFacts
<1>5. /\ \A s \in Threads : pc'[s] \in Adding => s # t /\ pc[s] \in Adding /\ new_user'[s] = new_user[s]
      /\ \A s \in Threads : pc'[s] \in Adding => pc'[s] = pc[s] /\ row'[s] = row[s]
  BY <1>4 DEF Adding, Finding
<1>6. Created'
  <2>1. \A r \in Rows : item'[r] # Null => username'[item'[r]] # Null
    BY <1>3, <1>4 DEF IndInv, Created
  <2>2. \A r, s \in Rows : r # s /\ item'[r] = item'[s] => item'[r] = Null
    <3>1. \A r, s \in Rows : r # s /\ item[r] = item[s] => item[r] = Null
      BY DEF IndInv, Created
    <3>. QED
      BY <1>3, <1>4, <3>1
  <2>3. ASSUME NEW s \in Threads, pc'[s] \in Adding
        PROVE  /\ new_user'[s] \in heap'
               /\ \A r \in Rows : item'[r] # new_user'[s]
               /\ \A q \in Threads \ {s} : pc'[q] \in Adding => new_user'[q] # new_user'[s]
    <3>1. s # t /\ pc[s] \in Adding /\ new_user'[s] = new_user[s]
      BY <1>5, <2>3
    <3>2. new_user[s] # new_user[t]
      BY <3>1 DEF IndInv, Created, Adding
    <3>3. /\ new_user[s] \in heap /\ \A r \in Rows : item[r] # new_user[s]
          /\ \A q \in Threads \ {s} : pc[q] \in Adding => new_user[q] # new_user[s]
      BY <3>1 DEF IndInv, Created
    <3>4. \A r \in Rows : item'[r] # new_user[s]
      BY <1>4, <3>2, <3>3
    <3>. QED
      BY <1>5, <3>1, <3>3, <3>4
  <2>4. ASSUME NEW r \in Rows, item'[r] # Null
        PROVE  item'[r] \in heap' \/ (pc'["worker"] = "clear row" /\ row'["worker"] = r)
    <3>1. CASE r = row[t]
      BY <1>3, <1>4, <3>1
    <3>2. CASE r # row[t]
      <4>1. item[r] \in heap \/ (pc["worker"] = "clear row" /\ row["worker"] = r)
        BY <1>4, <2>4, <3>2 DEF IndInv, Created
      <4>2. pc["worker"] = "clear row" => "worker" \in Threads \ {t}
        BY ThreadFacts
      <4>. QED
        BY <1>4, <3>2, <4>1, <4>2
    <3>. QED
      BY <3>1, <3>2
  <2>5. \A u \in heap' : username'[u] # Null
    BY DEF IndInv, Created
  <2>. QED
    BY <2>1, <2>2, <2>3, <2>4, <2>5 DEF Created
<1>7. Placed'
  BY <1>5, PlacedKept DEF IndInv, Adding
<1>8. NullRows'
  <2>1. SUFFICES ASSUME NEW r \in Rows, used'[r], item'[r] = Null
                 PROVE  \/ \E s \in Threads : pc'[s] = "fill row" /\ row'[s] = r
                        \/ pc'["worker"] = "clear row again" /\ row'["worker"] = r
    BY DEF NullRows
  <2>2. r # row[t] /\ item[r] = Null /\ used[r]
    BY <1>1, <1>3, <1>4, <2>1
  <2>3. \/ \E s \in Threads \ {t} : pc[s] = "fill row" /\ row[s] = r
        \/ pc["worker"] = "clear row again" /\ row["worker"] = r
    BY <2>2 DEF IndInv, NullRows
  <2>4. pc["worker"] = "clear row again" => "worker" \in Threads \ {t}
    BY ThreadFacts
  <2>. QED
    BY <1>4, <2>3, <2>4
<1>9. Twins'
  <2>. DEFINE OwnNext(r) == item'[r] # Null /\ item'[r] \notin remote'
  <2>1. \A r \in Rows \ {row[t]} : OwnNext(r) <=> Own(r)
    BY <1>4 DEF Own
  <2>. HIDE DEF OwnNext
  <2>2. CASE t = "worker"
    <3>1. /\ \A r \in Rows : Own(r) => used[r]
          /\ used[row[t]]
          /\ \A r \in Rows : Own(r) => /\ userid[item[r]] # userid[new_user[t]]
                                       /\ username[item[r]] # username[new_user[t]]
          /\ \A r, s \in Rows : r # s /\ Own(r) /\ Own(s) =>
                userid[item[r]] # userid[item[s]] /\ username[item[r]] # username[item[s]]
      BY <2>2 DEF IndInv, Twins, Adding
    <3>2. ASSUME NEW r \in Rows, NEW s \in Rows, r # s, OwnNext(r), OwnNext(s)
          PROVE  userid'[item'[r]] # userid'[item'[s]] /\ username'[item'[r]] # username'[item'[s]]
      <4>1. CASE r # row[t] /\ s # row[t]
        BY <1>4, <2>1, <3>1, <3>2, <4>1
      <4>2. CASE r = row[t]
        BY <1>4, <2>1, <3>1, <3>2, <4>2
      <4>3. CASE s = row[t]
        BY <1>4, <2>1, <3>1, <3>2, <4>3
      <4>. QED
        BY <4>1, <4>2, <4>3
    <3>3. \A r \in Rows : OwnNext(r) => used'[r]
      BY <2>1, <3>1
    <3>4. pc'["worker"] = "idle"
      BY <1>4, <2>2
    <3>. QED
      BY <3>2, <3>3, <3>4 DEF Twins, Own, OwnNext, Adding, Finding
  <2>3. CASE t = "slow"
    <3>1. item'[row[t]] \in remote'
      BY <1>4, <2>3 DEF IndInv, SlowStage, Adding
    <3>2. \A r \in Rows : OwnNext(r) => Own(r) /\ item'[r] = item[r] /\ r # row[t]
      <4>1. \A r \in Rows : OwnNext(r) => r # row[t]
        BY <3>1 DEF OwnNext
      <4>. QED
        BY <1>4, <2>1, <4>1
    <3>3. "worker" \in Threads \ {t}
      BY <2>3, ThreadFacts
    <3>4. /\ pc'["worker"] = pc["worker"] /\ row'["worker"] = row["worker"]
          /\ new_user'["worker"] = new_user["worker"] /\ command' = command
      BY <1>4, <2>3, <3>3
    <3>5. pc'["worker"] = "clear row again" => ~OwnNext(row'["worker"])
      <4>1. pc["worker"] = "clear row again" => row["worker"] \in Rows /\ ~Own(row["worker"])
        BY DEF IndInv, WorkerStage, Removing, Twins
      <4>. QED
        BY <3>2, <3>4, <4>1
    <3>6. \A r \in Rows : OwnNext(r) => used'[r]
      BY <3>2 DEF IndInv, Twins
    <3>7. ASSUME NEW r \in Rows, NEW s \in Rows, r # s, OwnNext(r), OwnNext(s)
          PROVE  userid'[item'[r]] # userid'[item'[s]] /\ username'[item'[r]] # username'[item'[s]]
      <4>1. Own(r) /\ Own(s) /\ item'[r] = item[r] /\ item'[s] = item[s]
        BY <3>2, <3>7
      <4>2. userid[item[r]] # userid[item[s]] /\ username[item[r]] # username[item[s]]
        BY <3>7, <4>1 DEF IndInv, Twins
      <4>. QED
        BY <4>1, <4>2
    <3>8. pc'["worker"] = "fill row" => used'[row'["worker"]]
      BY <3>4 DEF IndInv, Twins
    <3>9. ASSUME NEW r \in Rows, OwnNext(r)
          PROVE  /\ pc'["worker"] = "find id" /\ r < row'["worker"] => userid'[item'[r]] # command'.id
                 /\ pc'["worker"] \in {"find name", "new user"} => userid'[item'[r]] # command'.id
                 /\ pc'["worker"] = "find name" /\ r < row'["worker"] => username'[item'[r]] # command'.name
                 /\ pc'["worker"] = "new user" => username'[item'[r]] # command'.name
                 /\ pc'["worker"] \in Adding =>
                       /\ userid'[item'[r]] # userid'[new_user'["worker"]]
                       /\ username'[item'[r]] # username'[new_user'["worker"]]
      <4>1. Own(r) /\ item'[r] = item[r]
        BY <3>2, <3>9
      <4>2. /\ pc["worker"] = "find id" /\ r < row["worker"] => userid[item[r]] # command.id
            /\ pc["worker"] \in {"find name", "new user"} => userid[item[r]] # command.id
            /\ pc["worker"] = "find name" /\ r < row["worker"] => username[item[r]] # command.name
            /\ pc["worker"] = "new user" => username[item[r]] # command.name
            /\ pc["worker"] \in Adding =>
                  /\ userid[item[r]] # userid[new_user["worker"]]
                  /\ username[item[r]] # username[new_user["worker"]]
        BY <4>1 DEF IndInv, Twins
      <4>3. userid' = userid /\ username' = username
        OBVIOUS
      <4>. QED
        BY <3>4, <4>1, <4>2, <4>3
    <3>10. \A r, s \in Rows : r # s /\ OwnNext(r) /\ OwnNext(s) =>
              userid'[item'[r]] # userid'[item'[s]] /\ username'[item'[r]] # username'[item'[s]]
      BY <3>7
    <3>11. \A r \in Rows : OwnNext(r) =>
                 /\ pc'["worker"] = "find id" /\ r < row'["worker"] => userid'[item'[r]] # command'.id
                 /\ pc'["worker"] \in {"find name", "new user"} => userid'[item'[r]] # command'.id
                 /\ pc'["worker"] = "find name" /\ r < row'["worker"] => username'[item'[r]] # command'.name
                 /\ pc'["worker"] = "new user" => username'[item'[r]] # command'.name
                 /\ pc'["worker"] \in Adding =>
                       /\ userid'[item'[r]] # userid'[new_user'["worker"]]
                       /\ username'[item'[r]] # username'[new_user'["worker"]]
      BY <3>9
    <3>. QED
      BY ONLY <3>5, <3>6, <3>8, <3>10, <3>11 DEF Twins, Own, OwnNext
  <2>. QED
    BY <2>2, <2>3, ThreadFacts
<1>10. Logins'
  BY <1>4, <1>5, ThreadFacts, LoginsKept DEF IndInv
<1>11. Removal'
  <2>1. CASE t = "worker"
    <3>1. pc'["worker"] = "idle"
      BY <1>4, <2>1
    <3>. QED
      BY <3>1 DEF Removal, Removing
  <2>2. CASE t = "slow"
    <3>1. "worker" \in Threads \ {t}
      BY <2>2, ThreadFacts
    <3>2. pc'["worker"] = pc["worker"] /\ row'["worker"] = row["worker"] /\ command' = command
      BY <1>4, <2>2, <3>1
    <3>3. \A c \in Clients : Trusted(c) => logged_in_user[c] # new_user[t]
      BY DEF IndInv, Logins, Adding
    <3>4. ASSUME NEW c \in Clients, Trusted(c), pc["worker"] \in {"first user", "delete user"}
          PROVE  item'[row["worker"]] = command.user \/ item'[row["worker"]] # logged_in_user[c]
      <4>1. item[row["worker"]] = command.user \/ item[row["worker"]] # logged_in_user[c]
        BY <3>4 DEF IndInv, Removal
      <4>2. row["worker"] \in Rows
        BY <3>4 DEF IndInv, WorkerStage, Removing
      <4>. QED
        BY <1>4, <3>3, <3>4, <4>1, <4>2
    <3>. QED
      BY <3>2, <3>4 DEF IndInv, Removal, Trusted
  <2>. QED
    BY <2>1, <2>2, ThreadFacts
<1>12. Apart'
  <2>. SUFFICES ASSUME collided' = {} PROVE Apart'
    BY DEF Apart
  <2>1. /\ collided = {} /\ used[row[t]] /\ item[row[t]] = Null
        /\ \A r \in Rows : ~used[r] => item[r] = Null
    BY DEF IndInv, Apart
  <2>2. \A s \in Threads : pc'[s] = "mark row" => ~used'[row'[s]]
    BY <1>5, <2>1 DEF IndInv, Apart, Adding, Finding
  <2>3. ASSUME NEW s \in Threads, pc'[s] = "fill row"
        PROVE  used'[row'[s]] /\ item'[row'[s]] = Null
    <3>1. s # t /\ pc[s] = "fill row" /\ row'[s] = row[s]
      BY <1>5, <2>3 DEF Adding
    <3>2. used[row[s]] /\ item[row[s]] = Null /\ row[s] \in Rows
      BY <2>1, <3>1, ThreadFacts DEF IndInv, Apart, WorkerStage, SlowStage, Adding, Finding
    <3>3. row["worker"] # row["slow"]
      <4>1. pc["worker"] = "fill row" /\ pc["slow"] = "fill row"
        BY <3>1, ThreadFacts
      <4>. QED
        BY <2>1, <4>1 DEF IndInv, Apart, Placing
    <3>4. row[s] # row[t]
      BY <3>1, <3>3, ThreadFacts
    <3>. QED
      BY <1>4, <3>1, <3>2, <3>4
  <2>4. ~(pc'["worker"] \in Placing /\ pc'["slow"] \in Placing)
    <3>1. pc'[t] \notin Placing
      BY <1>4 DEF Placing
    <3>. QED
      BY <3>1, ThreadFacts
  <2>5. \A r \in Rows : ~used'[r] => item'[r] = Null
    BY <1>4, <2>1
  <2>6. ASSUME pc'["worker"] \in Removing
        PROVE  /\ pc["worker"] = pc'["worker"] /\ row'["worker"] = row["worker"] /\ used[row["worker"]]
               /\ item'[row["worker"]] = item[row["worker"]] /\ pc'["slow"] # "fill row"
    <3>1. t = "slow"
      BY <1>4, <2>6, ThreadFacts DEF Removing
    <3>2. "worker" \in Threads \ {t}
      BY <3>1, ThreadFacts
    <3>3. pc'["worker"] = pc["worker"] /\ row'["worker"] = row["worker"] /\ pc'["slow"] # "fill row"
      BY <1>4, <3>1, <3>2
    <3>4. used[row["worker"]] /\ row["slow"] # row["worker"] /\ row["worker"] \in Rows
      BY <2>1, <2>6, <3>1, <3>3 DEF IndInv, Apart, WorkerStage
    <3>. QED
      BY <1>4, <3>1, <3>3, <3>4
  <2>7. /\ pc'["worker"] \in {"first user", "delete user", "clear row"} => item'[row'["worker"]] # Null
        /\ pc'["worker"] = "clear row" => item'[row'["worker"]] \notin heap'
        /\ pc'["worker"] = "clear row again" => item'[row'["worker"]] = Null
    <3>1. /\ pc["worker"] \in {"first user", "delete user", "clear row"} => item[row["worker"]] # Null
          /\ pc["worker"] = "clear row" => item[row["worker"]] \notin heap
          /\ pc["worker"] = "clear row again" => item[row["worker"]] = Null
      BY <2>1 DEF IndInv, Apart
    <3>2. SUFFICES ASSUME pc'["worker"] \in Removing
                   PROVE  /\ pc'["worker"] \in {"first user", "delete user", "clear row"} => item'[row'["worker"]] # Null
                          /\ pc'["worker"] = "clear row" => item'[row'["worker"]] \notin heap'
                          /\ pc'["worker"] = "clear row again" => item'[row'["worker"]] = Null
      BY DEF Removing
    <3>3. /\ pc'["worker"] = pc["worker"] /\ row'["worker"] = row["worker"]
          /\ item'[row["worker"]] = item[row["worker"]] /\ heap' = heap
      BY <2>6, <3>2
    <3>. QED
      BY <3>1, <3>3
  <2>. QED
    BY <2>2, <2>3, <2>4, <2>5, <2>6, <2>7 DEF Apart
<1>13. Found'
  <2>. SUFFICES ASSUME collided' = {}, NEW u \in heap'
                PROVE  \/ \E r \in Rows : used'[r] /\ item'[r] = u
                       \/ \E s \in Threads : pc'[s] \in Adding /\ new_user'[s] = u
    BY DEF Found
  <2>1. \/ \E r \in Rows : used[r] /\ item[r] = u
        \/ \E s \in Threads : pc[s] \in Adding /\ new_user[s] = u
    BY DEF IndInv, Found
  <2>2. item[row[t]] = Null /\ used[row[t]] /\ u # Null
    BY <1>1 DEF IndInv, Apart
  <2>3. CASE \E r \in Rows : used[r] /\ item[r] = u
    BY <1>4, <2>2, <2>3
  <2>4. CASE new_user[t] = u
    BY <1>2, <1>4, <2>2, <2>4
  <2>5. CASE \E s \in Threads \ {t} : pc[s] \in Adding /\ new_user[s] = u
    BY <1>4, <2>5
  <2>. QED
    BY <2>1, <2>3, <2>4, <2>5
<1>14. Faults'
  BY FaultsKept
<1>. QED
  BY <1>1, <1>3, <1>4, <1>6, <1>7, <1>8, <1>9, <1>10, <1>11, <1>12, <1>13, <1>14

LEMMA UserAddedStep ==
    ASSUME IndInv, ~fault, UserAdded
    PROVE  IndInv'
<1>. USE DEF At, Goto, user_vars, list_vars, login_vars, slow_vars
<1>. DEFINE t == "worker"
            next == "idle"
<1>1. /\ pc[t] = "fill row" /\ pc' = [pc EXCEPT ![t] = next]
      /\ item' = [item EXCEPT ![row[t]] = new_user[t]] /\ row' = [row EXCEPT ![t] = 1]
      /\ command' = NoCommand /\ new_user' = [new_user EXCEPT ![t] = Null]
      /\ UNCHANGED <<connection, logged_in_user, by, heap, userid, username, remote, used, collided,
                     slow_tasks, task, unseen, fault>>
  BY DEF UserAdded, FillRow
<1>2. /\ new_user \in [Threads -> Users \cup {Null}] /\ t \in Threads /\ "slow" \in Threads \ {t}
      /\ next \in {"idle", "log in"}
  BY ThreadFacts DEF IndInv, Types, TypeOK
<1>3. /\ new_user' \in [Threads -> Users \cup {Null}] /\ \A s \in Threads \ {t} : new_user'[s] = new_user[s]
  BY <1>1, <1>2
<1>4. /\ pc'[t] = next /\ row'[t] = 1 /\ pc'["slow"] = pc["slow"] /\ row'["slow"] = row["slow"]
      /\ item' \in [Rows -> Users \cup {Null}] /\ row' \in [Threads -> Rows \cup {MaxUsers + 1}]
      /\ Created' /\ Placed' /\ NullRows' /\ Twins' /\ Logins' /\ Removal' /\ Apart' /\ Found' /\ Faults'
  <2>1. t = "worker" /\ next = "idle" /\ t # "slow"
    OBVIOUS
  <2>. HIDE DEF t, next
  <2>. QED
    BY <1>1, <1>2, <1>3, <2>1, Filled
<1>5. Types'
  <2>1. TypeOK'
    BY <1>1, <1>3, <1>4 DEF IndInv, Types, TypeOK
  <2>2. pc' \in [Threads -> WorkerLabels \cup SlowLabels]
    BY <1>1 DEF IndInv, Types, WorkerLabels
  <2>3. pc'["worker"] \in WorkerLabels /\ pc'["slow"] \in SlowLabels
    BY <1>4 DEF IndInv, Types, WorkerLabels
  <2>. QED
    BY <1>1, <2>1, <2>2, <2>3, CommandTypes DEF IndInv, Types
<1>6. WorkerStage'
  BY <1>4 DEF WorkerStage, Searching, Removing, Adding, Finding
<1>7. SlowStage'
  BY <1>1, <1>2, <1>3, <1>4, SlowStageKept DEF IndInv
<1>. QED
  BY <1>4, <1>5, <1>6, <1>7 DEF IndInv

LEMMA RemoteUserAddedStep ==
    ASSUME IndInv, ~fault, RemoteUserAdded
    PROVE  IndInv'
<1>. USE DEF At, Goto, user_vars, list_vars, login_vars, slow_vars
<1>. DEFINE t == "slow"
            next == "log in"
<1>1. /\ pc[t] = "fill row" /\ pc' = [pc EXCEPT ![t] = next]
      /\ item' = [item EXCEPT ![row[t]] = new_user[t]] /\ row' = [row EXCEPT ![t] = 1]
      /\ command' = command /\ new_user' = new_user
      /\ UNCHANGED <<connection, logged_in_user, by, heap, userid, username, remote, used, collided,
                     slow_tasks, task, unseen, fault>>
  BY DEF RemoteUserAdded, FillRow
<1>2. /\ t \in Threads /\ "worker" \in Threads \ {t} /\ next \in {"idle", "log in"}
      /\ \A s \in Threads \ {t} : new_user'[s] = new_user[s]
  BY <1>1, ThreadFacts
<1>3. /\ pc'[t] = next /\ row'[t] = 1 /\ pc'["worker"] = pc["worker"] /\ row'["worker"] = row["worker"]
      /\ item' \in [Rows -> Users \cup {Null}] /\ row' \in [Threads -> Rows \cup {MaxUsers + 1}]
      /\ new_user[t] \in Users
      /\ Created' /\ Placed' /\ NullRows' /\ Twins' /\ Logins' /\ Removal' /\ Apart' /\ Found' /\ Faults'
  <2>1. t # "worker"
    OBVIOUS
  <2>. HIDE DEF t, next
  <2>. QED
    BY <1>1, <1>2, <2>1, Filled
<1>4. Types'
  <2>1. TypeOK'
    BY <1>1, <1>3 DEF IndInv, Types, TypeOK
  <2>2. pc' \in [Threads -> WorkerLabels \cup SlowLabels]
    BY <1>1 DEF IndInv, Types, SlowLabels
  <2>3. pc'["worker"] \in WorkerLabels /\ pc'["slow"] \in SlowLabels
    BY <1>3 DEF IndInv, Types, SlowLabels
  <2>. QED
    BY <1>1, <2>1, <2>2, <2>3 DEF IndInv, Types
<1>5. WorkerStage'
  BY <1>1, <1>3, WorkerStageKept DEF IndInv
<1>6. SlowStage'
  BY <1>1, <1>3 DEF IndInv, SlowStage, Adding, Finding
<1>. QED
  BY <1>3, <1>4, <1>5, <1>6 DEF IndInv

-----------------------------------------------------------------------------
(* A new user: nobody has its address yet.                                 *)
LEMMA Made ==
    ASSUME IndInv, ~fault, NEW t \in Threads, NEW id \in Ids, NEW name \in Names,
           pc[t] \in {"new user", "read url"}, pc' = [pc EXCEPT ![t] = "find row"],
           NewUser(t, id, name),
           UNCHANGED <<connection, logged_in_user, by, used, item, collided,
                       slow_tasks, task, command, row, unseen, fault>>
    PROVE  /\ pc'[t] = "find row" /\ \A s \in Threads \ {t} : pc'[s] = pc[s] /\ new_user'[s] = new_user[s]
           /\ new_user'[t] \in Users /\ username[new_user'[t]] = Null
           /\ userid'[new_user'[t]] = id /\ username'[new_user'[t]] = name
           /\ \A v \in Users \ {new_user'[t]} : userid'[v] = userid[v] /\ username'[v] = username[v]
           /\ remote' = IF t = "slow" THEN remote \cup {new_user'[t]} ELSE remote
           /\ Types' /\ Created' /\ Placed' /\ NullRows' /\ Logins' /\ Removal' /\ Apart' /\ Found' /\ Faults'
<1>1. PICK u \in Users :
         /\ username[u] = Null /\ heap' = heap \cup {u}
         /\ userid' = [userid EXCEPT ![u] = id] /\ username' = [username EXCEPT ![u] = name]
         /\ remote' = IF t = "slow" THEN remote \cup {u} ELSE remote
         /\ new_user' = [new_user EXCEPT ![t] = u]
  BY DEF NewUser
<1>2. /\ pc \in [Threads -> WorkerLabels \cup SlowLabels] /\ new_user \in [Threads -> Users \cup {Null}]
      /\ userid \in [Users -> Ids \cup {Null}] /\ username \in [Users -> Names \cup {Null}]
      /\ heap \subseteq Users /\ item \in [Rows -> Users \cup {Null}]
      /\ logged_in_user \in [Clients -> Users \cup {Null}]
      /\ pc["worker"] \in WorkerLabels /\ pc["slow"] \in SlowLabels
  BY DEF IndInv, Types, TypeOK
<1>3. /\ pc'[t] = "find row" /\ \A s \in Threads \ {t} : pc'[s] = pc[s] /\ new_user'[s] = new_user[s]
      /\ new_user'[t] = u /\ heap \subseteq heap' /\ u \in heap'
      /\ userid'[u] = id /\ username'[u] = name
      /\ \A v \in Users \ {u} : userid'[v] = userid[v] /\ username'[v] = username[v]
  BY <1>1, <1>2
<1>4. u # Null /\ name # Null
  BY ThreadFacts, AccountsAssumption
<1>5. /\ \A v \in heap : v \in Users /\ v # u
      /\ \A r \in Rows : item[r] # u
  BY <1>1, <1>2, <1>4 DEF IndInv, Created
<1>6. /\ \A s \in Threads : pc'[s] \in Adding => s = t \/ (s # t /\ pc[s] \in Adding /\ new_user'[s] = new_user[s])
      /\ \A s \in Threads : pc[s] \in Adding => s # t /\ pc'[s] = pc[s] /\ new_user'[s] = new_user[s]
      /\ \A s \in Threads : pc'[s] \in Adding \ {"find row"} => s # t /\ pc'[s] = pc[s]
      /\ pc["worker"] \in Removing => pc'["worker"] = pc["worker"]
      /\ pc'["worker"] # "find row" => pc'["worker"] = pc["worker"]
  BY <1>3, ThreadFacts DEF Adding, Finding, Removing
<1>7. Types'
  <2>1. /\ heap' \subseteq Users /\ userid' \in [Users -> Ids \cup {Null}]
        /\ username' \in [Users -> Names \cup {Null}] /\ new_user' \in [Threads -> Users \cup {Null}]
    BY <1>1, <1>2
  <2>2. TypeOK'
    BY <2>1 DEF IndInv, Types, TypeOK
  <2>3. pc' \in [Threads -> WorkerLabels \cup SlowLabels]
    BY <1>2 DEF WorkerLabels, Adding, Finding
  <2>4. pc'["worker"] \in WorkerLabels /\ pc'["slow"] \in SlowLabels
    BY <1>2, <1>3, ThreadFacts DEF WorkerLabels, SlowLabels, Adding, Finding
  <2>. QED
    BY <2>2, <2>3, <2>4 DEF IndInv, Types
<1>8. Created'
  <2>1. \A v \in heap' : username'[v] # Null
    <3>1. \A v \in heap : username[v] # Null
      BY DEF IndInv, Created
    <3>. QED
      BY <1>1, <1>3, <1>4, <1>5, <3>1
  <2>2. ASSUME NEW r \in Rows, item'[r] # Null PROVE username'[item'[r]] # Null
    <3>1. item[r] \in Users \ {u} /\ username[item[r]] # Null
      BY <1>2, <1>5, <2>2 DEF IndInv, Created
    <3>. QED
      BY <1>3, <3>1
  <2>3. \A r, s \in Rows : r # s /\ item'[r] = item'[s] => item'[r] = Null
    BY DEF IndInv, Created
  <2>4. ASSUME NEW s \in Threads, pc'[s] \in Adding
        PROVE  /\ new_user'[s] \in heap' /\ \A r \in Rows : item'[r] # new_user'[s]
               /\ \A q \in Threads \ {s} : pc'[q] \in Adding => new_user'[q] # new_user'[s]
    <3>1. \A q \in Threads \ {t} : pc'[q] \in Adding =>
             new_user'[q] \in heap /\ new_user'[q] # u /\ \A r \in Rows : item'[r] # new_user'[q]
      <4>1. SUFFICES ASSUME NEW q \in Threads \ {t}, pc'[q] \in Adding
                     PROVE  new_user'[q] \in heap /\ new_user'[q] # u /\ \A r \in Rows : item'[r] # new_user'[q]
        OBVIOUS
      <4>2. pc[q] \in Adding /\ new_user'[q] = new_user[q]
        BY <1>3, <4>1
      <4>3. new_user[q] \in heap /\ \A r \in Rows : item[r] # new_user[q]
        BY <4>2 DEF IndInv, Created
      <4>. QED
        BY <1>5, <4>2, <4>3
    <3>2. CASE s = t
      <4>1. /\ u \in heap' /\ \A r \in Rows : item'[r] # u
            /\ \A q \in Threads \ {t} : pc'[q] \in Adding => new_user'[q] # u
        BY <1>1, <1>5, <3>1
      <4>. QED
        BY <1>3, <3>2, <4>1
    <3>3. CASE s # t
      <4>1. \A q \in Threads \ {s} : q = t
        BY <3>3, ThreadFacts
      <4>2. new_user'[s] \in heap /\ new_user'[s] # u /\ \A r \in Rows : item'[r] # new_user'[s]
        BY <2>4, <3>1, <3>3
      <4>3. \A q \in Threads \ {s} : new_user'[q] # new_user'[s]
        BY <1>3, <4>1, <4>2
      <4>4. new_user'[s] \in heap'
        BY <1>3, <4>2
      <4>. QED
        BY <4>2, <4>3, <4>4
    <3>. QED
      BY <3>2, <3>3
  <2>5. ASSUME NEW r \in Rows, item'[r] # Null
        PROVE  item'[r] \in heap' \/ (pc'["worker"] = "clear row" /\ row'["worker"] = r)
    BY <1>1, <1>6, <2>5 DEF IndInv, Created, Removing
  <2>. QED
    BY <2>1, <2>2, <2>3, <2>4, <2>5 DEF Created
<1>9. Placed'
  <2>1. PICK place \in [Users -> Nat] : PlacedBy(place)
    BY DEF IndInv, Placed
  <2>2. \A v \in Users : username'[v] = Null => place[v] = 0
    BY <1>3, <1>4, <2>1 DEF PlacedBy
  <2>3. \A s \in Threads : pc'[s] \in Finding => place[new_user'[s]] = 0
    <3>1. place[u] = 0
      BY <1>1, <2>1 DEF PlacedBy
    <3>. QED
      BY <1>3, <2>1, <3>1 DEF PlacedBy
  <2>4. \A s \in Threads : pc'[s] \in {"test row", "mark row"} =>
           \A r \in Rows : r < row'[s] => \E v \in Users : place[v] = r
    <3>1. \A s \in Threads : pc'[s] \in {"test row", "mark row"} => pc[s] \in {"test row", "mark row"}
      BY <1>3
    <3>. QED
      BY <2>1, <3>1 DEF PlacedBy
  <2>5. \A r \in Rows : used'[r] => \E v \in Users : place[v] = r
    BY <2>1 DEF PlacedBy
  <2>. QED
    BY <2>1, <2>2, <2>3, <2>4, <2>5 DEF Placed, PlacedBy
<1>10. NullRows'
  BY <1>6, NullRowsKept DEF IndInv, Adding, Removing
<1>11. Logins'
  <2>1. ASSUME NEW c \in Clients, Trusted(c)
        PROVE  /\ logged_in_user[c] \in heap /\ connection[c] = "open" /\ logged_in_user[c] # u
               /\ \A s \in Threads : pc'[s] \in Adding => logged_in_user[c] # new_user'[s]
    <3>1. logged_in_user[c] \in heap /\ connection[c] = "open" /\ logged_in_user[c] # u
      BY <1>5, <2>1 DEF IndInv, Logins
    <3>2. \A s \in Threads : pc[s] \in Adding => logged_in_user[c] # new_user[s]
      BY <2>1 DEF IndInv, Logins
    <3>. QED
      BY <1>3, <1>6, <3>1, <3>2
  <2>2. /\ pc'["worker"] \in {"login", "compare password"} => connection[command.client] = "open"
        /\ pc'["worker"] = "compare password" =>
              /\ command.user \in heap
              /\ \A s \in Threads : pc'[s] \in Adding => command.user # new_user'[s]
    <3>1. pc'["worker"] \in {"login", "compare password"} => connection[command.client] = "open"
      BY <1>6 DEF IndInv, Logins
    <3>2. ASSUME pc'["worker"] = "compare password"
          PROVE  /\ command.user \in heap
                 /\ \A s \in Threads : pc'[s] \in Adding => command.user # new_user'[s]
      <4>1. pc["worker"] = "compare password"
        BY <1>6, <3>2
      <4>2. command.user \in heap /\ \A s \in Threads : pc[s] \in Adding => command.user # new_user[s]
        BY <4>1 DEF IndInv, Logins
      <4>. QED
        BY <1>3, <1>5, <1>6, <4>2
    <3>. QED
      BY <3>1, <3>2
  <2>3. heap \subseteq heap'
    BY <1>1
  <2>. QED
    BY <2>1, <2>2, <2>3 DEF Logins, Trusted
<1>12. Removal'
  <2>1. ASSUME NEW c \in Clients, Trusted(c)
        PROVE  userid'[logged_in_user[c]] = userid[logged_in_user[c]]
    <3>1. logged_in_user[c] \in Users \ {u}
      BY <1>5, <2>1 DEF IndInv, Logins
    <3>. QED
      BY <1>3, <3>1
  <2>2. pc["worker"] \in Removing => userid'[command.user] = userid[command.user]
    BY <1>1, <1>3 DEF IndInv, WorkerStage
  <2>. QED
    BY <1>6, <2>1, <2>2 DEF IndInv, Removal, Trusted, Removing
<1>13. Apart'
  <2>. SUFFICES ASSUME collided' = {} PROVE Apart'
    BY DEF Apart
  <2>1. /\ \A s \in Threads : pc[s] = "mark row" => ~used[row[s]]
        /\ \A s \in Threads : pc[s] = "fill row" => used[row[s]] /\ item[row[s]] = Null
        /\ pc["worker"] \in Placing /\ pc["slow"] \in Placing => row["worker"] # row["slow"]
        /\ \A r \in Rows : ~used[r] => item[r] = Null
        /\ pc["worker"] \in Removing =>
              used[row["worker"]] /\ (pc["slow"] = "fill row" => row["slow"] # row["worker"])
        /\ pc["worker"] \in {"first user", "delete user", "clear row"} => item[row["worker"]] # Null
        /\ pc["worker"] = "clear row" => item[row["worker"]] \notin heap
        /\ pc["worker"] = "clear row again" => item[row["worker"]] = Null
    BY DEF IndInv, Apart
  <2>2. \A s \in Threads : pc'[s] \in Placing => pc'[s] = pc[s]
    BY <1>6 DEF Placing, Adding, Finding
  <2>3. pc'["worker"] \in Removing => pc'["worker"] = pc["worker"]
    BY <1>6 DEF Removing
  <2>4. pc'["worker"] = "clear row" => item[row["worker"]] \notin heap'
    <3>1. pc["worker"] = "clear row" => row["worker"] \in Rows
      BY DEF IndInv, WorkerStage, Removing
    <3>. QED
      BY <1>1, <1>5, <2>1, <2>3, <3>1 DEF Removing
  <2>5. /\ \A s \in Threads : pc'[s] = "mark row" => ~used'[row'[s]]
        /\ \A s \in Threads : pc'[s] = "fill row" => used'[row'[s]] /\ item'[row'[s]] = Null
        /\ pc'["worker"] \in Placing /\ pc'["slow"] \in Placing => row'["worker"] # row'["slow"]
    BY <2>1, <2>2, ThreadFacts DEF Placing
  <2>6. /\ pc'["worker"] \in Removing =>
              used'[row'["worker"]] /\ (pc'["slow"] = "fill row" => row'["slow"] # row'["worker"])
        /\ pc'["worker"] \in {"first user", "delete user", "clear row"} => item'[row'["worker"]] # Null
        /\ pc'["worker"] = "clear row again" => item'[row'["worker"]] = Null
    BY <2>1, <2>2, <2>3, ThreadFacts DEF Placing, Removing
  <2>. QED
    BY <2>1, <2>4, <2>5, <2>6 DEF Apart
<1>14. Found'
  <2>. SUFFICES ASSUME collided' = {}, NEW v \in heap'
                PROVE  \/ \E r \in Rows : used'[r] /\ item'[r] = v
                       \/ \E s \in Threads : pc'[s] \in Adding /\ new_user'[s] = v
    BY DEF Found
  <2>1. CASE v = u
    BY <1>3, <2>1 DEF Adding, Finding
  <2>2. CASE v \in heap
    BY <1>6, <2>2 DEF IndInv, Found
  <2>. QED
    BY <1>1, <2>1, <2>2
<1>15. Faults'
  BY FaultsKept
<1>. QED
  BY <1>1, <1>3, <1>7, <1>8, <1>9, <1>10, <1>11, <1>12, <1>13, <1>14, <1>15

LEMMA NewUserStep ==
    ASSUME IndInv, ~fault, AddUser
    PROVE  IndInv'
<1>. USE DEF At, Goto, user_vars, list_vars, login_vars, slow_vars
<1>. DEFINE t == "worker"
            u == new_user'["worker"]
<1>1. /\ pc[t] = "new user" /\ pc' = [pc EXCEPT ![t] = "find row"] /\ NewUser(t, command.id, command.name)
      /\ UNCHANGED <<connection, logged_in_user, by, used, item, collided,
                     slow_tasks, task, command, row, unseen, fault>>
  BY DEF AddUser
<1>2. command.id \in Ids /\ command.name \in Names /\ t \in Threads /\ "slow" \in Threads \ {t}
  BY <1>1, ThreadFacts DEF IndInv, WorkerStage, Searching
<1>3. /\ pc'["worker"] = "find row" /\ pc'["slow"] = pc["slow"] /\ new_user'["slow"] = new_user["slow"]
      /\ u \in Users /\ username[u] = Null /\ userid'[u] = command.id /\ username'[u] = command.name
      /\ \A v \in Users \ {u} : userid'[v] = userid[v] /\ username'[v] = username[v]
      /\ remote' = remote
      /\ Types' /\ Created' /\ Placed' /\ NullRows' /\ Logins' /\ Removal' /\ Apart' /\ Found' /\ Faults'
  <2>1. t # "slow" /\ pc[t] \in {"new user", "read url"}
    BY <1>1
  <2>. HIDE DEF t
  <2>2. /\ pc'[t] = "find row" /\ \A s \in Threads \ {t} : pc'[s] = pc[s] /\ new_user'[s] = new_user[s]
        /\ new_user'[t] \in Users /\ username[new_user'[t]] = Null
        /\ userid'[new_user'[t]] = command.id /\ username'[new_user'[t]] = command.name
        /\ \A v \in Users \ {new_user'[t]} : userid'[v] = userid[v] /\ username'[v] = username[v]
        /\ remote' = IF t = "slow" THEN remote \cup {new_user'[t]} ELSE remote
        /\ Types' /\ Created' /\ Placed' /\ NullRows' /\ Logins' /\ Removal' /\ Apart' /\ Found' /\ Faults'
    BY <1>1, <1>2, <2>1, Made
  <2>. QED
    BY <1>2, <2>1, <2>2 DEF t
<1>4. WorkerStage'
  BY <1>3 DEF WorkerStage, Searching, Removing, Adding
<1>5. SlowStage'
  BY <1>1, <1>3, SlowStageKept DEF IndInv
(* No user of the worker has this name or this id, which it has looked for. *)
<1>6. Twins'
  <2>1. ASSUME NEW r \in Rows, Own(r)
        PROVE  /\ item[r] \in Users \ {u} /\ used[r]
               /\ userid[item[r]] # command.id /\ username[item[r]] # command.name
    <3>1. item[r] \in Users /\ username[item[r]] # Null
      BY <2>1 DEF IndInv, Types, TypeOK, Created, Own
    <3>2. used[r] /\ userid[item[r]] # command.id /\ username[item[r]] # command.name
      BY <1>1, <2>1 DEF IndInv, Twins
    <3>. QED
      BY <1>3, <3>1, <3>2
  <2>2. \A r, s \in Rows : r # s /\ Own(r) /\ Own(s) =>
           userid[item[r]] # userid[item[s]] /\ username[item[r]] # username[item[s]]
    BY DEF IndInv, Twins
  <2>. HIDE DEF u
  <2>3. \A r \in Rows : Own(r) => /\ userid'[item[r]] = userid[item[r]] /\ userid'[item[r]] # userid'[u]
                                  /\ username'[item[r]] = username[item[r]] /\ username'[item[r]] # username'[u]
    BY <1>3, <2>1
  <2>4. \A r, s \in Rows : r # s /\ Own(r) /\ Own(s) =>
           userid'[item[r]] # userid'[item[s]] /\ username'[item[r]] # username'[item[s]]
    BY <2>2, <2>3
  <2>. QED
    BY <1>1, <1>3, <2>1, <2>3, <2>4 DEF Twins, Own, Adding, Finding, u
<1>. QED
  BY <1>3, <1>4, <1>5, <1>6 DEF IndInv

LEMMA LoginAcceptedStep ==
    ASSUME IndInv, ~fault, NEW result \in Results, NEW id \in Ids, LoginAccepted(result, id)
    PROVE  IndInv'
<1>. USE DEF At, Goto, user_vars, list_vars, login_vars, slow_vars
<1>. DEFINE t == "slow"
            u == new_user'["slow"]
<1>1. /\ pc[t] = "read url" /\ pc' = [pc EXCEPT ![t] = "find row"] /\ NewUser(t, id, task.name)
      /\ UNCHANGED <<connection, logged_in_user, by, used, item, collided,
                     slow_tasks, task, command, row, unseen, fault>>
  BY DEF LoginAccepted
<1>2. task.client \in Clients /\ task.name \in Names /\ t \in Threads /\ "worker" \in Threads \ {t}
  BY <1>1, ThreadFacts DEF IndInv, SlowStage
<1>3. /\ pc'["slow"] = "find row" /\ pc'["worker"] = pc["worker"] /\ new_user'["worker"] = new_user["worker"]
      /\ u \in Users /\ username[u] = Null /\ username'[u] = task.name
      /\ \A v \in Users \ {u} : userid'[v] = userid[v] /\ username'[v] = username[v]
      /\ remote' = remote \cup {u}
      /\ Types' /\ Created' /\ Placed' /\ NullRows' /\ Logins' /\ Removal' /\ Apart' /\ Found' /\ Faults'
  <2>1. pc[t] \in {"new user", "read url"}
    BY <1>1
  <2>. HIDE DEF t
  <2>2. /\ pc'[t] = "find row" /\ \A s \in Threads \ {t} : pc'[s] = pc[s] /\ new_user'[s] = new_user[s]
        /\ new_user'[t] \in Users /\ username[new_user'[t]] = Null
        /\ userid'[new_user'[t]] = id /\ username'[new_user'[t]] = task.name
        /\ \A v \in Users \ {new_user'[t]} : userid'[v] = userid[v] /\ username'[v] = username[v]
        /\ remote' = IF t = "slow" THEN remote \cup {new_user'[t]} ELSE remote
        /\ Types' /\ Created' /\ Placed' /\ NullRows' /\ Logins' /\ Removal' /\ Apart' /\ Found' /\ Faults'
    BY <1>1, <1>2, <2>1, Made
  <2>. QED
    BY <1>2, <2>1, <2>2 DEF t
<1>4. WorkerStage'
  <2>1. \A v \in Users : username[v] # Null => username'[v] # Null
    BY <1>3
  <2>. QED
    BY <1>1, <1>3, <2>1, WorkerStageKept DEF IndInv
<1>5. SlowStage'
  BY <1>1, <1>2, <1>3 DEF SlowStage, Adding, Finding
<1>6. Twins'
  <2>1. ASSUME NEW r \in Rows, item[r] # Null
        PROVE  /\ item[r] \in Users \ {u}
               /\ userid'[item[r]] = userid[item[r]] /\ username'[item[r]] = username[item[r]]
    <3>1. item[r] \in Users /\ username[item[r]] # Null
      BY <2>1 DEF IndInv, Types, TypeOK, Created
    <3>. QED
      BY <1>3, <3>1
  <2>2. pc["worker"] \in Adding => /\ userid'[new_user["worker"]] = userid[new_user["worker"]]
                                   /\ username'[new_user["worker"]] = username[new_user["worker"]]
    <3>1. pc["worker"] \in Adding => new_user["worker"] \in Users /\ username[new_user["worker"]] # Null
      BY ThreadFacts DEF IndInv, Types, TypeOK, Created
    <3>. QED
      BY <1>3, <3>1
  <2>. HIDE DEF u
  <2>3. \A r \in Rows : item[r] # Null /\ item[r] \notin remote' <=> Own(r)
    BY <1>3, <2>1 DEF Own
  <2>. DEFINE OwnNext(r) == item'[r] # Null /\ item'[r] \notin remote'
  <2>4. \A r \in Rows : OwnNext(r) => Own(r)
    BY <1>1, <2>3
  <2>5. \A r \in Rows : Own(r) => item[r] # Null
    BY DEF Own
  <2>. HIDE DEF OwnNext
  <2>6. ASSUME NEW r \in Rows, OwnNext(r)
        PROVE  /\ used'[r]
               /\ pc'["worker"] = "find id" /\ r < row'["worker"] => userid'[item'[r]] # command'.id
               /\ pc'["worker"] \in {"find name", "new user"} => userid'[item'[r]] # command'.id
               /\ pc'["worker"] = "find name" /\ r < row'["worker"] => username'[item'[r]] # command'.name
               /\ pc'["worker"] = "new user" => username'[item'[r]] # command'.name
               /\ pc'["worker"] \in Adding =>
                     /\ userid'[item'[r]] # userid'[new_user'["worker"]]
                     /\ username'[item'[r]] # username'[new_user'["worker"]]
    <3>1. Own(r) /\ item[r] # Null
      BY <2>4, <2>5, <2>6
    <3>2. /\ used[r]
          /\ pc["worker"] = "find id" /\ r < row["worker"] => userid[item[r]] # command.id
          /\ pc["worker"] \in {"find name", "new user"} => userid[item[r]] # command.id
          /\ pc["worker"] = "find name" /\ r < row["worker"] => username[item[r]] # command.name
          /\ pc["worker"] = "new user" => username[item[r]] # command.name
          /\ pc["worker"] \in Adding =>
                /\ userid[item[r]] # userid[new_user["worker"]]
                /\ username[item[r]] # username[new_user["worker"]]
      BY <3>1 DEF IndInv, Twins
    <3>. QED
      BY <1>1, <1>3, <2>1, <2>2, <3>1, <3>2
  <2>7. ASSUME NEW r \in Rows, NEW s \in Rows, r # s, OwnNext(r), OwnNext(s)
        PROVE  userid'[item'[r]] # userid'[item'[s]] /\ username'[item'[r]] # username'[item'[s]]
    <3>1. Own(r) /\ Own(s) /\ item[r] # Null /\ item[s] # Null
      BY <2>4, <2>5, <2>7
    <3>2. userid[item[r]] # userid[item[s]] /\ username[item[r]] # username[item[s]]
      BY <2>7, <3>1 DEF IndInv, Twins
    <3>. QED
      BY <1>1, <2>1, <3>1, <3>2
  <2>8. pc'["worker"] = "fill row" => used'[row'["worker"]]
    BY <1>1, <1>3 DEF IndInv, Twins
  <2>9. pc'["worker"] = "clear row again" => ~OwnNext(row'["worker"])
    <3>1. pc["worker"] = "clear row again" => row["worker"] \in Rows /\ ~Own(row["worker"])
      BY DEF IndInv, WorkerStage, Removing, Twins
    <3>. QED
      BY <1>1, <1>3, <2>4, <3>1
  <2>10. \A r, s \in Rows : r # s /\ OwnNext(r) /\ OwnNext(s) =>
            userid'[item'[r]] # userid'[item'[s]] /\ username'[item'[r]] # username'[item'[s]]
    BY <2>7
  <2>. QED
    BY ONLY <2>6, <2>8, <2>9, <2>10 DEF Twins, Own, OwnNext
<1>. QED
  BY <1>3, <1>4, <1>5, <1>6 DEF IndInv

-----------------------------------------------------------------------------
(* The worker logs a connection in: Logins speaks of what it read before.  *)
LEMMA ComparePasswordStep ==
    ASSUME IndInv, ~fault, NEW right \in BOOLEAN, ComparePassword(right)
    PROVE  IndInv'
<1>. USE DEF At, Goto, user_vars, list_vars, login_vars, slow_vars
<1>. DEFINE c == command.client
<1>1. /\ pc["worker"] = "compare password" /\ pc' = [pc EXCEPT !["worker"] = "idle"]
      /\ command' = NoCommand
      /\ \/ /\ logged_in_user' = [logged_in_user EXCEPT ![c] = command.user]
            /\ by' = [by EXCEPT ![c] = "worker"]
         \/ logged_in_user' = logged_in_user /\ by' = by
      /\ UNCHANGED <<connection, heap, userid, username, remote, used, item, collided,
                     slow_tasks, task, row, new_user, unseen, fault>>
  BY DEF ComparePassword, Done
<1>2. /\ c \in Clients /\ command.user \in Users /\ row["worker"] = 1
      /\ command.user \in heap /\ connection[c] = "open"
      /\ \A t \in Threads : pc[t] \in Adding => command.user # new_user[t]
  BY <1>1 DEF IndInv, WorkerStage, Logins
<1>3. /\ pc \in [Threads -> WorkerLabels \cup SlowLabels]
      /\ logged_in_user \in [Clients -> Users \cup {Null}]
      /\ by \in [Clients -> {"none", "worker", "slow"}]
      /\ pc["worker"] \in WorkerLabels /\ pc["slow"] \in SlowLabels
  BY DEF IndInv, Types, TypeOK
<1>4. pc'["worker"] = "idle" /\ pc'["slow"] = pc["slow"]
  BY <1>1, <1>3, ThreadFacts
<1>5. /\ logged_in_user' \in [Clients -> Users \cup {Null}]
      /\ by' \in [Clients -> {"none", "worker", "slow"}]
  BY <1>1, <1>2, <1>3
<1>6. Types'
  <2>1. TypeOK'
    BY <1>1, <1>5 DEF IndInv, Types, TypeOK
  <2>2. pc' \in [Threads -> WorkerLabels \cup SlowLabels]
    BY <1>1, <1>3 DEF WorkerLabels
  <2>3. pc'["worker"] \in WorkerLabels /\ pc'["slow"] \in SlowLabels
    BY <1>3, <1>4 DEF WorkerLabels
  <2>. QED
    BY <1>1, <1>5, <2>1, <2>2, <2>3, CommandTypes DEF IndInv, Types
<1>7. /\ \A s \in Threads : pc'[s] \in Adding => pc[s] \in Adding /\ pc'[s] = pc[s]
      /\ \A s \in Threads : pc[s] \in Adding => pc'[s] \in Adding /\ pc'[s] = pc[s]
  BY <1>1, <1>4, ThreadFacts DEF Adding, Finding
<1>8. WorkerStage'
  BY <1>1, <1>2, <1>4 DEF WorkerStage, Searching, Removing, Adding, Finding
<1>9. SlowStage'
  BY <1>1, <1>4, SlowStageKept DEF IndInv
<1>10. Created'
  BY <1>1, <1>7, CreatedKept DEF IndInv
<1>11. Placed'
  BY <1>1, <1>7, PlacedKept DEF IndInv, Adding
<1>12. NullRows'
  BY <1>1, <1>7, NullRowsKept DEF IndInv, Adding
<1>13. Twins'
  BY <1>1, <1>4, TwinsKept DEF IndInv, Searching, Adding, Finding
<1>14. Logins'
  <2>1. ASSUME NEW d \in Clients, by'[d] # "slow", logged_in_user'[d] # Null
        PROVE  /\ logged_in_user'[d] \in heap /\ connection[d] = "open"
               /\ \A t \in Threads : pc[t] \in Adding => logged_in_user'[d] # new_user[t]
    <3>1. CASE logged_in_user'[d] = logged_in_user[d] /\ by'[d] = by[d]
      BY <2>1, <3>1 DEF IndInv, Logins, Trusted
    <3>2. CASE d = c /\ logged_in_user'[d] = command.user
      BY <1>2, <3>2
    <3>. QED
      BY <1>1, <1>3, <3>1, <3>2
  <2>. QED
    BY <1>1, <1>4, <1>7, <2>1 DEF Logins, Trusted
<1>15. Removal'
  BY <1>4 DEF Removal, Removing
<1>16. Apart'
  <2>1. \A s \in Threads : pc'[s] \in Placing => pc'[s] = pc[s] /\ row'[s] = row[s]
    BY <1>1, <1>4, ThreadFacts DEF Placing
  <2>. QED
    BY <1>1, <1>4, <2>1, ApartKept DEF IndInv, Removing
<1>17. Found'
  BY <1>1, <1>7, FoundKept DEF IndInv
<1>18. Faults'
  BY <1>1, FaultsKept
<1>. QED
  BY <1>6, <1>8, <1>9, <1>10, <1>11, <1>12, <1>13, <1>14, <1>15, <1>16, <1>17, <1>18 DEF IndInv

(* removeuser: the user of the row is deleted, and nobody whom the worker  *)
(* logged in is this user.                                                 *)
LEMMA DeleteUserStep ==
    ASSUME IndInv, ~fault, DeleteUser
    PROVE  IndInv'
<1>. USE DEF At, Goto, user_vars, list_vars, login_vars, slow_vars
<1>. DEFINE u == item[row["worker"]]
<1>1. /\ pc["worker"] = "delete user" /\ pc' = [pc EXCEPT !["worker"] = "clear row"]
      /\ heap' = heap \ {u}
      /\ UNCHANGED <<connection, logged_in_user, by, userid, username, remote, used, item, collided,
                     slow_tasks, task, command, row, new_user, unseen, fault>>
  BY DEF DeleteUser
<1>2. /\ pc \in [Threads -> WorkerLabels \cup SlowLabels]
      /\ pc["worker"] \in WorkerLabels /\ pc["slow"] \in SlowLabels
      /\ row["worker"] \in Rows
  BY <1>1 DEF IndInv, Types, WorkerStage, Removing
<1>3. pc'["worker"] = "clear row" /\ pc'["slow"] = pc["slow"]
  BY <1>1, <1>2, ThreadFacts
<1>4. Types'
  <2>1. TypeOK'
    BY <1>1 DEF IndInv, Types, TypeOK
  <2>2. pc' \in [Threads -> WorkerLabels \cup SlowLabels]
    BY <1>1, <1>2 DEF WorkerLabels, Removing
  <2>3. pc'["worker"] \in WorkerLabels /\ pc'["slow"] \in SlowLabels
    BY <1>2, <1>3 DEF WorkerLabels, Removing
  <2>. QED
    BY <1>1, <2>1, <2>2, <2>3 DEF IndInv, Types
<1>5. /\ \A s \in Threads : pc'[s] \in Adding => pc[s] \in Adding /\ pc'[s] = pc[s]
      /\ \A s \in Threads : pc[s] \in Adding => pc'[s] \in Adding /\ pc'[s] = pc[s]
  BY <1>1, <1>3, ThreadFacts DEF Adding, Finding
<1>6. WorkerStage'
  BY <1>1, <1>2, <1>3 DEF IndInv, WorkerStage, Searching, Removing, Adding, Finding
<1>7. SlowStage'
  BY <1>1, <1>3, SlowStageKept DEF IndInv
<1>8. Created'
  <2>1. ASSUME NEW s \in Threads, pc'[s] \in Adding
        PROVE  /\ new_user'[s] \in heap'
               /\ \A r \in Rows : item'[r] # new_user'[s]
               /\ \A q \in Threads \ {s} : pc'[q] \in Adding => new_user'[q] # new_user'[s]
    <3>1. /\ new_user[s] \in heap /\ \A r \in Rows : item[r] # new_user[s]
          /\ \A q \in Threads \ {s} : pc[q] \in Adding => new_user[q] # new_user[s]
      BY <1>5, <2>1 DEF IndInv, Created
    <3>. QED
      BY <1>1, <1>2, <1>5, <3>1
  <2>2. ASSUME NEW r \in Rows, item[r] # Null
        PROVE  item[r] \in heap' \/ r = row["worker"]
    <3>1. item[r] \in heap
      BY <1>1, <2>2 DEF IndInv, Created
    <3>2. r # row["worker"] => item[r] # u
      BY <1>2, <2>2 DEF IndInv, Created
    <3>. QED
      BY <1>1, <3>1, <3>2
  <2>3. heap' \subseteq heap
    BY <1>1
  <2>4. /\ \A v \in heap : username[v] # Null
        /\ \A r \in Rows : item[r] # Null => username[item[r]] # Null
        /\ \A r, s \in Rows : r # s /\ item[r] = item[s] => item[r] = Null
    BY DEF IndInv, Created
  <2>. QED
    BY <1>1, <1>3, <2>1, <2>2, <2>3, <2>4 DEF Created
<1>9. Placed'
  BY <1>1, <1>5, PlacedKept DEF IndInv, Adding
<1>10. NullRows'
  BY <1>1, <1>5, NullRowsKept DEF IndInv, Adding
<1>11. Twins'
  BY <1>1, <1>3, TwinsKept DEF IndInv, Searching, Adding, Finding
<1>12. Logins'
  <2>1. ASSUME NEW c \in Clients, Trusted(c)
        PROVE  /\ logged_in_user[c] \in heap' /\ connection[c] = "open"
               /\ \A t \in Threads : pc[t] \in Adding => logged_in_user[c] # new_user[t]
    <3>1. /\ logged_in_user[c] \in heap /\ connection[c] = "open"
          /\ \A t \in Threads : pc[t] \in Adding => logged_in_user[c] # new_user[t]
      BY <2>1 DEF IndInv, Logins
    <3>2. /\ userid[logged_in_user[c]] # command.id /\ userid[command.user] = command.id
          /\ u = command.user \/ u # logged_in_user[c]
      BY <1>1, <2>1 DEF IndInv, Removal, Removing
    <3>3. logged_in_user[c] # u
      BY <3>2
    <3>. QED
      BY <1>1, <3>1, <3>3
  <2>. QED
    BY <1>1, <1>3, <1>5, <2>1 DEF Logins, Trusted
<1>13. Removal'
  BY <1>1, <1>3 DEF IndInv, Removal, Trusted, Removing
<1>14. Apart'
  <2>. SUFFICES ASSUME collided' = {} PROVE Apart'
    BY DEF Apart
  <2>1. /\ \A s \in Threads : pc'[s] \in Placing => pc'[s] = pc[s]
        /\ pc'["worker"] \notin Placing
    BY <1>1, <1>3, ThreadFacts DEF Placing
  <2>2. u \notin heap'
    BY <1>1
  <2>. QED
    BY <1>1, <1>3, <2>1, <2>2, ThreadFacts DEF IndInv, Apart, Placing, Removing
<1>15. Found'
  <2>1. heap' \subseteq heap
    BY <1>1
  <2>. QED
    BY <1>1, <1>5, <2>1 DEF IndInv, Found
<1>16. Faults'
  BY <1>1, FaultsKept
<1>. QED
  BY <1>4, <1>6, <1>7, <1>8, <1>9, <1>10, <1>11, <1>12, <1>13, <1>14, <1>15, <1>16 DEF IndInv

LEMMA ClearFirstStep ==
    ASSUME IndInv, ~fault, ClearFirst
    PROVE  IndInv'
<1>. USE DEF At, Goto, user_vars, list_vars, login_vars, slow_vars
<1>. DEFINE q == row["worker"]
<1>1. /\ pc["worker"] = "clear row" /\ pc' = [pc EXCEPT !["worker"] = "clear row again"]
      /\ item' = [item EXCEPT ![q] = Null]
      /\ UNCHANGED <<connection, logged_in_user, by, heap, userid, username, remote, used, collided,
                     slow_tasks, task, command, row, new_user, unseen, fault>>
  BY DEF ClearFirst, Clear, ItemCleared
<1>2. /\ pc \in [Threads -> WorkerLabels \cup SlowLabels]
      /\ pc["worker"] \in WorkerLabels /\ pc["slow"] \in SlowLabels
      /\ item \in [Rows -> Users \cup {Null}] /\ q \in Rows
  BY <1>1 DEF IndInv, Types, TypeOK, WorkerStage, Removing
<1>3. /\ pc'["worker"] = "clear row again" /\ pc'["slow"] = pc["slow"]
      /\ item'[q] = Null /\ \A r \in Rows \ {q} : item'[r] = item[r]
      /\ item' \in [Rows -> Users \cup {Null}]
  BY <1>1, <1>2, ThreadFacts
<1>4. Types'
  <2>1. TypeOK'
    BY <1>1, <1>3 DEF IndInv, Types, TypeOK
  <2>2. pc' \in [Threads -> WorkerLabels \cup SlowLabels]
    BY <1>1, <1>2 DEF WorkerLabels, Removing
  <2>3. pc'["worker"] \in WorkerLabels /\ pc'["slow"] \in SlowLabels
    BY <1>2, <1>3 DEF WorkerLabels, Removing
  <2>. QED
    BY <1>1, <2>1, <2>2, <2>3 DEF IndInv, Types
<1>5. /\ \A s \in Threads : pc'[s] \in Adding => pc[s] \in Adding /\ pc'[s] = pc[s]
      /\ \A s \in Threads : pc[s] \in Adding => pc'[s] \in Adding /\ pc'[s] = pc[s]
  BY <1>1, <1>3, ThreadFacts DEF Adding, Finding
<1>6. WorkerStage'
  BY <1>1, <1>2, <1>3 DEF IndInv, WorkerStage, Searching, Removing, Adding, Finding
<1>7. SlowStage'
  BY <1>1, <1>3, SlowStageKept DEF IndInv
<1>8. Created'
  <2>1. \A r \in Rows : item'[r] # Null => item'[r] = item[r] /\ r # q
    BY <1>3
  <2>2. /\ \A v \in heap : username[v] # Null
        /\ \A r \in Rows : item[r] # Null => username[item[r]] # Null
        /\ \A r, s \in Rows : r # s /\ item[r] = item[s] => item[r] = Null
        /\ \A r \in Rows : item[r] # Null => item[r] \in heap \/ r = q
    BY <1>1 DEF IndInv, Created
  <2>3. \A r, s \in Rows : r # s /\ item'[r] = item'[s] => item'[r] = Null
    BY <2>1, <2>2
  <2>4. ASSUME NEW s \in Threads, pc'[s] \in Adding
        PROVE  /\ new_user[s] \in heap /\ \A r \in Rows : item'[r] # new_user[s]
               /\ \A p \in Threads \ {s} : pc'[p] \in Adding => new_user[p] # new_user[s]
    <3>1. /\ new_user[s] \in heap /\ \A r \in Rows : item[r] # new_user[s]
          /\ \A p \in Threads \ {s} : pc[p] \in Adding => new_user[p] # new_user[s]
      BY <1>5, <2>4 DEF IndInv, Created
    <3>2. new_user[s] # Null
      BY <3>1, ThreadFacts DEF IndInv, Types, TypeOK
    <3>. QED
      BY <1>3, <1>5, <3>1, <3>2
  <2>5. heap' = heap /\ new_user' = new_user /\ username' = username
    BY <1>1
  <2>6. ASSUME NEW r \in Rows, item'[r] # Null
        PROVE  username'[item'[r]] # Null /\ item'[r] \in heap'
    <3>1. item'[r] = item[r] /\ r # q
      BY <2>1, <2>6
    <3>2. username[item[r]] # Null /\ item[r] \in heap
      BY <2>2, <2>6, <3>1
    <3>. QED
      BY <2>5, <3>1, <3>2
  <2>. QED
    BY <2>2, <2>3, <2>4, <2>5, <2>6 DEF Created
<1>9. Placed'
  BY <1>1, <1>5, PlacedKept DEF IndInv, Adding
<1>10. NullRows'
  <2>1. SUFFICES ASSUME NEW r \in Rows, used'[r], item'[r] = Null
                 PROVE  \/ \E s \in Threads : pc'[s] = "fill row" /\ row'[s] = r
                        \/ pc'["worker"] = "clear row again" /\ row'["worker"] = r
    BY DEF NullRows
  <2>2. CASE r = q
    BY <1>1, <1>3, <2>2
  <2>3. CASE r # q
    <3>1. \E s \in Threads : pc[s] = "fill row" /\ row[s] = r
      BY <1>1, <1>3, <2>1, <2>3 DEF IndInv, NullRows
    <3>2. \A s \in Threads : pc[s] = "fill row" => pc'[s] = "fill row"
      BY <1>5 DEF Adding
    <3>. QED
      BY <1>1, <3>1, <3>2
  <2>. QED
    BY <2>2, <2>3
<1>11. Twins'
  <2>. DEFINE OwnNext(r) == item'[r] # Null /\ item'[r] \notin remote'
  <2>1. \A r \in Rows : OwnNext(r) => Own(r) /\ item'[r] = item[r]
    BY <1>1, <1>3 DEF Own
  <2>2. ~OwnNext(row'["worker"])
    BY <1>1, <1>3
  <2>. HIDE DEF OwnNext
  <2>3. \A r \in Rows : OwnNext(r) => used'[r]
    BY <1>1, <2>1 DEF IndInv, Twins
  <2>4. ASSUME NEW r \in Rows, NEW s \in Rows, r # s, OwnNext(r), OwnNext(s)
        PROVE  userid'[item'[r]] # userid'[item'[s]] /\ username'[item'[r]] # username'[item'[s]]
    <3>1. Own(r) /\ Own(s) /\ item'[r] = item[r] /\ item'[s] = item[s]
      BY <2>1, <2>4
    <3>2. userid[item[r]] # userid[item[s]] /\ username[item[r]] # username[item[s]]
      BY <2>4, <3>1 DEF IndInv, Twins
    <3>. QED
      BY <1>1, <3>1, <3>2
  <2>5. pc'["worker"] \notin Adding \cup Searching /\ pc'["worker"] # "fill row"
    BY <1>3 DEF Adding, Finding, Searching
  <2>. QED
    BY <2>2, <2>3, <2>4, <2>5 DEF Twins, Own, OwnNext, Searching
<1>12. Logins'
  BY <1>1, <1>3, <1>5, LoginsKept DEF IndInv
<1>13. Removal'
  BY <1>1, <1>3 DEF IndInv, Removal, Trusted, Removing
<1>14. Apart'
  <2>. SUFFICES ASSUME collided' = {} PROVE Apart'
    BY DEF Apart
  <2>1. /\ \A s \in Threads : pc[s] = "mark row" => ~used[row[s]]
        /\ \A s \in Threads : pc[s] = "fill row" => used[row[s]] /\ item[row[s]] = Null
        /\ \A r \in Rows : ~used[r] => item[r] = Null
        /\ used[q] /\ (pc["slow"] = "fill row" => row["slow"] # q)
    BY <1>1 DEF IndInv, Apart, Removing
  <2>2. /\ \A s \in Threads : pc'[s] \in Placing => pc'[s] = pc[s] /\ row[s] \in Rows
        /\ pc'["worker"] \notin Placing
    BY <1>1, <1>3, ThreadFacts DEF Placing, IndInv, SlowStage, Adding, Finding
  <2>3. \A r \in Rows : item[r] = Null => item'[r] = Null
    BY <1>3
  <2>4. /\ \A s \in Threads : pc'[s] = "mark row" => ~used'[row'[s]]
        /\ \A s \in Threads : pc'[s] = "fill row" => used'[row'[s]] /\ item'[row'[s]] = Null
        /\ \A r \in Rows : ~used'[r] => item'[r] = Null
    BY <1>1, <2>1, <2>2, <2>3 DEF Placing
  <2>. QED
    BY <1>1, <1>3, <2>1, <2>2, <2>4 DEF Apart
<1>15. Found'
  <2>. SUFFICES ASSUME collided' = {}, NEW u \in heap'
                PROVE  \/ \E r \in Rows : used'[r] /\ item'[r] = u
                       \/ \E s \in Threads : pc'[s] \in Adding /\ new_user'[s] = u
    BY DEF Found
  <2>1. \/ \E r \in Rows : used[r] /\ item[r] = u
        \/ \E s \in Threads : pc[s] \in Adding /\ new_user[s] = u
    BY <1>1 DEF IndInv, Found
  <2>2. item[q] # u
    BY <1>1 DEF IndInv, Apart
  <2>. QED
    BY <1>1, <1>3, <1>5, <2>1, <2>2
<1>16. Faults'
  BY <1>1, FaultsKept
<1>. QED
  BY <1>4, <1>6, <1>7, <1>8, <1>9, <1>10, <1>11, <1>12, <1>13, <1>14, <1>15, <1>16 DEF IndInv

LEMMA ClearSecondStep ==
    ASSUME IndInv, ~fault, ClearSecond
    PROVE  IndInv'
<1>. USE DEF At, Goto, user_vars, list_vars, login_vars, slow_vars
<1>. DEFINE q == row["worker"]
<1>1. /\ pc["worker"] = "clear row again" /\ pc' = [pc EXCEPT !["worker"] = "idle"]
      /\ used' = [used EXCEPT ![q] = FALSE] /\ row' = [row EXCEPT !["worker"] = 1]
      /\ command' = NoCommand
      /\ UNCHANGED <<connection, logged_in_user, by, heap, userid, username, remote, item, collided,
                     slow_tasks, task, new_user, unseen, fault>>
  BY DEF ClearSecond, Clear, RowFreed, Done
<1>2. /\ pc \in [Threads -> WorkerLabels \cup SlowLabels]
      /\ pc["worker"] \in WorkerLabels /\ pc["slow"] \in SlowLabels
      /\ used \in [Rows -> BOOLEAN] /\ row \in [Threads -> Rows \cup {MaxUsers + 1}] /\ q \in Rows
  BY <1>1 DEF IndInv, Types, TypeOK, WorkerStage, Removing
<1>3. /\ pc'["worker"] = "idle" /\ pc'["slow"] = pc["slow"]
      /\ row'["worker"] = 1 /\ row'["slow"] = row["slow"]
      /\ ~used'[q] /\ \A r \in Rows \ {q} : used'[r] = used[r]
      /\ used' \in [Rows -> BOOLEAN] /\ row' \in [Threads -> Rows \cup {MaxUsers + 1}]
  BY <1>1, <1>2, ThreadFacts
<1>4. Types'
  <2>1. TypeOK'
    BY <1>1, <1>3 DEF IndInv, Types, TypeOK
  <2>2. pc' \in [Threads -> WorkerLabels \cup SlowLabels]
    BY <1>1, <1>2 DEF WorkerLabels
  <2>3. pc'["worker"] \in WorkerLabels /\ pc'["slow"] \in SlowLabels
    BY <1>2, <1>3 DEF WorkerLabels
  <2>. QED
    BY <1>1, <2>1, <2>2, <2>3, CommandTypes DEF IndInv, Types
<1>5. /\ \A s \in Threads : pc'[s] \in Adding => pc[s] \in Adding /\ pc'[s] = pc[s] /\ row'[s] = row[s]
      /\ \A s \in Threads : pc[s] \in Adding => pc'[s] \in Adding /\ pc'[s] = pc[s] /\ row'[s] = row[s]
      /\ \A r \in Rows : used'[r] => used[r] /\ r # q
  BY <1>1, <1>3, ThreadFacts DEF Adding, Finding
<1>6. WorkerStage'
  BY <1>3 DEF WorkerStage, Searching, Removing, Adding, Finding
<1>7. SlowStage'
  BY <1>1, <1>3, SlowStageKept DEF IndInv
<1>8. Created'
  BY <1>1, <1>5, CreatedKept DEF IndInv
<1>9. Placed'
  BY <1>1, <1>5, PlacedKept DEF IndInv, Adding
<1>10. NullRows'
  <2>1. SUFFICES ASSUME NEW r \in Rows, used'[r], item'[r] = Null
                 PROVE  \E s \in Threads : pc'[s] = "fill row" /\ row'[s] = r
    BY DEF NullRows
  <2>2. \E s \in Threads : pc[s] = "fill row" /\ row[s] = r
    BY <1>1, <1>5, <2>1 DEF IndInv, NullRows
  <2>3. \A s \in Threads : pc[s] = "fill row" => pc'[s] = "fill row" /\ row'[s] = row[s]
    BY <1>5 DEF Adding
  <2>. QED
    BY <2>2, <2>3
<1>11. Twins'
  <2>1. \A r \in Rows : Own(r) => used[r] /\ r # q
    BY <1>1 DEF IndInv, Twins
  <2>2. \A r \in Rows : Own(r) => used'[r]
    BY <1>3, <2>1
  <2>3. pc'["worker"] \notin Adding \cup Searching /\ pc'["worker"] \notin {"fill row", "clear row again"}
    BY <1>3 DEF Adding, Finding, Searching
  <2>4. \A r, s \in Rows : r # s /\ Own(r) /\ Own(s) =>
           userid[item[r]] # userid[item[s]] /\ username[item[r]] # username[item[s]]
    BY DEF IndInv, Twins
  <2>. QED
    BY <1>1, <2>2, <2>3, <2>4 DEF Twins, Own, Searching
<1>12. Logins'
  BY <1>1, <1>3, <1>5, LoginsKept DEF IndInv
<1>13. Removal'
  BY <1>3 DEF Removal, Removing
<1>14. Apart'
  <2>. SUFFICES ASSUME collided' = {} PROVE Apart'
    BY DEF Apart
  <2>1. /\ \A s \in Threads : pc[s] = "mark row" => ~used[row[s]]
        /\ \A s \in Threads : pc[s] = "fill row" => used[row[s]] /\ item[row[s]] = Null
        /\ \A r \in Rows : ~used[r] => item[r] = Null
        /\ item[q] = Null /\ (pc["slow"] = "fill row" => row["slow"] # q)
    BY <1>1 DEF IndInv, Apart, Removing
  <2>2. /\ \A s \in Threads : pc'[s] \in Placing => s = "slow" /\ pc'[s] = pc[s] /\ row[s] \in Rows /\ row'[s] = row[s]
        /\ pc'["worker"] \notin Placing
    BY <1>1, <1>3, ThreadFacts DEF Placing, IndInv, SlowStage, Adding, Finding
  <2>3. ASSUME NEW s \in Threads, pc'[s] = "mark row" PROVE ~used'[row'[s]]
    <3>1. pc[s] = "mark row" /\ row[s] \in Rows /\ row'[s] = row[s]
      BY <2>2, <2>3 DEF Placing
    <3>2. ~used[row[s]]
      BY <2>1, <3>1
    <3>. QED
      BY <1>5, <3>1, <3>2
  <2>4. ASSUME NEW s \in Threads, pc'[s] = "fill row" PROVE used'[row'[s]] /\ item'[row'[s]] = Null
    <3>1. s = "slow" /\ pc[s] = "fill row" /\ row[s] \in Rows /\ row'[s] = row[s]
      BY <2>2, <2>4 DEF Placing
    <3>2. used[row[s]] /\ item[row[s]] = Null /\ row[s] # q
      BY <2>1, <3>1
    <3>. QED
      BY <1>1, <1>3, <3>1, <3>2
  <2>5. \A r \in Rows : ~used'[r] => item'[r] = Null
    BY <1>1, <1>3, <2>1
  <2>. QED
    BY <1>3, <2>2, <2>3, <2>4, <2>5 DEF Apart, Removing
<1>15. Found'
  <2>. SUFFICES ASSUME collided' = {}, NEW u \in heap'
                PROVE  \/ \E r \in Rows : used'[r] /\ item'[r] = u
                       \/ \E s \in Threads : pc'[s] \in Adding /\ new_user'[s] = u
    BY DEF Found
  <2>1. \/ \E r \in Rows : used[r] /\ item[r] = u
        \/ \E s \in Threads : pc[s] \in Adding /\ new_user[s] = u
    BY <1>1 DEF IndInv, Found
  <2>2. item[q] = Null /\ u # Null
    <3>1. item[q] = Null
      BY <1>1 DEF IndInv, Apart
    <3>2. u \in Users /\ Null \notin Users
      BY <1>1, ThreadFacts DEF IndInv, Types, TypeOK
    <3>. QED
      BY <3>1, <3>2
  <2>. QED
    BY <1>1, <1>3, <1>5, <2>1, <2>2
<1>16. Faults'
  BY <1>1, FaultsKept
<1>. QED
  BY <1>4, <1>6, <1>7, <1>8, <1>9, <1>10, <1>11, <1>12, <1>13, <1>14, <1>15, <1>16 DEF IndInv

-----------------------------------------------------------------------------
(* Connections come and go.  Nothing else is changed by them, and nobody   *)
(* is logged in by the worker but on an open one.                          *)
LEMMA Elsewhere ==
    ASSUME IndInv, ~fault,
           UNCHANGED <<heap, userid, username, remote, used, item, collided, slow_tasks, task,
                       pc, command, row, new_user, unseen, fault>>
    PROVE  /\ WorkerStage' /\ SlowStage' /\ Created' /\ Placed' /\ NullRows' /\ Twins'
           /\ Apart' /\ Found' /\ Faults'
<1>1. WorkerStage' /\ SlowStage'
  BY WorkerStageKept, SlowStageKept DEF IndInv
<1>2. Created' /\ Placed' /\ NullRows'
  BY CreatedKept, PlacedKept, NullRowsKept DEF IndInv
<1>3. Twins'
  BY TwinsKept DEF IndInv, WorkerStage, Adding
<1>4. Apart' /\ Found' /\ Faults'
  BY ApartKept, FoundKept, FaultsKept DEF IndInv
<1>. QED
  BY <1>1, <1>2, <1>3, <1>4

LEMMA EstablishedStep ==
    ASSUME IndInv, ~fault, NEW c \in Clients, Established(c)
    PROVE  IndInv'
<1>. USE DEF At, Goto, user_vars, list_vars, login_vars, slow_vars
<1>1. /\ connection[c] = "none" /\ connection' = [connection EXCEPT ![c] = "open"]
      /\ UNCHANGED <<logged_in_user, by, heap, userid, username, remote, used, item, collided,
                     slow_tasks, task, pc, command, row, new_user, unseen, fault>>
  BY DEF Established
<1>2. connection \in [Clients -> {"none", "open", "closed"}]
  BY DEF IndInv, Types, TypeOK
<1>3. /\ connection' \in [Clients -> {"none", "open", "closed"}]
      /\ \A d \in Clients : connection[d] = "open" => connection'[d] = "open"
  BY <1>1, <1>2
<1>4. Types'
  BY <1>1, <1>3 DEF IndInv, Types, TypeOK
<1>5. Logins'
  <2>1. pc["worker"] \in {"login", "compare password"} => command.client \in Clients
    BY DEF IndInv, WorkerStage
  <2>. QED
    BY <1>1, <1>3, <2>1 DEF IndInv, Logins, Trusted
<1>6. Removal'
  BY <1>1, RemovalKept DEF IndInv
<1>. QED
  BY <1>1, <1>4, <1>5, <1>6, Elsewhere DEF IndInv

(* Logout or close: afterwards nobody is logged in there.                  *)
LEMMA ForgetStep ==
    ASSUME IndInv, ~fault, NEW c \in Clients, Logout(c) \/ CloseConnection(c)
    PROVE  IndInv'
<1>. USE DEF At, Goto, user_vars, list_vars, login_vars, slow_vars
<1>1. /\ pc["worker"] = "idle"
      /\ connection' = connection \/ connection' = [connection EXCEPT ![c] = "closed"]
      /\ logged_in_user' = [logged_in_user EXCEPT ![c] = Null] /\ by' = [by EXCEPT ![c] = "none"]
      /\ UNCHANGED <<heap, userid, username, remote, used, item, collided,
                     slow_tasks, task, pc, command, row, new_user, unseen, fault>>
  BY DEF Logout, CloseConnection, Forget
<1>2. /\ connection \in [Clients -> {"none", "open", "closed"}]
      /\ logged_in_user \in [Clients -> Users \cup {Null}]
      /\ by \in [Clients -> {"none", "worker", "slow"}]
  BY DEF IndInv, Types, TypeOK
<1>3. /\ connection' \in [Clients -> {"none", "open", "closed"}]
      /\ logged_in_user' \in [Clients -> Users \cup {Null}]
      /\ by' \in [Clients -> {"none", "worker", "slow"}]
      /\ logged_in_user'[c] = Null
      /\ \A d \in Clients \ {c} : /\ logged_in_user'[d] = logged_in_user[d] /\ by'[d] = by[d]
                                  /\ connection'[d] = connection[d]
  BY <1>1, <1>2
<1>4. Types'
  BY <1>1, <1>3 DEF IndInv, Types, TypeOK
<1>5. Logins'
  <2>1. ASSUME NEW d \in Clients, by'[d] # "slow", logged_in_user'[d] # Null
        PROVE  /\ logged_in_user'[d] \in heap /\ connection'[d] = "open"
               /\ \A t \in Threads : pc[t] \in Adding => logged_in_user'[d] # new_user[t]
    <3>1. Trusted(d) /\ logged_in_user'[d] = logged_in_user[d] /\ connection'[d] = connection[d]
      BY <1>3, <2>1 DEF Trusted
    <3>. QED
      BY <3>1 DEF IndInv, Logins
  <2>. QED
    BY <1>1, <2>1 DEF Logins, Trusted
<1>6. Removal'
  BY <1>1 DEF Removal, Removing
<1>. QED
  BY <1>1, <1>4, <1>5, <1>6, Elsewhere DEF IndInv

-----------------------------------------------------------------------------
(* The slow thread takes a task, refuses it or logs its connection in.     *)
LEMMA SlowGoes ==
    ASSUME IndInv, ~fault, NEW label \in {"idle", "read url"},
           pc["slow"] \in {"idle", "read url", "log in"}, pc' = [pc EXCEPT !["slow"] = label],
           new_user'["worker"] = new_user["worker"],
           UNCHANGED <<connection, heap, userid, username, remote, used, item, collided,
                       command, row, unseen, fault>>
    PROVE  /\ pc'["slow"] = label /\ pc'["worker"] = pc["worker"]
           /\ pc' \in [Threads -> WorkerLabels \cup SlowLabels]
           /\ pc'["worker"] \in WorkerLabels /\ pc'["slow"] \in SlowLabels
           /\ \A s \in Threads : pc'[s] \in Adding => pc[s] \in Adding /\ new_user'[s] = new_user[s]
           /\ WorkerStage' /\ Created' /\ Placed' /\ NullRows' /\ Twins' /\ Apart' /\ Found' /\ Faults'
<1>1. /\ pc \in [Threads -> WorkerLabels \cup SlowLabels]
      /\ pc["worker"] \in WorkerLabels /\ pc["slow"] \in SlowLabels
  BY DEF IndInv, Types
<1>2. pc'["slow"] = label /\ pc'["worker"] = pc["worker"]
  BY <1>1, ThreadFacts
<1>3. /\ pc' \in [Threads -> WorkerLabels \cup SlowLabels]
      /\ pc'["worker"] \in WorkerLabels /\ pc'["slow"] \in SlowLabels
  BY <1>1, <1>2 DEF SlowLabels
<1>4. /\ \A s \in Threads : pc'[s] \in Adding => pc[s] \in Adding /\ pc'[s] = pc[s] /\ new_user'[s] = new_user[s]
      /\ \A s \in Threads : pc[s] \in Adding => pc'[s] \in Adding /\ pc'[s] = pc[s] /\ new_user'[s] = new_user[s]
  BY <1>2, ThreadFacts DEF Adding, Finding
<1>5. WorkerStage'
  BY <1>2, WorkerStageKept DEF IndInv
<1>6. Created'
  BY <1>2, <1>4, CreatedKept DEF IndInv
<1>7. Placed'
  BY <1>4, PlacedKept DEF IndInv, Adding
<1>8. NullRows'
  BY <1>2, <1>4, NullRowsKept DEF IndInv, Adding
<1>9. Twins'
  BY <1>2, TwinsKept DEF IndInv, WorkerStage, Adding
<1>10. Apart'
  BY <1>2, <1>4, ApartKept DEF IndInv, Placing, Adding, Finding
<1>11. Found'
  BY <1>4, FoundKept DEF IndInv
<1>12. Faults'
  BY FaultsKept
<1>. QED
  BY <1>2, <1>3, <1>4, <1>5, <1>6, <1>7, <1>8, <1>9, <1>10, <1>11, <1>12

LEMMA RemoteLoginStep ==
    ASSUME IndInv, ~fault, RemoteLogin
    PROVE  IndInv'
<1>. USE DEF At, Goto, user_vars, list_vars, login_vars, slow_vars
<1>1. /\ pc["slow"] = "idle" /\ pc' = [pc EXCEPT !["slow"] = "read url"]
      /\ slow_tasks # << >> /\ task' = Head(slow_tasks) /\ slow_tasks' = Tail(slow_tasks)
      /\ UNCHANGED <<connection, logged_in_user, by, heap, userid, username, remote, used, item, collided,
                     command, row, new_user, unseen, fault>>
  BY DEF RemoteLogin
<1>2. slow_tasks \in Seq([client : Clients, name : Names])
  BY CommandIs
<1>3. /\ task' \in [client : Clients, name : Names]
      /\ slow_tasks' \in Seq([client : Clients, name : Names])
  BY <1>1, <1>2, HeadTailProperties
<1>4. /\ pc'["slow"] = "read url" /\ pc'["worker"] = pc["worker"]
      /\ pc' \in [Threads -> WorkerLabels \cup SlowLabels]
      /\ pc'["worker"] \in WorkerLabels /\ pc'["slow"] \in SlowLabels
      /\ \A s \in Threads : pc'[s] \in Adding => pc[s] \in Adding /\ new_user'[s] = new_user[s]
      /\ WorkerStage' /\ Created' /\ Placed' /\ NullRows' /\ Twins' /\ Apart' /\ Found' /\ Faults'
  BY <1>1, SlowGoes
<1>5. Types'
  <2>1. TypeOK'
    BY <1>1, <1>3 DEF IndInv, Types, TypeOK
  <2>2. task' \in [client : Clients \cup {Null}, name : Names \cup {Null}]
    BY <1>3
  <2>. QED
    BY <1>1, <1>4, <2>1, <2>2 DEF IndInv, Types
<1>6. SlowStage'
  BY <1>3, <1>4 DEF SlowStage, Adding, Finding
<1>7. Logins'
  BY <1>1, <1>4, LoginsKept DEF IndInv
<1>8. Removal'
  BY <1>1, <1>4, RemovalKept DEF IndInv
<1>. QED
  BY <1>4, <1>5, <1>6, <1>7, <1>8 DEF IndInv

LEMMA LoginRefusedStep ==
    ASSUME IndInv, ~fault, NEW result \in Results, LoginRefused(result)
    PROVE  IndInv'
<1>. USE DEF At, Goto, user_vars, list_vars, login_vars, slow_vars
<1>1. /\ pc["slow"] = "read url" /\ pc' = [pc EXCEPT !["slow"] = "idle"] /\ task' = NoTask
      /\ UNCHANGED <<connection, logged_in_user, by, heap, userid, username, remote, used, item, collided,
                     slow_tasks, command, row, new_user, unseen, fault>>
  BY DEF LoginRefused
<1>2. /\ pc'["slow"] = "idle" /\ pc'["worker"] = pc["worker"]
      /\ pc' \in [Threads -> WorkerLabels \cup SlowLabels]
      /\ pc'["worker"] \in WorkerLabels /\ pc'["slow"] \in SlowLabels
      /\ \A s \in Threads : pc'[s] \in Adding => pc[s] \in Adding /\ new_user'[s] = new_user[s]
      /\ WorkerStage' /\ Created' /\ Placed' /\ NullRows' /\ Twins' /\ Apart' /\ Found' /\ Faults'
  BY <1>1, SlowGoes
<1>3. Types'
  <2>1. TypeOK'
    BY <1>1 DEF IndInv, Types, TypeOK
  <2>. QED
    BY <1>1, <1>2, <2>1, CommandTypes DEF IndInv, Types
<1>4. SlowStage'
  BY <1>2 DEF SlowStage, Adding, Finding
<1>5. Logins'
  BY <1>1, <1>2, LoginsKept DEF IndInv
<1>6. Removal'
  BY <1>1, <1>2, RemovalKept DEF IndInv
<1>. QED
  BY <1>2, <1>3, <1>4, <1>5, <1>6 DEF IndInv

LEMMA RemoteLoggedInStep ==
    ASSUME IndInv, ~fault, RemoteLoggedIn
    PROVE  IndInv'
<1>. USE DEF At, Goto, user_vars, list_vars, login_vars, slow_vars
<1>. DEFINE c == task.client
<1>1. /\ pc["slow"] = "log in" /\ pc' = [pc EXCEPT !["slow"] = "idle"] /\ task' = NoTask
      /\ logged_in_user' = [logged_in_user EXCEPT ![c] = new_user["slow"]]
      /\ by' = [by EXCEPT ![c] = "slow"] /\ new_user' = [new_user EXCEPT !["slow"] = Null]
      /\ UNCHANGED <<connection, heap, userid, username, remote, used, item, collided,
                     slow_tasks, command, row, unseen, fault>>
  BY DEF RemoteLoggedIn
<1>2. /\ logged_in_user \in [Clients -> Users \cup {Null}] /\ new_user \in [Threads -> Users \cup {Null}]
      /\ by \in [Clients -> {"none", "worker", "slow"}]
      /\ c \in Clients /\ new_user["slow"] \in Users
  BY <1>1 DEF IndInv, Types, TypeOK, SlowStage
<1>3. /\ logged_in_user' \in [Clients -> Users \cup {Null}] /\ new_user' \in [Threads -> Users \cup {Null}]
      /\ by' \in [Clients -> {"none", "worker", "slow"}]
      /\ by'[c] = "slow" /\ new_user'["worker"] = new_user["worker"]
      /\ \A d \in Clients \ {c} : logged_in_user'[d] = logged_in_user[d] /\ by'[d] = by[d]
  BY <1>1, <1>2, ThreadFacts
<1>4. /\ pc'["slow"] = "idle" /\ pc'["worker"] = pc["worker"]
      /\ pc' \in [Threads -> WorkerLabels \cup SlowLabels]
      /\ pc'["worker"] \in WorkerLabels /\ pc'["slow"] \in SlowLabels
      /\ \A s \in Threads : pc'[s] \in Adding => pc[s] \in Adding /\ new_user'[s] = new_user[s]
      /\ WorkerStage' /\ Created' /\ Placed' /\ NullRows' /\ Twins' /\ Apart' /\ Found' /\ Faults'
  BY <1>1, <1>3, SlowGoes
<1>5. Types'
  <2>1. TypeOK'
    BY <1>1, <1>3 DEF IndInv, Types, TypeOK
  <2>. QED
    BY <1>1, <1>3, <1>4, <2>1, CommandTypes DEF IndInv, Types
<1>6. SlowStage'
  BY <1>4 DEF SlowStage, Adding, Finding
<1>7. \A d \in Clients : by'[d] # "slow" /\ logged_in_user'[d] # Null =>
         Trusted(d) /\ logged_in_user'[d] = logged_in_user[d]
  BY <1>3 DEF Trusted
<1>8. Logins'
  <2>1. /\ pc'["worker"] \in {"login", "compare password"} => connection[command.client] = "open"
        /\ pc'["worker"] = "compare password" =>
              /\ command.user \in heap
              /\ \A t \in Threads : pc'[t] \in Adding => command.user # new_user'[t]
    BY <1>4 DEF IndInv, Logins
  <2>2. ASSUME NEW d \in Clients, by'[d] # "slow", logged_in_user'[d] # Null
        PROVE  /\ logged_in_user'[d] \in heap' /\ connection'[d] = "open"
               /\ \A t \in Threads : pc'[t] \in Adding => logged_in_user'[d] # new_user'[t]
    <3>1. Trusted(d) /\ logged_in_user'[d] = logged_in_user[d]
      BY <1>7, <2>2
    <3>2. /\ logged_in_user[d] \in heap /\ connection[d] = "open"
          /\ \A t \in Threads : pc[t] \in Adding => logged_in_user[d] # new_user[t]
      BY <3>1 DEF IndInv, Logins
    <3>3. \A t \in Threads : pc'[t] \in Adding => pc[t] \in Adding /\ new_user'[t] = new_user[t]
      BY <1>4
    <3>4. heap' = heap /\ connection' = connection
      BY <1>1
    <3>. QED
      BY ONLY <3>1, <3>2, <3>3, <3>4
  <2>3. heap' = heap /\ connection' = connection /\ command' = command
    BY <1>1
  <2>. QED
    BY ONLY <2>1, <2>2, <2>3 DEF Logins, Trusted
<1>9. Removal'
  <2>1. pc["worker"] = "delete user" => userid[command.user] = command.id
    BY DEF IndInv, Removal
  <2>2. ASSUME NEW d \in Clients, Trusted(d)
        PROVE  /\ pc["worker"] = "look for login" /\ d \notin unseen => userid[logged_in_user[d]] # command.id
               /\ pc["worker"] \in {"remove"} \cup Removing => userid[logged_in_user[d]] # command.id
               /\ pc["worker"] \in {"first user", "delete user"} =>
                     item[row["worker"]] = command.user \/ item[row["worker"]] # logged_in_user[d]
    BY <2>2 DEF IndInv, Removal
  <2>. QED
    BY <1>1, <1>4, <1>7, <2>1, <2>2 DEF Removal, Trusted
<1>. QED
  BY <1>4, <1>5, <1>6, <1>8, <1>9 DEF IndInv

-----------------------------------------------------------------------------
(* Any step.                                                               *)
LEMMA Stutter ==
    ASSUME IndInv, UNCHANGED vars
    PROVE  IndInv'
<1>. USE DEF vars, user_vars, list_vars, login_vars, slow_vars
<1>1. Types' /\ WorkerStage' /\ SlowStage'
  <2>1. Types'
    BY DEF IndInv, Types, TypeOK
  <2>2. WorkerStage' /\ SlowStage'
    BY WorkerStageKept, SlowStageKept DEF IndInv
  <2>. QED
    BY <2>1, <2>2
<1>2. Created' /\ Placed' /\ NullRows'
  BY CreatedKept, PlacedKept, NullRowsKept DEF IndInv
<1>3. Twins' /\ Logins' /\ Removal'
  BY LoginsKept, RemovalKept DEF IndInv, Twins, Own
<1>4. Apart' /\ Found' /\ Faults'
  BY ApartKept, FoundKept DEF IndInv, Faults
<1>. QED
  BY <1>1, <1>2, <1>3, <1>4 DEF IndInv

LEMMA StepInv == IndInv /\ [Next]_vars => IndInv'
<1>. SUFFICES ASSUME IndInv, [Next]_vars PROVE IndInv'
  OBVIOUS
<1>1. CASE UNCHANGED vars
  BY <1>1, Stutter
<1>2. CASE Next
  <2>1. ~fault
    BY <1>2 DEF Next
  <2>2. CASE \E c \in Clients : Established(c) \/ Logout(c) \/ CloseConnection(c)
    BY <2>1, <2>2, EstablishedStep, ForgetStep
  <2>3. CASE LoginStep
    BY <2>1, <2>3, BeginLoginStep, LoginFindsStep, QueueRemoteLoginStep, ComparePasswordStep DEF LoginStep
  <2>4. CASE AddUserStep
    BY <2>1, <2>4, BeginAddUserStep, FindIdStep, FindNameStep, AnswerStep, NewUserStep, UserAddedStep
       DEF AddUserStep
  <2>5. CASE BeginGetUsers \/ GetUsers
    BY <2>1, <2>5, BeginGetUsersStep, GetUsersStep
  <2>6. CASE RemoveUserStep
    <3>1. LoopForEver => UNCHANGED vars
      BY DEF LoopForEver
    <3>. QED
      BY <2>1, <2>6, <3>1, BeginRemoveUserStep, LookForLoginStep, NobodyLoggedInStep, FirstUserStep,
         TestUserStep, Stutter, DeleteUserStep, ClearFirstStep, ClearSecondStep DEF RemoveUserStep
  <2>7. CASE SlowStep
    BY <2>1, <2>7, RemoteLoginStep, LoginRefusedStep, LoginAcceptedStep, RemoteUserAddedStep,
       RemoteLoggedInStep DEF SlowStep
  <2>8. CASE \E t \in Threads : AddStep(t)
    BY <2>1, <2>8, FindRowStep, TestRowStep, MarkRowStep DEF AddStep
  <2>. QED
    BY <1>2, <2>2, <2>3, <2>4, <2>5, <2>6, <2>7, <2>8 DEF Next
<1>. QED
  BY <1>1, <1>2

THEOREM Inductive == Spec => []IndInv
BY InitInv, StepInv, PTL DEF Spec
-----------------------------------------------------------------------------
(* What the runs check of two connections, for any number.                 *)

(* What the worker decided about a login holds: a connection it logged in  *)
(* is open and its user exists, whatever the slow thread does to the list. *)
THEOREM StaleLoginsAreRemote == Spec => []OnlyRemoteIsStale
<1>1. IndInv => OnlyRemoteIsStale
  BY DEF IndInv, Logins, Trusted, OnlyRemoteIsStale
<1>. QED
  BY <1>1, Inductive, PTL

(* adduser admits no second user of a name or an id that the worker made.  *)
THEOREM TwinsAreRemote == Spec => []TwinsOnlyByRemote
<1>1. IndInv => TwinsOnlyByRemote
  <2>. SUFFICES ASSUME IndInv, NEW r \in Rows, NEW s \in Rows, item[r] # Null, item[s] # Null,
                       item[r] # item[s], item[r] \notin remote, item[s] \notin remote
                PROVE  userid[item[r]] # userid[item[s]] /\ username[item[r]] # username[item[s]]
    BY DEF TwinsOnlyByRemote
  <2>1. Own(r) /\ Own(s) /\ r # s
    BY DEF Own
  <2>. QED
    BY <2>1 DEF IndInv, Twins
<1>. QED
  BY <1>1, Inductive, PTL

(* No loop meets a null pointer but in the row the slow thread is about to *)
(* fill: removeuser leaves none that another command could read.           *)
THEOREM NullsAreBeingFilled == Spec => []NullOnlyBeingFilled
<1>1. IndInv => NullOnlyBeingFilled
  BY DEF IndInv, Faults, NullOnlyBeingFilled, At
<1>. QED
  BY <1>1, Inductive, PTL

(* A user is in a row until it is removed, or both threads wrote into one. *)
THEOREM UsersAreFound == Spec => []LostOnlyTogether
<1>1. IndInv => LostOnlyTogether
  BY DEF IndInv, Found, LostOnlyTogether, At
<1>. QED
  BY <1>1, Inductive, PTL
=============================================================================
