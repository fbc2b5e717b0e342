---------------------------- MODULE CallsProofs ----------------------------
(***************************************************************************)
(* Proofs about the calls into the driver (Calls): when every path is      *)
(* written as CallsWritten says, no number of calls, in any order, waits   *)
(* in a circle or sleeps where it must not.                                *)
(***************************************************************************)
EXTENDS Calls, WellFoundedInduction, SequenceTheorems, TLAPS

(* What every thread has left is the rest of a call, it holds the locks    *)
(* which that rest gives back, and it is in a push exactly while a command *)
(* of its own is on the list.                                              *)
Typed ==
  /\ todo \in [Thread -> UNION {Rests(Programs, t) : t \in Thread}]
  /\ \A t \in Thread : todo[t] \in Rests(Programs, t)
  /\ holder \in [Lock -> Thread \cup {Free}]
  /\ cmds \in Seq([from : Thread, by : Thread \cup {Worker}, msg : STRING, ph : Phase])
Holders == \A t \in Thread, l \in Lock : holder[l] = t <=> l \in Holds(todo[t])
Pushers ==
  /\ \A i \in DOMAIN cmds : cmds[i].by \in Thread =>
       /\ todo[cmds[i].by] # <<>>
       /\ Head(todo[cmds[i].by]) = [op |-> "pushing", arg |-> cmds[i].msg]
  /\ \A i, j \in DOMAIN cmds : cmds[i].by \in Thread /\ cmds[i].by = cmds[j].by => i = j
  /\ \A t \in Thread : At(t, "pushing") => \E i \in DOMAIN cmds : cmds[i].by = t
CallsInv == Typed /\ Holders /\ Pushers

(* Levels are numbers.                                                     *)
LEMMA LevelIs == \A s, l : Level(s) \in Nat /\ LockLevel(l) \in Nat
<1>1. ASSUME NEW l PROVE LockLevel(l) \in {8, 7, 2, 1}
  BY DEF LockLevel
<1>2. ASSUME NEW s PROVE Level(s) \in {8, 7, 2, 1, 3, 4, 6, 0}
  BY <1>1 DEF Level, PushLevel, WorkerLevel
<1>3. {8, 7, 2, 1, 3, 4, 6, 0} \subseteq Nat /\ {8, 7, 2, 1} \subseteq Nat
  OBVIOUS
<1> QED BY <1>1, <1>2, <1>3

(* A step of a thread leaves a rest of the same call.                      *)
LEMMA RestIs ==
    ASSUME NEW t \in Thread, NEW q \in Rests(Programs, t), q # <<>>
    PROVE  Paired(Programs, t, q) /\ Downwards(Programs, t, q) /\ AwakeIn(t, q)
BY CallsWritten DEF WellWritten, Thread

(* The list without its i-th command.                                      *)
LEMMA WithoutIs ==
    ASSUME NEW S, NEW c \in Seq(S), NEW i \in 1 .. Len(c)
    PROVE  \E d \in Seq(S) :
             /\ d = SubSeq(c, 1, i - 1) \o SubSeq(c, i + 1, Len(c)) /\ Len(d) = Len(c) - 1
             /\ \A k \in 1 .. Len(d) : IF k < i THEN d[k] = c[k] ELSE d[k] = c[k + 1]
<1>1. PICK n \in Nat : n = Len(c) /\ i \in 1..n
  OBVIOUS
<1>2. PICK a : a = SubSeq(c, 1, i - 1)
  OBVIOUS
<1>3. PICK b : b = SubSeq(c, i + 1, n)
  OBVIOUS
<1>4. a \in Seq(S) /\ Len(a) = i - 1 /\ \A k \in 1 .. i - 1 : a[k] = c[k]
  BY <1>1, <1>2
<1>5. b \in Seq(S) /\ Len(b) = n - i
  BY <1>1, <1>3
<1>6. \A k \in 1 .. n - i : b[k] = c[k + i]
  <2> TAKE k \in 1 .. n - i
  <2>1. i + 1 \in 1 .. n + 1 /\ k \in 1 .. (n - (i + 1) + 1) /\ (i + 1) + k - 1 = k + i
    BY <1>1
  <2>2. SubSeq(c, i + 1, n)[k] = c[(i + 1) + k - 1]
    BY <1>1, <2>1
  <2> QED BY <1>3, <2>1, <2>2
<1>7. PICK d : d = a \o b
  OBVIOUS
<1>8. d \in Seq(S) /\ Len(d) = n - 1
  <2>1. d \in Seq(S) /\ Len(d) = Len(a) + Len(b)
    BY <1>4, <1>5, <1>7, ConcatProperties
  <2> QED BY <1>1, <1>4, <1>5, <2>1
<1>9. ASSUME NEW k \in 1 .. n - 1 PROVE IF k < i THEN d[k] = c[k] ELSE d[k] = c[k + 1]
  <2>1. d[k] = IF k <= Len(a) THEN a[k] ELSE b[k - Len(a)]
    <3>1. k \in 1 .. Len(a) + Len(b)
      BY <1>1, <1>4, <1>5
    <3> QED BY <1>4, <1>5, <1>7, <3>1, ConcatProperties
  <2>2. CASE k < i
    <3>1. k \in 1 .. i - 1 /\ k <= Len(a)
      BY <1>1, <1>4, <2>2
    <3> QED BY <1>4, <2>1, <2>2, <3>1
  <2>3. CASE ~(k < i)
    <3>1. ~(k <= Len(a)) /\ k - Len(a) = k - i + 1 /\ k - i + 1 \in 1 .. n - i /\ (k - i + 1) + i = k + 1
      BY <1>1, <1>4, <2>3
    <3>2. d[k] = b[k - i + 1]
      BY <2>1, <3>1
    <3> QED BY <1>6, <2>3, <3>1, <3>2
  <2> QED BY <2>2, <2>3
<1>10. d = SubSeq(c, 1, i - 1) \o SubSeq(c, i + 1, Len(c))
  BY <1>1, <1>2, <1>3, <1>7
<1> QED BY <1>1, <1>8, <1>9, <1>10

(* A thread moves on, and no command does.                                 *)
LEMMA Moves ==
    ASSUME CallsInv, NEW t \in Thread, NEW q \in Rests(Programs, t), todo' = [todo EXCEPT ![t] = q],
           holder' \in [Lock -> Thread \cup {Free}], Holders', cmds' = cmds,
           ~At(t, "pushing"), q # <<>> => Head(q).op # "pushing"
    PROVE  CallsInv'
<1>1. todo \in [Thread -> UNION {Rests(Programs, u) : u \in Thread}] /\ \A u \in Thread : todo[u] \in Rests(Programs, u)
  BY DEF CallsInv, Typed
<1>2. todo'[t] = q /\ \A u \in Thread \ {t} : todo'[u] = todo[u]
  BY <1>1
<1>3. Typed'
  <2>1. todo' \in [Thread -> UNION {Rests(Programs, u) : u \in Thread}]
    BY <1>1
  <2>2. \A u \in Thread : todo'[u] \in Rests(Programs, u)
    BY <1>1, <1>2
  <2> QED BY <2>1, <2>2 DEF CallsInv, Typed
<1>4. \A i \in DOMAIN cmds : cmds[i].by # t
  <2> SUFFICES ASSUME NEW i \in DOMAIN cmds, cmds[i].by = t PROVE FALSE
    OBVIOUS
  <2>1. todo[t] # <<>> /\ Head(todo[t]) = [op |-> "pushing", arg |-> cmds[i].msg]
    BY DEF CallsInv, Pushers
  <2> QED BY <2>1 DEF At
<1>5. Pushers'
  <2>1. ASSUME NEW i \in DOMAIN cmds, cmds[i].by \in Thread
        PROVE  /\ todo'[cmds[i].by] # <<>>
               /\ Head(todo'[cmds[i].by]) = [op |-> "pushing", arg |-> cmds[i].msg]
    BY <1>2, <1>4, <2>1 DEF CallsInv, Pushers
  <2>2. ASSUME NEW u \in Thread, At(u, "pushing")' PROVE \E i \in DOMAIN cmds : cmds[i].by = u
    BY <1>2, <2>2 DEF CallsInv, Pushers, At
  <2> QED BY <2>1, <2>2 DEF CallsInv, Pushers
<1> QED BY <1>3, <1>5 DEF CallsInv

(* It holds the same locks if they are those of its rest.                  *)
LEMMA SameLocks ==
    ASSUME CallsInv, NEW t \in Thread, NEW q \in Rests(Programs, t), todo' = [todo EXCEPT ![t] = q],
           holder' = holder, Holds(q) = Holds(todo[t])
    PROVE  holder' \in [Lock -> Thread \cup {Free}] /\ Holders'
<1>1. todo \in [Thread -> UNION {Rests(Programs, u) : u \in Thread}] /\ holder \in [Lock -> Thread \cup {Free}]
  BY DEF CallsInv, Typed
<1>2. todo'[t] = q /\ \A u \in Thread \ {t} : todo'[u] = todo[u]
  BY <1>1
<1>3. ASSUME NEW u \in Thread, NEW l \in Lock PROVE holder'[l] = u <=> l \in Holds(todo'[u])
  BY <1>2 DEF CallsInv, Holders
<1> QED BY <1>1, <1>3 DEF Holders

(* The next step of a thread.                                              *)
LEMMA NextOf ==
    ASSUME CallsInv, NEW t \in Thread, todo[t] # <<>>
    PROVE  /\ todo[t] \in Rests(Programs, t) /\ Tail(todo[t]) \in Rests(Programs, t) /\ Paired(Programs, t, todo[t])
           /\ Tail(todo[t]) # <<>> => Head(Tail(todo[t])).op # "pushing"
<1>1. PICK q \in Rests(Programs, t) : q = todo[t]
  BY DEF CallsInv, Typed
<1>2. Paired(Programs, t, q)
  BY <1>1, RestIs
<1>3. Tail(q) \in Rests(Programs, t) /\ (Tail(q) # <<>> => Head(Tail(q)).op # "pushing")
  BY <1>2, Zenon DEF Paired
<1> QED BY <1>1, <1>2, <1>3

(* A step that is neither a lock nor a command.                            *)
LEMMA PlainKeeps ==
    ASSUME CallsInv, NEW t \in Thread, todo[t] # <<>>, Advance(t), holder' = holder, cmds' = cmds,
           Head(todo[t]).op \notin {"lock", "unlock", "pushing"}
    PROVE  CallsInv'
<1>1. PICK q : q = Tail(todo[t])
  OBVIOUS
<1>2. q \in Rests(Programs, t) /\ (q # <<>> => Head(q).op # "pushing") /\ Holds(q) = Holds(todo[t])
  BY <1>1, NextOf DEF Paired
<1>3. todo' = [todo EXCEPT ![t] = q]
  BY <1>1 DEF Advance
<1>4. holder' \in [Lock -> Thread \cup {Free}] /\ Holders'
  BY <1>2, <1>3, SameLocks
<1>5. ~At(t, "pushing")
  BY DEF At
<1> QED BY <1>2, <1>3, <1>4, <1>5, Moves

(* A call begins, from outside or as a work item.                          *)
LEMMA BeginKeeps ==
    ASSUME CallsInv, NEW t \in Thread, todo[t] = <<>>, NEW p \in Programs[t],
           todo' = [todo EXCEPT ![t] = p], holder' = holder, cmds' = cmds
    PROVE  CallsInv'
<1>1. p \in Rests(Programs, t) /\ Holds(p) = {} /\ (p # <<>> => Head(p).op # "pushing") /\ Holds(<<>>) = {}
  BY CallsWritten DEF WellWritten, Thread
<1>2. Holds(p) = Holds(todo[t])
  BY <1>1
<1>3. holder' \in [Lock -> Thread \cup {Free}] /\ Holders'
  BY <1>1, <1>2, SameLocks
<1>4. ~At(t, "pushing")
  BY DEF At
<1> QED BY <1>1, <1>3, <1>4, Moves

(* A lock is taken by one thread when no thread has it.                    *)
LEMMA AcquireKeeps ==
    ASSUME CallsInv, NEW t \in Thread, Acquire(t)
    PROVE  CallsInv'
<1>1. PICK a : a = Arg(t)
  OBVIOUS
<1>2. PICK q : q = Tail(todo[t])
  OBVIOUS
<1>3. todo[t] # <<>> /\ Head(todo[t]).op = "lock" /\ Head(todo[t]).arg = a /\ holder[a] = Free
  BY <1>1 DEF Acquire, At, Arg
<1>4. /\ holder' = [holder EXCEPT ![a] = t] /\ cmds' = cmds
      /\ todo' = [todo EXCEPT ![t] = q]
  BY <1>1, <1>2 DEF Acquire, Advance
<1>5. /\ q \in Rests(Programs, t) /\ (q # <<>> => Head(q).op # "pushing") /\ a \in Lock
      /\ a \notin Holds(todo[t]) /\ Holds(q) = Holds(todo[t]) \cup {a}
  BY <1>2, <1>3, NextOf DEF Paired
<1>6. /\ todo \in [Thread -> UNION {Rests(Programs, u) : u \in Thread}]
      /\ holder \in [Lock -> Thread \cup {Free}]
  BY DEF CallsInv, Typed
<1>7. todo'[t] = q /\ \A u \in Thread \ {t} : todo'[u] = todo[u]
  BY <1>4, <1>6
<1>8. holder'[a] = t /\ \A l \in Lock \ {a} : holder'[l] = holder[l]
  BY <1>4, <1>5, <1>6
<1>9. ASSUME NEW u \in Thread, NEW l \in Lock PROVE holder'[l] = u <=> l \in Holds(todo'[u])
  <2>1. holder[l] = u <=> l \in Holds(todo[u])
    BY DEF CallsInv, Holders
  <2>2. CASE u = t
    BY <1>5, <1>7, <1>8, <2>1, <2>2
  <2>3. CASE u # t
    <3>1. Free # u
      BY ProgramsAssumption
    <3> QED BY <1>3, <1>7, <1>8, <2>1, <2>3, <3>1
  <2> QED BY <2>2, <2>3
<1>10. holder' \in [Lock -> Thread \cup {Free}] /\ Holders'
  BY <1>4, <1>6, <1>9 DEF Holders
<1>11. ~At(t, "pushing")
  BY <1>3 DEF At
<1> QED BY <1>4, <1>5, <1>10, <1>11, Moves

(* A lock is given back by the thread that has it.                         *)
LEMMA ReleaseKeeps ==
    ASSUME CallsInv, NEW t \in Thread, Release(t)
    PROVE  CallsInv'
<1>1. PICK a : a = Arg(t)
  OBVIOUS
<1>2. PICK q : q = Tail(todo[t])
  OBVIOUS
<1>3. todo[t] # <<>> /\ Head(todo[t]).op = "unlock" /\ Head(todo[t]).arg = a
  BY <1>1 DEF Release, At, Arg
<1>4. /\ holder' = [holder EXCEPT ![a] = Free] /\ cmds' = cmds
      /\ todo' = [todo EXCEPT ![t] = q]
  BY <1>1, <1>2 DEF Release, Advance
<1>5. /\ q \in Rests(Programs, t) /\ (q # <<>> => Head(q).op # "pushing")
      /\ a \in Holds(todo[t]) /\ Holds(q) = Holds(todo[t]) \ {a}
  BY <1>2, <1>3, NextOf DEF Paired
<1>6. /\ todo \in [Thread -> UNION {Rests(Programs, u) : u \in Thread}]
      /\ holder \in [Lock -> Thread \cup {Free}]
  BY DEF CallsInv, Typed
<1>7. todo'[t] = q /\ \A u \in Thread \ {t} : todo'[u] = todo[u]
  BY <1>4, <1>6
<1>8. a \in Lock
  BY <1>5 DEF Holds
<1>9. holder'[a] = Free /\ (\A l \in Lock \ {a} : holder'[l] = holder[l]) /\ holder[a] = t
  BY <1>4, <1>5, <1>6, <1>8 DEF CallsInv, Holders
<1>10. ASSUME NEW u \in Thread, NEW l \in Lock PROVE holder'[l] = u <=> l \in Holds(todo'[u])
  <2>1. holder[l] = u <=> l \in Holds(todo[u])
    BY DEF CallsInv, Holders
  <2>2. Free # u
    BY ProgramsAssumption
  <2>3. CASE u = t
    BY <1>5, <1>7, <1>9, <2>1, <2>2, <2>3
  <2>4. CASE u # t
    BY <1>7, <1>9, <2>1, <2>2, <2>4
  <2> QED BY <2>3, <2>4
<1>11. holder' \in [Lock -> Thread \cup {Free}] /\ Holders'
  BY <1>4, <1>6, <1>10 DEF Holders
<1>12. ~At(t, "pushing")
  BY <1>3 DEF At
<1> QED BY <1>4, <1>5, <1>11, <1>12, Moves

(* The command after a cancel that came too late is left out.              *)
LEMMA CancelKeeps ==
    ASSUME CallsInv, NEW t \in Thread, CancelWork(t)
    PROVE  CallsInv'
<1>1. todo[t] # <<>> /\ Head(todo[t]).op = "cancel" /\ holder' = holder /\ cmds' = cmds
  BY DEF CancelWork, At
<1>2. CASE Advance(t)
  BY <1>1, <1>2, PlainKeeps
<1>3. CASE todo' = [todo EXCEPT ![t] = Tail(Tail(@))]
  <2>1. PICK q : q = Tail(todo[t])
    OBVIOUS
  <2>2. PICK r : r = Tail(q)
    OBVIOUS
  <2>3. q \in Rests(Programs, t) /\ q # <<>> /\ Head(q).op = "tell" /\ Holds(q) = Holds(todo[t])
    BY <1>1, <2>1, NextOf DEF Paired
  <2>4. Paired(Programs, t, q)
    BY <2>3, RestIs
  <2>5. r \in Rests(Programs, t) /\ (r # <<>> => Head(r).op # "pushing") /\ Holds(r) = Holds(q)
    BY <2>2, <2>3, <2>4 DEF Paired
  <2>6. todo' = [todo EXCEPT ![t] = r]
    BY <1>3, <2>1, <2>2
  <2>7. Holds(r) = Holds(todo[t])
    BY <2>3, <2>5
  <2>8. holder' \in [Lock -> Thread \cup {Free}] /\ Holders'
    BY <1>1, <2>5, <2>6, <2>7, SameLocks
  <2>9. ~At(t, "pushing")
    BY <1>1 DEF At
  <2> QED BY <1>1, <2>5, <2>6, <2>8, <2>9, Moves
<1> QED BY <1>2, <1>3 DEF CancelWork

(* A message without confirmation is given to the bus.                     *)
LEMMA PostKeeps ==
    ASSUME CallsInv, NEW t \in Thread, PostBegin(t)
    PROVE  CallsInv'
<1>1. PICK q : q = Turned(todo[t], "posting")
  OBVIOUS
<1>2. todo[t] # <<>> /\ Head(todo[t]).op = "post" /\ holder' = holder /\ cmds' = cmds
  BY DEF PostBegin, At
<1>3. q \in Rests(Programs, t) /\ Holds(q) = Holds(todo[t])
  BY <1>1, <1>2, NextOf DEF Paired
<1>4. todo' = [todo EXCEPT ![t] = q]
  BY <1>1 DEF PostBegin, Become, Turned, Arg
<1>5. Head(q).op # "pushing"
  BY <1>1 DEF Turned
<1>6. holder' \in [Lock -> Thread \cup {Free}] /\ Holders'
  BY <1>2, <1>3, <1>4, SameLocks
<1>7. ~At(t, "pushing")
  BY <1>2 DEF At
<1> QED BY <1>2, <1>3, <1>4, <1>5, <1>6, <1>7, Moves

(* A command that is left to the worker is put on the list, and its caller *)
(* goes on.                                                                *)
LEMMA DeferKeeps ==
    ASSUME CallsInv, NEW t \in Thread, todo[t] # <<>>, Append1(t, Worker, "wait"), Advance(t),
           holder' = holder, Head(todo[t]).op \in {"tell", "defer"}
    PROVE  CallsInv'
<1>1. PICK q : q = Tail(todo[t])
  OBVIOUS
<1>2. /\ q \in Rests(Programs, t) /\ (q # <<>> => Head(q).op # "pushing") /\ Holds(q) = Holds(todo[t])
      /\ Head(todo[t]) \in [op : STRING, arg : STRING]
  BY <1>1, NextOf DEF Paired
<1>3. todo' = [todo EXCEPT ![t] = q]
  BY <1>1 DEF Advance
<1>4. holder' \in [Lock -> Thread \cup {Free}] /\ Holders'
  BY <1>2, <1>3, SameLocks
<1>5. /\ todo \in [Thread -> UNION {Rests(Programs, u) : u \in Thread}] /\ (\A u \in Thread : todo[u] \in Rests(Programs, u))
      /\ cmds \in Seq([from : Thread, by : Thread \cup {Worker}, msg : STRING, ph : Phase])
  BY DEF CallsInv, Typed
<1>6. todo'[t] = q /\ \A u \in Thread \ {t} : todo'[u] = todo[u]
  BY <1>3, <1>5
<1>7. PICK c \in [from : Thread, by : Thread \cup {Worker}, msg : STRING, ph : Phase] :
         c.by = Worker /\ cmds' = Append(cmds, c)
  BY <1>2 DEF Append1, Arg, Phase
<1>8. PICK n \in Nat : n = Len(cmds) /\ DOMAIN cmds = 1 .. n
  BY <1>5
<1>9. /\ cmds' \in Seq([from : Thread, by : Thread \cup {Worker}, msg : STRING, ph : Phase])
      /\ DOMAIN cmds' = 1 .. n + 1 /\ cmds'[n + 1] = c /\ \A i \in 1 .. n : cmds'[i] = cmds[i]
  BY <1>5, <1>7, <1>8
<1>10. Typed'
  <2>1. todo' \in [Thread -> UNION {Rests(Programs, u) : u \in Thread}]
    BY <1>2, <1>3, <1>5
  <2>2. \A u \in Thread : todo'[u] \in Rests(Programs, u)
    BY <1>2, <1>5, <1>6
  <2> QED BY <1>4, <1>9, <2>1, <2>2 DEF Typed
<1>11. ASSUME NEW i \in DOMAIN cmds', cmds'[i].by \in Thread
       PROVE  /\ i \in DOMAIN cmds /\ cmds'[i] = cmds[i] /\ cmds[i].by # t
              /\ todo'[cmds[i].by] # <<>>
              /\ Head(todo'[cmds[i].by]) = [op |-> "pushing", arg |-> cmds[i].msg]
  <2>1. i # n + 1
    BY <1>7, <1>9, <1>11, ProgramsAssumption
  <2>2. i \in DOMAIN cmds /\ cmds'[i] = cmds[i]
    BY <1>8, <1>9, <2>1
  <2>3. /\ todo[cmds[i].by] # <<>>
        /\ Head(todo[cmds[i].by]) = [op |-> "pushing", arg |-> cmds[i].msg]
    BY <1>11, <2>2 DEF CallsInv, Pushers
  <2>4. cmds[i].by # t
    BY <2>3
  <2> QED BY <1>6, <1>11, <2>2, <2>3, <2>4
<1>12. Pushers'
  <2>1. ASSUME NEW i \in DOMAIN cmds', NEW j \in DOMAIN cmds', cmds'[i].by \in Thread, cmds'[i].by = cmds'[j].by
        PROVE  i = j
    <3>1. i \in DOMAIN cmds /\ j \in DOMAIN cmds /\ cmds[i].by \in Thread /\ cmds[i].by = cmds[j].by
      BY <1>11, <2>1
    <3> QED BY <3>1 DEF CallsInv, Pushers
  <2>2. ASSUME NEW u \in Thread, At(u, "pushing")' PROVE \E i \in DOMAIN cmds' : cmds'[i].by = u
    <3>1. At(u, "pushing")
      BY <1>2, <1>6, <2>2 DEF At
    <3>2. PICK i \in DOMAIN cmds : cmds[i].by = u
      BY <3>1 DEF CallsInv, Pushers
    <3> QED BY <1>8, <1>9, <3>2
  <2> QED BY <1>11, <2>1, <2>2 DEF Pushers
<1> QED BY <1>4, <1>10, <1>12 DEF CallsInv

(* A command that its caller pushes is put on the list.                    *)
LEMMA PushKeeps ==
    ASSUME CallsInv, NEW t \in Thread, todo[t] # <<>>, Append1(t, t, "sent"), Become(t, "pushing"),
           holder' = holder, Pushes(Head(todo[t]))
    PROVE  CallsInv'
<1>1. PICK q : q = Turned(todo[t], "pushing")
  OBVIOUS
<1>2. /\ q \in Rests(Programs, t) /\ Holds(q) = Holds(todo[t])
      /\ Head(todo[t]) \in [op : STRING, arg : STRING]
  BY <1>1, NextOf DEF Paired
<1>3. todo' = [todo EXCEPT ![t] = q]
  BY <1>1 DEF Become, Turned, Arg
<1>4. holder' \in [Lock -> Thread \cup {Free}] /\ Holders'
  BY <1>2, <1>3, SameLocks
<1>5. /\ todo \in [Thread -> UNION {Rests(Programs, u) : u \in Thread}] /\ (\A u \in Thread : todo[u] \in Rests(Programs, u))
      /\ cmds \in Seq([from : Thread, by : Thread \cup {Worker}, msg : STRING, ph : Phase])
  BY DEF CallsInv, Typed
<1>6. todo'[t] = q /\ \A u \in Thread \ {t} : todo'[u] = todo[u]
  BY <1>2, <1>3, <1>5
<1>7. PICK c \in [from : Thread, by : Thread \cup {Worker}, msg : STRING, ph : Phase] :
         c.by = t /\ c.msg = Head(todo[t]).arg /\ cmds' = Append(cmds, c)
  BY <1>2 DEF Append1, Arg, Phase
<1>8. PICK n \in Nat : n = Len(cmds) /\ DOMAIN cmds = 1 .. n
  BY <1>5
<1>9. /\ cmds' \in Seq([from : Thread, by : Thread \cup {Worker}, msg : STRING, ph : Phase])
      /\ DOMAIN cmds' = 1 .. n + 1 /\ cmds'[n + 1] = c /\ \A i \in 1 .. n : cmds'[i] = cmds[i]
  BY <1>5, <1>7, <1>8
<1>10. Typed'
  <2>1. todo' \in [Thread -> UNION {Rests(Programs, u) : u \in Thread}]
    BY <1>2, <1>3, <1>5
  <2>2. \A u \in Thread : todo'[u] \in Rests(Programs, u)
    BY <1>2, <1>5, <1>6
  <2> QED BY <1>4, <1>9, <2>1, <2>2 DEF Typed
<1>11. q # <<>> /\ Head(q) = [op |-> "pushing", arg |-> c.msg]
  BY <1>1, <1>7 DEF Turned
<1>12. Head(todo[t]).op # "pushing"
  BY DEF Pushes
<1>13. ASSUME NEW i \in DOMAIN cmds, cmds[i].by \in Thread
       PROVE  /\ cmds[i].by # t
              /\ todo'[cmds[i].by] # <<>>
              /\ Head(todo'[cmds[i].by]) = [op |-> "pushing", arg |-> cmds[i].msg]
  <2>1. /\ todo[cmds[i].by] # <<>>
        /\ Head(todo[cmds[i].by]) = [op |-> "pushing", arg |-> cmds[i].msg]
    BY <1>13 DEF CallsInv, Pushers
  <2>2. cmds[i].by # t
    BY <1>12, <2>1
  <2> QED BY <1>6, <1>13, <2>1, <2>2
<1>14. \A i \in DOMAIN cmds' : \/ i = n + 1 /\ cmds'[i] = c
                               \/ i \in DOMAIN cmds /\ cmds'[i] = cmds[i]
  BY <1>8, <1>9
<1>15. Pushers'
  <2>1. ASSUME NEW i \in DOMAIN cmds', cmds'[i].by \in Thread
        PROVE  /\ todo'[cmds'[i].by] # <<>>
               /\ Head(todo'[cmds'[i].by]) = [op |-> "pushing", arg |-> cmds'[i].msg]
    <3>1. CASE i = n + 1 /\ cmds'[i] = c
      BY <1>6, <1>7, <1>11, <3>1
    <3>2. CASE i \in DOMAIN cmds /\ cmds'[i] = cmds[i]
      BY <1>13, <2>1, <3>2
    <3> QED BY <1>14, <3>1, <3>2
  <2>2. ASSUME NEW i \in DOMAIN cmds', NEW j \in DOMAIN cmds', cmds'[i].by \in Thread, cmds'[i].by = cmds'[j].by
        PROVE  i = j
    <3>1. CASE i \in DOMAIN cmds /\ cmds'[i] = cmds[i] /\ j \in DOMAIN cmds /\ cmds'[j] = cmds[j]
      BY <2>2, <3>1 DEF CallsInv, Pushers
    <3>2. CASE i = n + 1 /\ cmds'[i] = c /\ j \in DOMAIN cmds /\ cmds'[j] = cmds[j]
      BY <1>7, <1>13, <2>2, <3>2
    <3>3. CASE i \in DOMAIN cmds /\ cmds'[i] = cmds[i] /\ j = n + 1 /\ cmds'[j] = c
      BY <1>7, <1>13, <2>2, <3>3
    <3> QED BY <1>14, <3>1, <3>2, <3>3
  <2>3. ASSUME NEW u \in Thread, At(u, "pushing")' PROVE \E i \in DOMAIN cmds' : cmds'[i].by = u
    <3>1. CASE u = t
      <4>1. n + 1 \in DOMAIN cmds' /\ cmds'[n + 1].by = u
        BY <1>7, <1>8, <1>9, <3>1
      <4> QED BY <4>1
    <3>2. CASE u # t
      <4>1. At(u, "pushing")
        BY <1>6, <2>3, <3>2 DEF At
      <4>2. PICK i \in DOMAIN cmds : cmds[i].by = u
        BY <4>1 DEF CallsInv, Pushers
      <4> QED BY <1>8, <1>9, <4>2
    <3> QED BY <3>1, <3>2
  <2> QED BY <2>1, <2>2, <2>3 DEF Pushers
<1> QED BY <1>4, <1>10, <1>15 DEF CallsInv

(* A command goes from one phase to the next.                              *)
LEMMA PhaseKeeps ==
    ASSUME CallsInv, NEW i \in DOMAIN cmds, NEW p \in Phase, cmds' = [cmds EXCEPT ![i].ph = p],
           todo' = todo, holder' = holder
    PROVE  CallsInv'
<1>1. cmds \in Seq([from : Thread, by : Thread \cup {Worker}, msg : STRING, ph : Phase])
  BY DEF CallsInv, Typed
<1>2. PICK c : c = [cmds[i] EXCEPT !.ph = p]
  OBVIOUS
<1>3. cmds' = [cmds EXCEPT ![i] = c]
  BY <1>2
<1>4. /\ c \in [from : Thread, by : Thread \cup {Worker}, msg : STRING, ph : Phase]
      /\ c.by = cmds[i].by /\ c.msg = cmds[i].msg
  <2>1. PICK b \in [from : Thread, by : Thread \cup {Worker}, msg : STRING, ph : Phase] : b = cmds[i]
    <3>1. PICK C : C = [from : Thread, by : Thread \cup {Worker}, msg : STRING, ph : Phase]
      OBVIOUS
    <3>2. cmds \in Seq(C)
      BY <1>1, <3>1
    <3>3. cmds[i] \in C
      BY <3>2
    <3> QED BY <3>1, <3>3
  <2>2. c = [b EXCEPT !.ph = p]
    BY <1>2, <2>1
  <2> QED BY <2>1, <2>2
<1>5. /\ cmds' \in Seq([from : Thread, by : Thread \cup {Worker}, msg : STRING, ph : Phase])
      /\ DOMAIN cmds' = DOMAIN cmds
  <2>1. i \in 1 .. Len(cmds) /\ DOMAIN cmds = 1 .. Len(cmds)
    BY <1>1
  <2>2. PICK d : d = [cmds EXCEPT ![i] = c]
    OBVIOUS
  <2>3. d \in Seq([from : Thread, by : Thread \cup {Worker}, msg : STRING, ph : Phase])
        /\ Len(d) = Len(cmds)
    BY <1>1, <1>4, <2>1, <2>2, ExceptSeq
  <2>4. DOMAIN d = 1 .. Len(d)
    BY <2>3
  <2> QED BY <1>3, <2>1, <2>2, <2>3, <2>4
<1>6. \A j \in DOMAIN cmds : cmds'[j].by = cmds[j].by /\ cmds'[j].msg = cmds[j].msg
  <2> TAKE j \in DOMAIN cmds
  <2>1. cmds'[j] = IF j = i THEN c ELSE cmds[j]
    BY <1>1, <1>3
  <2> QED BY <1>4, <2>1
<1>7. Typed' /\ Holders'
  BY <1>5 DEF CallsInv, Typed, Holders
<1>8. Pushers'
  BY <1>5, <1>6 DEF CallsInv, Pushers, At
<1> QED BY <1>7, <1>8 DEF CallsInv

(* A command is taken off the list by the thread that waited for it.       *)
LEMMA LeaveKeeps ==
    ASSUME CallsInv, NEW i \in DOMAIN cmds, cmds' = Without(i), holder' = holder,
           IF cmds[i].by = Worker THEN todo' = todo ELSE Advance(cmds[i].by)
    PROVE  CallsInv'
<1> DEFINE C == [from : Thread, by : Thread \cup {Worker}, msg : STRING, ph : Phase]
<1> HIDE DEF C
<1>1. cmds \in Seq(C) /\ todo \in [Thread -> UNION {Rests(Programs, u) : u \in Thread}]
  BY DEF CallsInv, Typed, C
<1>2. PICK n \in Nat : n = Len(cmds) /\ DOMAIN cmds = 1 .. n /\ i \in 1 .. n
  BY <1>1
<1>3. PICK d \in Seq(C) :
         /\ d = Without(i) /\ Len(d) = n - 1
         /\ \A k \in 1 .. Len(d) : IF k < i THEN d[k] = cmds[k] ELSE d[k] = cmds[k + 1]
  BY <1>1, <1>2, WithoutIs DEF Without
<1>4. cmds' = d /\ DOMAIN d = 1 .. n - 1
  BY <1>3
<1>5. PICK b : b = cmds[i].by
  OBVIOUS
<1>6. b \in Thread \cup {Worker} /\ Worker \notin Thread
  <2>1. cmds[i] \in C
    BY <1>1, <1>2
  <2>2. cmds[i].by \in Thread \cup {Worker}
    BY <2>1 DEF C
  <2> QED BY <1>5, <2>2, ProgramsAssumption
<1>7. \A k \in 1 .. n - 1 : \E j \in DOMAIN cmds :
         j # i /\ d[k] = cmds[j] /\ (IF k < i THEN j = k ELSE j = k + 1)
  <2> TAKE k \in 1 .. n - 1
  <2>1. CASE k < i
    BY <1>2, <1>3, <2>1
  <2>2. CASE ~(k < i)
    <3>1. k + 1 \in DOMAIN cmds /\ k + 1 # i
      BY <1>2, <2>2
    <3> QED BY <1>3, <2>2, <3>1
  <2> QED BY <2>1, <2>2
<1>8. \A j \in DOMAIN cmds : j # i => \E k \in 1 .. n - 1 : d[k] = cmds[j]
  <2> SUFFICES ASSUME NEW j \in 1 .. n, j # i PROVE \E k \in 1 .. n - 1 : d[k] = cmds[j]
    BY <1>2
  <2>1. CASE j < i
    <3>1. j \in 1 .. n - 1 /\ d[j] = cmds[j]
      BY <1>2, <1>3, <2>1
    <3> QED BY <3>1
  <2>2. CASE j > i
    <3>1. PICK k \in 1 .. n - 1 : k = j - 1
      BY <1>2, <2>2
    <3>2. ~(k < i) /\ k + 1 = j
      BY <1>2, <2>2, <3>1
    <3>3. d[k] = cmds[j]
      BY <1>3, <3>1, <3>2
    <3> QED BY <3>3
  <2> QED BY <1>2, <2>1, <2>2
<1>9. \A j \in DOMAIN cmds : cmds[j].by \in Thread /\ j # i => cmds[j].by # b
  BY <1>5 DEF CallsInv, Pushers
<1>10. /\ Typed' /\ Holders'
       /\ \A u \in Thread \ {b} : todo'[u] = todo[u]
       /\ b \in Thread => ~At(b, "pushing")'
  <2>1. CASE b = Worker
    <3>1. todo' = todo
      BY <1>5, <2>1
    <3>2. Typed' /\ Holders'
      BY <1>3, <1>4, <3>1 DEF CallsInv, Typed, Holders, C
    <3> QED BY <1>6, <2>1, <3>1, <3>2
  <2>2. CASE b \in Thread
    <3>1. todo[b] # <<>> /\ Head(todo[b]) = [op |-> "pushing", arg |-> cmds[i].msg]
      BY <1>5, <2>2 DEF CallsInv, Pushers
    <3>2. PICK q : q = Tail(todo[b])
      OBVIOUS
    <3>3. q \in Rests(Programs, b) /\ (q # <<>> => Head(q).op # "pushing") /\ Holds(q) = Holds(todo[b])
      BY <2>2, <3>1, <3>2, NextOf DEF Paired
    <3>4. todo' = [todo EXCEPT ![b] = q]
      BY <1>5, <1>6, <2>2, <3>2 DEF Advance
    <3>5. holder' \in [Lock -> Thread \cup {Free}] /\ Holders'
      BY <2>2, <3>3, <3>4, SameLocks
    <3>6. todo'[b] = q /\ \A u \in Thread \ {b} : todo'[u] = todo[u]
      BY <1>1, <2>2, <3>4
    <3>7. todo' \in [Thread -> UNION {Rests(Programs, u) : u \in Thread}]
      BY <1>1, <2>2, <3>3, <3>4
    <3>8. \A u \in Thread : todo'[u] \in Rests(Programs, u)
      BY <3>3, <3>6 DEF CallsInv, Typed
    <3>9. Typed'
      BY <1>3, <1>4, <3>5, <3>7, <3>8 DEF Typed, C
    <3>10. ~At(b, "pushing")'
      BY <3>3, <3>6 DEF At
    <3> QED BY <3>5, <3>6, <3>9, <3>10
  <2> QED BY <1>6, <2>1, <2>2
<1>11. Pushers'
  <2>1. ASSUME NEW k \in DOMAIN cmds', cmds'[k].by \in Thread
        PROVE  /\ todo'[cmds'[k].by] # <<>>
               /\ Head(todo'[cmds'[k].by]) = [op |-> "pushing", arg |-> cmds'[k].msg]
    <3>1. PICK j \in DOMAIN cmds : j # i /\ cmds'[k] = cmds[j]
      BY <1>4, <1>7
    <3>2. cmds[j].by \in Thread \ {b}
      BY <1>9, <2>1, <3>1
    <3>3. /\ todo[cmds[j].by] # <<>>
          /\ Head(todo[cmds[j].by]) = [op |-> "pushing", arg |-> cmds[j].msg]
      BY <3>2 DEF CallsInv, Pushers
    <3> QED BY <1>10, <3>1, <3>2, <3>3
  <2>2. ASSUME NEW k \in DOMAIN cmds', NEW m \in DOMAIN cmds', cmds'[k].by \in Thread,
               cmds'[k].by = cmds'[m].by
        PROVE  k = m
    <3>1. k \in 1 .. n - 1 /\ m \in 1 .. n - 1
      BY <1>4
    <3>2. PICK j \in DOMAIN cmds : j # i /\ d[k] = cmds[j] /\ (IF k < i THEN j = k ELSE j = k + 1)
      BY <1>7, <3>1
    <3>3. PICK h \in DOMAIN cmds : h # i /\ d[m] = cmds[h] /\ (IF m < i THEN h = m ELSE h = m + 1)
      BY <1>7, <3>1
    <3>4. cmds[j].by \in Thread /\ cmds[j].by = cmds[h].by
      BY <1>4, <2>2, <3>2, <3>3
    <3>5. j = h
      BY <3>4 DEF CallsInv, Pushers
    <3> QED BY <1>2, <3>1, <3>2, <3>3, <3>5
  <2>3. ASSUME NEW u \in Thread, At(u, "pushing")' PROVE \E k \in DOMAIN cmds' : cmds'[k].by = u
    <3>1. u # b
      BY <1>10, <2>3
    <3>2. At(u, "pushing")
      BY <1>10, <2>3, <3>1 DEF At
    <3>3. PICK j \in DOMAIN cmds : cmds[j].by = u
      BY <3>2 DEF CallsInv, Pushers
    <3>4. j # i
      BY <1>5, <3>1, <3>3
    <3>5. PICK k \in 1 .. n - 1 : d[k] = cmds[j]
      BY <1>8, <3>4
    <3> QED BY <1>4, <3>3, <3>5
  <2> QED BY <2>1, <2>2, <2>3 DEF Pushers
<1> QED BY <1>10, <1>11 DEF CallsInv

(* One step of a call.                                                     *)
LEMMA StepKeeps ==
    ASSUME CallsInv, NEW t \in Thread, Step(t)
    PROVE  CallsInv'
<1>1. todo[t] # <<>>
  BY DEF Step
<1>2. CASE Acquire(t)
  BY <1>2, AcquireKeeps
<1>3. CASE Release(t)
  BY <1>3, ReleaseKeeps
<1>4. CASE Pass(t) \/ QueueWork(t) \/ FlushWork(t) \/ Refused(t) \/ PostEnd(t)
  <2>1. /\ Advance(t) /\ holder' = holder /\ cmds' = cmds
        /\ Head(todo[t]).op \notin {"lock", "unlock", "pushing"}
    BY <1>4 DEF Pass, QueueWork, FlushWork, Refused, PostEnd, At
  <2> QED BY <1>1, <2>1, PlainKeeps
<1>5. CASE CancelWork(t)
  BY <1>5, CancelKeeps
<1>6. CASE PostBegin(t)
  BY <1>6, PostKeeps
<1>7. CASE QueueAsk(t)
  <2>1. Append1(t, t, "sent") /\ Become(t, "pushing") /\ holder' = holder /\ Pushes(Head(todo[t]))
    BY <1>7 DEF QueueAsk, Pushes, At
  <2> QED BY <1>1, <2>1, PushKeeps
<1>8. CASE QueueTell(t)
  <2>1. Head(todo[t]).op = "tell" /\ holder' = holder
    BY <1>8 DEF QueueTell, At
  <2>2. CASE LastPending \/ AlwaysDeferred(Arg(t))
    <3>1. Append1(t, Worker, "wait") /\ Advance(t)
      BY <1>8, <2>2 DEF QueueTell
    <3> QED BY <1>1, <2>1, <3>1, DeferKeeps
  <2>3. CASE ~(LastPending \/ AlwaysDeferred(Arg(t)))
    <3>1. Append1(t, t, "sent") /\ Become(t, "pushing")
      BY <1>8, <2>3 DEF QueueTell
    <3>2. Pushes(Head(todo[t]))
      BY <2>1, <2>3 DEF AlwaysDeferred, Arg, Pushes
    <3> QED BY <1>1, <2>1, <3>1, <3>2, PushKeeps
  <2> QED BY <2>2, <2>3
<1>9. CASE QueueDefer(t)
  <2>1. Append1(t, Worker, "wait") /\ Advance(t) /\ holder' = holder /\ Head(todo[t]).op = "defer"
    BY <1>9 DEF QueueDefer, At
  <2> QED BY <1>1, <2>1, DeferKeeps
<1> QED BY <1>2, <1>3, <1>4, <1>5, <1>6, <1>7, <1>8, <1>9 DEF Step

(* The calls keep to their paths, whoever makes them and in what order.    *)
THEOREM SpecCallsInv == Spec => []CallsInv
<1>1. Init => CallsInv
  <2> SUFFICES ASSUME Init PROVE CallsInv
    OBVIOUS
  <2>1. /\ \A t \in Thread : todo[t] = <<>>
        /\ \A l \in Lock : holder[l] = Free
        /\ cmds = <<>> /\ DOMAIN cmds = {}
    BY DEF Init
  <2>2. \A t \in Thread : <<>> \in Rests(Programs, t) /\ Holds(<<>>) = {}
    BY CallsWritten DEF WellWritten, Thread
  <2>3. todo \in [Thread -> UNION {Rests(Programs, t) : t \in Thread}]
    BY <2>2 DEF Init
  <2>4. Typed
    BY <2>1, <2>2, <2>3 DEF Typed, Init
  <2>5. Holders
    BY <2>1, <2>2, ProgramsAssumption DEF Holders
  <2>6. Pushers
    BY <2>1 DEF Pushers, At
  <2> QED BY <2>4, <2>5, <2>6 DEF CallsInv
<1>2. CallsInv /\ [Next]_vars => CallsInv'
  <2> SUFFICES ASSUME CallsInv, [Next]_vars PROVE CallsInv'
    OBVIOUS
  <2>1. CASE UNCHANGED vars
    BY <2>1 DEF vars, CallsInv, Typed, Holders, Pushers, At
  <2>2. ASSUME NEW t \in Thread, Begin(t) PROVE CallsInv'
    BY <2>2, BeginKeeps DEF Begin
  <2>3. ASSUME NEW t \in Thread, RunWork(t) PROVE CallsInv'
    BY <2>3, BeginKeeps DEF RunWork
  <2>4. ASSUME NEW t \in Thread, Step(t) PROVE CallsInv'
    BY <2>4, StepKeeps
  <2>5. ASSUME NEW i \in DOMAIN cmds, Command(i) PROVE CallsInv'
    <3>1. CASE Confirmed(i)
      <4>1. "done" \in Phase /\ cmds' = [cmds EXCEPT ![i].ph = "done"] /\ todo' = todo /\ holder' = holder
        BY <3>1 DEF Confirmed, Phase
      <4> QED BY <4>1, PhaseKeeps
    <3>2. CASE Taken(i) \/ Timeout(i)
      <4>1. /\ cmds' = Without(i) /\ holder' = holder
            /\ IF cmds[i].by = Worker THEN todo' = todo ELSE Advance(cmds[i].by)
        BY <3>2 DEF Taken, Timeout
      <4> QED BY <4>1, LeaveKeeps
    <3> QED BY <2>5, <3>1, <3>2 DEF Command
  <2>6. CASE WorkerPush
    <3>1. PICK i \in DOMAIN cmds : i = 1
      BY <2>6 DEF WorkerPush, CallsInv, Typed
    <3>2. "sent" \in Phase /\ cmds' = [cmds EXCEPT ![i].ph = "sent"] /\ todo' = todo /\ holder' = holder
      BY <2>6, <3>1 DEF WorkerPush, Phase
    <3> QED BY <3>2, PhaseKeeps
  <2> QED BY <2>1, <2>2, <2>3, <2>4, <2>5, <2>6 DEF Next
<1> QED BY <1>1, <1>2, PTL DEF Spec

(* How deep in a wait the next step of a thread, or the worker, may be.    *)
Rank(u) == IF u = Worker THEN WorkerLevel ELSE Level(Head(todo[u]))

(* The thread that waits for a command is at the push, the worker above it.*)
LEMMA WaiterRank ==
    ASSUME CallsInv, NEW i \in DOMAIN cmds
    PROVE  /\ cmds[i].by \in Thread \cup {Worker}
           /\ cmds[i].by = Worker => Rank(cmds[i].by) = WorkerLevel
           /\ cmds[i].by # Worker => Rank(cmds[i].by) = PushLevel
<1>1. PICK C : C = [from : Thread, by : Thread \cup {Worker}, msg : STRING, ph : Phase]
  OBVIOUS
<1>2. cmds[i] \in C
  <2>1. cmds \in Seq(C)
    BY <1>1 DEF CallsInv, Typed
  <2> QED BY <2>1
<1>3. cmds[i].by \in Thread \cup {Worker}
  BY <1>1, <1>2
<1>4. ASSUME cmds[i].by # Worker PROVE Rank(cmds[i].by) = PushLevel
  <2>1. Head(todo[cmds[i].by]) = [op |-> "pushing", arg |-> cmds[i].msg]
    BY <1>3, <1>4 DEF CallsInv, Pushers
  <2>2. Level([op |-> "pushing", arg |-> cmds[i].msg]) = PushLevel
    BY DEF Level
  <2> QED BY <1>4, <2>1, <2>2 DEF Rank
<1> QED BY <1>3, <1>4 DEF Rank

(* A push that is one of the known waits is on the list as one.            *)
LEMMA KnownIsListed ==
    ASSUME CallsInv, NEW t \in Thread, NEW l, todo[t] # <<>>, KnownStep(t, Head(todo[t]), l),
           l = "cb" => holder["cb"] = t
    PROVE  KnownWait
<1>1. PICK i \in DOMAIN cmds : cmds[i].by = t
  BY DEF KnownStep, CallsInv, Pushers, At
<1>2. Head(todo[t]) = [op |-> "pushing", arg |-> cmds[i].msg]
  BY <1>1 DEF CallsInv, Pushers
<1>3. \/ cmds[i].by = "rx" /\ cmds[i].msg = "SM_EXTERNAL_AUTH_REQUIRED_RSP"
      \/ cmds[i].msg = "APM_STOP_CAC" /\ holder["cb"] = cmds[i].by
  BY <1>1, <1>2 DEF KnownStep
<1> QED BY <1>3 DEF KnownWait

(* The receive thread is below every command.                              *)
LEMMA ReceiverBelow ==
    ASSUME CallsInv, ~KnownWait, todo["rx"] # <<>>
    PROVE  Rank("rx") < PushLevel
<1>1. "rx" \in Thread /\ "rx" # Worker
  BY ProgramsAssumption DEF Worker
<1>2. PICK q \in Rests(Programs, "rx") : q = todo["rx"]
  BY <1>1 DEF CallsInv, Typed
<1>3. Level(Head(q)) < PushLevel \/ KnownStep("rx", Head(q), "none")
  BY <1>1, <1>2, RestIs DEF Downwards
<1>4. ~KnownStep("rx", Head(q), "none")
  BY <1>1, <1>2, KnownIsListed
<1> QED BY <1>1, <1>2, <1>3, <1>4 DEF Rank

(* The holder of a lock is below it.                                       *)
LEMMA HolderBelow ==
    ASSUME CallsInv, ~KnownWait, NEW l \in Lock, holder[l] # Free
    PROVE  Rank(holder[l]) < LockLevel(l)
<1>1. PICK v \in Thread : v = holder[l]
  BY DEF CallsInv, Typed
<1>2. v # Worker
  BY ProgramsAssumption
<1>3. PICK q \in Rests(Programs, v) : q = todo[v]
  BY DEF CallsInv, Typed
<1>4. l \in Holds(q)
  BY <1>1, <1>3 DEF CallsInv, Holders
<1>5. q # <<>>
  BY <1>4, CallsWritten DEF WellWritten, Thread
<1>6. Level(Head(q)) < LockLevel(l) \/ KnownStep(v, Head(q), l)
  BY <1>3, <1>4, <1>5, RestIs DEF Downwards
<1>7. ~KnownStep(v, Head(q), l)
  BY <1>1, <1>3, <1>5, KnownIsListed
<1> QED BY <1>1, <1>2, <1>3, <1>6, <1>7 DEF Rank

(* A thread waits only for one that is deeper in its waits.                *)
LEMMA WaitsLower ==
    ASSUME CallsInv, ~KnownWait, NEW u \in Busy \cup {Worker}, NEW v \in Busy \cup {Worker},
           v \in WaitsFor(u)
    PROVE  Rank(v) < Rank(u)
<1>1. PushLevel = 4 /\ WorkerLevel = 5 /\ Worker \notin Thread
  BY ProgramsAssumption DEF PushLevel, WorkerLevel
<1>2. Rank(v) \in Nat
  BY LevelIs, <1>1 DEF Rank
<1>3. ASSUME NEW i \in DOMAIN cmds, v \in ForConfirmation(i) PROVE Rank(v) < PushLevel
  BY <1>3, ReceiverBelow DEF ForConfirmation
<1>4. CASE u = Worker
  <2>1. Rank(u) = WorkerLevel
    BY <1>4 DEF Rank
  <2>2. cmds # <<>>
    BY <1>4 DEF WaitsFor, WorkerWaits
  <2>3. PICK i \in DOMAIN cmds : i = 1
    BY <2>2 DEF CallsInv, Typed
  <2>4. CASE cmds[i].by = Worker
    <3>1. v \in ForConfirmation(i)
      BY <1>4, <2>2, <2>3, <2>4 DEF WaitsFor, WorkerWaits
    <3> QED BY <1>1, <1>2, <1>3, <2>1, <3>1
  <2>5. CASE cmds[i].by # Worker
    <3>1. v = cmds[i].by
      BY <1>4, <2>2, <2>3, <2>5 DEF WaitsFor, WorkerWaits
    <3> QED BY <1>1, <2>1, <2>5, <3>1, WaiterRank
  <2> QED BY <2>4, <2>5
<1>5. CASE u # Worker
  <2>1. u \in Thread /\ todo[u] # <<>>
    BY <1>5 DEF Busy
  <2>2. PICK q \in Rests(Programs, u) : q = todo[u] /\ q # <<>>
    BY <2>1 DEF CallsInv, Typed
  <2>3. Rank(u) = Level(Head(q))
    BY <1>5, <2>2 DEF Rank
  <2>4. Paired(Programs, u, q) /\ Downwards(Programs, u, q)
    BY <2>1, <2>2, RestIs
  <2>5. CASE Head(q).op \in {"lock", "touch"}
    <3>1. PICK l \in Lock : l = Head(q).arg
      BY <2>4, <2>5 DEF Paired
    <3>2. v = holder[l] /\ holder[l] # Free
      BY <1>5, <2>2, <2>5, <3>1 DEF WaitsFor, ThreadWaits, At, Arg
    <3>3. Level(Head(q)) = LockLevel(l)
      BY <2>5, <3>1 DEF Level
    <3> QED BY <2>3, <3>2, <3>3, HolderBelow
  <2>6. CASE Head(q).op = "flush"
    <3>1. v = Head(q).arg /\ v \in Busy
      BY <1>5, <2>2, <2>6 DEF WaitsFor, ThreadWaits, At, Arg
    <3>2. v \in Thread /\ v # Worker /\ todo[v] \in Rests(Programs, v) \ {<<>>}
      BY <1>1, <3>1 DEF Busy, CallsInv, Typed
    <3>3. Level(Head(todo[v])) < Level(Head(q))
      BY <2>4, <2>6, <3>1, <3>2 DEF Downwards
    <3> QED BY <2>3, <3>2, <3>3 DEF Rank
  <2>7. CASE Head(q).op = "pushing"
    <3>1. PICK i \in DOMAIN cmds : v \in ForConfirmation(i)
      BY <1>5, <2>2, <2>7 DEF WaitsFor, ThreadWaits, At
    <3>2. Level(Head(q)) = PushLevel
      BY <2>7 DEF Level
    <3> QED BY <1>3, <2>3, <3>1, <3>2
  <2>8. CASE Head(q).op = "ask"
    <3>1. PICK i \in DOMAIN cmds : v = cmds[i].by
      BY <1>5, <2>2, <2>8 DEF WaitsFor, ThreadWaits, At
    <3>2. Level(Head(q)) = WorkerLevel + 1
      BY <2>8 DEF Level
    <3> QED BY <1>1, <2>3, <3>1, <3>2, WaiterRank
  <2>9. CASE Head(q).op \notin {"lock", "touch", "flush", "pushing", "ask"}
    <3>1. WaitsFor(u) = {}
      BY <1>5, <2>2, <2>9 DEF WaitsFor, ThreadWaits, At
    <3> QED BY <3>1
  <2> QED BY <2>5, <2>6, <2>7, <2>8, <2>9
<1> QED BY <1>4, <1>5

(* A set of numbers that is not empty has a least one.                     *)
LEMMA LeastRank ==
    ASSUME NEW N, N \subseteq Nat, N # {}
    PROVE  \E n \in N : \A m \in N : n <= m
<1>1. IsWellFoundedOn(OpToRel(<, Nat), Nat)
  BY NatLessThanWellFounded
<1>2. PICK n \in N : \A m \in N : ~(<<m, n>> \in OpToRel(<, Nat))
  BY <1>1, WFMin
<1>3. \A m \in N : ~(m < n)
  BY <1>2 DEF OpToRel
<1> QED BY <1>3

(* Then no set of them waits for one another.                              *)
LEMMA NoCycle ==
    ASSUME CallsInv
    PROVE  NoWaitCycle
<1> SUFFICES ASSUME ~KnownWait, NEW t \in Busy \cup {Worker}, InCycle(t) PROVE FALSE
  BY DEF NoWaitCycle
<1>1. PICK S \in SUBSET (Busy \cup {Worker}) : t \in S /\ \A u \in S : WaitsFor(u) \cap S # {}
  BY DEF InCycle
<1>2. \A u \in S : Rank(u) \in Nat
  BY LevelIs DEF Rank, WorkerLevel
<1>3. PICK N : N = {Rank(u) : u \in S}
  OBVIOUS
<1>4. PICK n \in N : \A m \in N : n <= m
  <2>1. N \subseteq Nat /\ N # {}
    BY <1>1, <1>2, <1>3
  <2> QED BY <2>1, LeastRank
<1>5. PICK u \in S : Rank(u) = n
  BY <1>3, <1>4
<1>6. PICK v \in S : v \in WaitsFor(u)
  BY <1>1
<1>7. Rank(v) < Rank(u)
  BY <1>1, <1>6, WaitsLower
<1>8. Rank(v) \in N /\ Rank(v) \in Nat /\ n \in Nat
  BY <1>2, <1>3, <1>5
<1> QED BY <1>4, <1>5, <1>7, <1>8

(* A thread in an atomic part sleeps in none but the known steps.          *)
LEMMA Awake ==
    ASSUME CallsInv
    PROVE  AtomicNeverSleeps
<1> SUFFICES ASSUME NEW t \in Busy, SleepsAtomic(t) PROVE Arg(t) \in KnownSleeps
  BY DEF AtomicNeverSleeps
<1>1. t \in Thread /\ todo[t] # <<>>
  BY DEF Busy
<1>2. PICK q \in Rests(Programs, t) : q = todo[t] /\ q # <<>>
  BY <1>1 DEF CallsInv, Typed
<1>3. AwakeIn(t, q)
  BY <1>1, <1>2, RestIs
<1>4. Sleepy(Head(q))
  BY <1>2 DEF SleepsAtomic, Sleeps, At, Arg, Sleepy
<1>5. t \in SoftIrq \/ Holds(q) \cap Spin # {}
  <2>1. ASSUME NEW l \in Spin, holder[l] = t PROVE l \in Holds(q)
    BY <1>1, <1>2, <2>1 DEF CallsInv, Holders, Lock
  <2> QED BY <2>1 DEF SleepsAtomic, Atomic
<1> QED BY <1>2, <1>3, <1>4, <1>5 DEF AwakeIn, Arg

(* However many calls come, from whichever threads and in whatever order,  *)
(* no set of them waits for one another and none sleeps with a spin lock   *)
(* held or in softirq context, but for the calls that are known to.        *)
THEOREM SpecCallsSafe == Spec => []CallsSafe
<1>1. CallsInv => CallsSafe
  BY NoCycle, Awake DEF CallsSafe
<1> QED BY <1>1, SpecCallsInv, PTL

=============================================================================
