---------------------------- MODULE ServeLoopProofs ---------------------------
(***************************************************************************)
(* Proofs about the accept loop of a gosp-server, for any number of        *)
(* connections and any length of the socket's queue: a server that returns *)
(* has answered whom it accepted and passed over nobody who came before    *)
(* the first ExitNow, and it does what GospServer says a server does.      *)
(***************************************************************************)
EXTENDS ServeLoop, TLAPS

(***************************************************************************)
(* The inductive invariant.                                                *)
(***************************************************************************)

InHand(c) == taken = c /\ loop \in {"accepted", "stuck"}
Accepted(c) == conn[c] \notin {"none", "queued"}

\* Connections are made, queued and accepted in the order of their numbers;
\* the loop has in hand what came before the queue.
MadeInOrder == \A c, d \in Conns : d < c /\ conn[c] # "none" => conn[d] # "none"
QueueInOrder ==
    \A i, j \in 1 .. Len(backlog) :
        i < j /\ backlog[i] # Dummy /\ backlog[j] # Dummy => backlog[i] < backlog[j]
AcceptedInOrder ==
    \A c \in Conns \cap ToSet(backlog), d \in Conns :
        Accepted(d) \/ InHand(d) => d < c
HandInOrder ==
    \A c, d \in Conns : Accepted(d) /\ InHand(c) => d < c

\* A connection is open as long as its goroutine runs, and only an ExitNow
\* request has the steps of one.
Goroutines ==
    \A c \in Conns : /\ conn[c] = "open" <=> at[c] # "none"
                     /\ at[c] = "page" => kind[c] = "page"
                     /\ at[c] = "reply" => kind[c] # "page"
                     /\ at[c] \in {"flag", "dial", "close"} => kind[c] = "exit"

\* Whoever finds done set owes it to an ExitNow request that was accepted, and
\* that request sets it before it dials.
DoneByExit ==
    /\ done => \E e \in Conns : kind[e] = "exit" /\ Accepted(e)
    /\ \A c \in Conns : at[c] \in {"dial", "close"} => done

\* The loop ends when done is set, and returns when the goroutines have ended.
Returning ==
    /\ loop \in {"wait", "returned"} => done
    /\ loop = "returned" => InProgress = {}
    /\ loop = "gone" => InProgress = {} /\ clock = "off" /\ sock # "server"

LInv == /\ TypeOK
        /\ backlog \in Seq(Conns \cup {Dummy})
        /\ MadeInOrder
        /\ QueueInOrder
        /\ AcceptedInOrder
        /\ HandInOrder
        /\ Goroutines
        /\ DoneByExit
        /\ Returning

-----------------------------------------------------------------------------
\* What the socket's queue holds after a connection was added to its end.
LEMMA QueueGrows ==
  ASSUME NEW S, NEW q \in Seq(S), NEW e \in S
  PROVE  /\ Append(q, e) \in Seq(S)
         /\ ToSet(Append(q, e)) = ToSet(q) \cup {e}
         /\ Len(Append(q, e)) = Len(q) + 1
         /\ \A i \in 1 .. Len(q) : Append(q, e)[i] = q[i]
         /\ Append(q, e)[Len(q) + 1] = e
<1>1. /\ Append(q, e) \in Seq(S)
      /\ Len(Append(q, e)) = Len(q) + 1
      /\ \A i \in 1 .. Len(q) : Append(q, e)[i] = q[i]
      /\ Append(q, e)[Len(q) + 1] = e
  OBVIOUS
<1>2. ToSet(Append(q, e)) = ToSet(q) \cup {e}
  BY <1>1 DEF ToSet
<1> QED
  BY <1>1, <1>2

\* A client that connects is put at the end of the queue, behind all the others.
LEMMA ConnectQueues ==
  ASSUME backlog \in Seq(Conns \cup {Dummy}), NEW c \in Conns, NEW k \in Kinds,
         Connect(c, k)
  PROVE  /\ backlog' \in Seq(Conns \cup {Dummy})
         /\ ToSet(backlog') = ToSet(backlog) \cup {c}
         /\ Len(backlog') = Len(backlog) + 1
         /\ \A i \in 1 .. Len(backlog) : backlog'[i] = backlog[i]
         /\ backlog'[Len(backlog) + 1] = c
  BY QueueGrows DEF Connect

\* And after its first connection was taken out.
LEMMA QueueShrinks ==
  ASSUME NEW S, NEW q \in Seq(S), q # <<>>
  PROVE  /\ Tail(q) \in Seq(S)
         /\ Head(q) \in S
         /\ Head(q) = q[1]
         /\ Len(q) \in Nat \ {0}
         /\ ToSet(q) = ToSet(Tail(q)) \cup {Head(q)}
         /\ Len(Tail(q)) = Len(q) - 1
         /\ \A i \in 1 .. Len(q) - 1 : Tail(q)[i] = q[i + 1]
<1>1. /\ Tail(q) \in Seq(S)
      /\ Head(q) \in S
      /\ Head(q) = q[1]
      /\ Len(q) \in Nat \ {0}
      /\ Len(Tail(q)) = Len(q) - 1
      /\ \A i \in 1 .. Len(q) - 1 : Tail(q)[i] = q[i + 1]
  OBVIOUS
<1>2. DOMAIN q = 1 .. Len(q) /\ DOMAIN Tail(q) = 1 .. Len(q) - 1
  BY <1>1
<1>3. ToSet(q) = ToSet(Tail(q)) \cup {Head(q)}
  <2>1. ASSUME NEW i \in 1 .. Len(q) PROVE q[i] \in ToSet(Tail(q)) \cup {q[1]}
    <3>1. CASE i = 1
      BY <3>1
    <3>2. CASE i # 1
      <4>1. i - 1 \in DOMAIN Tail(q) /\ q[i] = Tail(q)[i - 1]
        BY <1>1, <1>2, <3>2
      <4> QED
        BY <4>1 DEF ToSet
    <3> QED
      BY <3>1, <3>2
  <2>2. ASSUME NEW i \in DOMAIN Tail(q) PROVE Tail(q)[i] \in ToSet(q)
    <3>1. i + 1 \in DOMAIN q /\ Tail(q)[i] = q[i + 1]
      BY <1>1, <1>2
    <3> QED
      BY <3>1 DEF ToSet
  <2>3. q[1] \in ToSet(q)
    BY <1>1, <1>2 DEF ToSet
  <2> QED
    BY <1>1, <1>2, <2>1, <2>2, <2>3 DEF ToSet
<1> QED
  BY <1>1, <1>3

-----------------------------------------------------------------------------
\* A server that has just begun to listen has nothing behind it.
LEMMA LoopInit == Init => LInv
<1>1. Init => /\ ToSet(backlog) = {}
              /\ Len(backlog) = 0
              /\ backlog \in Seq(Conns \cup {Dummy})
  BY DEF Init, ToSet
<1>2. ASSUME Init PROVE LInv
  <2>1. /\ kind \in [Conns -> Kinds] /\ taken \in Conns \cup {Dummy}
        /\ conn = [c \in Conns |-> "none"] /\ at = [c \in Conns |-> "none"]
        /\ Len(backlog) <= MaxBacklog
    BY <1>1, <1>2, ConnAssumption DEF Init, Kinds
  <2>2. TypeOK
    BY <1>1, <1>2, <2>1 DEF Init, TypeOK
  <2> QED
    BY <1>1, <1>2, <2>1, <2>2, ConnAssumption
    DEF Init, LInv, MadeInOrder, QueueInOrder, AcceptedInOrder, HandInOrder,
        InHand, Accepted, Goroutines, DoneByExit, Returning
<1> QED
  BY <1>2

\* A goroutine that goes on, or ends, leaves the order of the connections alone.
LEMMA StillInOrder ==
  ASSUME LInv, NEW c \in Conns, conn[c] = "open",
         UNCHANGED <<loop, taken, backlog, kind>>,
         \/ UNCHANGED conn
         \/ conn' = [conn EXCEPT ![c] = "answered"]
         \/ conn' = [conn EXCEPT ![c] = "cut"]
  PROVE  /\ conn' \in [Conns -> {"none", "queued", "open", "answered", "cut", "reset"}]
         /\ \A d \in Conns : conn'[d] = "queued" <=> conn[d] = "queued"
         /\ \A d \in Conns : Accepted(d)' <=> Accepted(d)
         /\ backlog' \in Seq(Conns \cup {Dummy})
         /\ MadeInOrder' /\ QueueInOrder' /\ AcceptedInOrder' /\ HandInOrder'
<1>1. /\ conn' \in [Conns -> {"none", "queued", "open", "answered", "cut", "reset"}]
      /\ \A d \in Conns : conn'[d] = "queued" <=> conn[d] = "queued"
      /\ \A d \in Conns : conn'[d] = "none" <=> conn[d] = "none"
  BY DEF LInv, TypeOK
<1>2. \A d \in Conns : Accepted(d)' <=> Accepted(d)
  BY <1>1 DEF Accepted
<1> QED
  BY <1>1, <1>2
  DEF LInv, MadeInOrder, QueueInOrder, AcceptedInOrder, HandInOrder, InHand

\* Every step of the loop, of a goroutine, of the clock and of a client keeps
\* the invariant.
LEMMA LoopStep ==
  ASSUME LInv, [Next]_vars
  PROVE  LInv'
<1> USE ConnAssumption
    DEF LInv, TypeOK, MadeInOrder, QueueInOrder, AcceptedInOrder, HandInOrder, InHand,
        Accepted, Goroutines, DoneByExit, Returning, InProgress, Conns,
        Kinds, shared, peers
<1>a. /\ ToSet(backlog) \subseteq Conns \cup {Dummy}
      /\ Len(backlog) \in Nat
      /\ \A i \in 1 .. Len(backlog) : backlog[i] \in ToSet(backlog)
  BY DEF ToSet
<1>1. CASE LoseSocket
  BY <1>1 DEF LoseSocket
<1>2. ASSUME NEW c \in Conns, NEW k \in Kinds, Connect(c, k) PROVE LInv'
  <2>a. PICK q : /\ backlog' = q
                 /\ q \in Seq(Conns \cup {Dummy})
                 /\ ToSet(q) = ToSet(backlog) \cup {c}
                 /\ Len(q) = Len(backlog) + 1
                 /\ \A i \in 1 .. Len(backlog) : q[i] = backlog[i]
                 /\ q[Len(backlog) + 1] = c
    BY <1>2, ConnectQueues
  <2>b. \A d \in ToSet(backlog) : d # Dummy => d < c
    <3>1. \A d \in Conns \cap ToSet(backlog) : conn[d] = "queued" /\ d # c
      BY <1>2 DEF Connect
    <3>2. \A d \in Conns \cap ToSet(backlog) : ~(c < d)
      BY <1>2, <3>1 DEF Connect
    <3> QED
      BY <1>a, <3>1, <3>2
  <2>1. TypeOK'
    BY <1>2, <1>a, <2>a, <2>b DEF Connect, HasRoom
  <2>2. backlog' \in Seq(Conns \cup {Dummy})
    BY <1>2, <1>a, <2>a, <2>b DEF Connect, HasRoom
  <2>3. MadeInOrder'
    BY <1>2, <1>a, <2>a, <2>b DEF Connect, HasRoom
  <2>4. QueueInOrder'
    <3>1. SUFFICES ASSUME NEW i \in 1 .. Len(q), NEW j \in 1 .. Len(q), i < j,
                          q[i] # Dummy, q[j] # Dummy
                   PROVE  q[i] < q[j]
      BY <2>a
    <3>2. i \in 1 .. Len(backlog)
      BY <1>a, <2>a, <3>1
    <3>3. CASE j \in 1 .. Len(backlog)
      BY <2>a, <3>1, <3>2, <3>3
    <3>4. CASE j = Len(backlog) + 1
      BY <1>a, <2>a, <2>b, <3>1, <3>2, <3>4
    <3> QED
      BY <1>a, <2>a, <3>3, <3>4
  <2>5. AcceptedInOrder'
    BY <1>2, <1>a, <2>a, <2>b DEF Connect, HasRoom
  <2>6. HandInOrder'
    BY <1>2, <1>a, <2>a, <2>b, ZenonT(60) DEF Connect, HasRoom
  <2>7. Goroutines'
    BY <1>2, <1>a, <2>a, <2>b DEF Connect, HasRoom
  <2>8. DoneByExit'
    BY <1>2, <1>a, <2>a, <2>b DEF Connect, HasRoom
  <2>9. Returning'
    BY <1>2, <1>a, <2>a, <2>b DEF Connect, HasRoom
  <2> QED
    BY <2>1, <2>2, <2>3, <2>4, <2>5, <2>6, <2>7, <2>8, <2>9
<1>3. CASE Gone
  <2>a. /\ backlog' = <<>>
        /\ ToSet(<<>>) = {}
        /\ Len(<<>>) = 0
    BY <1>3 DEF Gone, ToSet
  <2>1. TypeOK'
    BY <1>3, <2>a DEF Gone
  <2>2. backlog' \in Seq(Conns \cup {Dummy})
    BY <1>3, <2>a DEF Gone
  <2>3. MadeInOrder'
    BY <1>3, <2>a DEF Gone
  <2>4. QueueInOrder'
    BY <1>3, <2>a DEF Gone
  <2>5. AcceptedInOrder'
    BY <1>3, <2>a DEF Gone
  <2>6. HandInOrder'
    BY <1>3, <2>a DEF Gone
  <2>7. Goroutines'
    BY <1>3, <2>a DEF Gone
  <2>8. DoneByExit'
    BY <1>3, <2>a DEF Gone
  <2>9. Returning'
    BY <1>3, <2>a DEF Gone
  <2> QED
    BY <2>1, <2>2, <2>3, <2>4, <2>5, <2>6, <2>7, <2>8, <2>9
<1>4. CASE TestDone
  BY <1>4 DEF TestDone, KeepsAccepting
<1>5. CASE Accept
  <2> DEFINE q == Tail(backlog)
  <2>a. /\ backlog' = q
        /\ q \in Seq(Conns \cup {Dummy})
        /\ taken' = backlog[1] /\ taken' \in Conns \cup {Dummy}
        /\ ToSet(backlog) = ToSet(q) \cup {taken'}
        /\ Len(backlog) \in Nat \ {0} /\ Len(q) = Len(backlog) - 1
        /\ \A i \in 1 .. Len(backlog) - 1 : q[i] = backlog[i + 1]
    BY <1>5, QueueShrinks DEF Accept
  <2>b. \A c \in ToSet(q) : \E i \in 1 .. Len(q) : q[i] = c
    BY <2>a DEF ToSet
  <2>c. \A c \in ToSet(q) : taken' # Dummy /\ c # Dummy => taken' < c
    BY <2>a, <2>b
  <2>d. /\ loop = "accept" /\ loop' = "accepted"
        /\ UNCHANGED <<done, clock, sock, kind, conn, at>>
    BY <1>5 DEF Accept
  <2> HIDE DEF q
  <2>1. TypeOK'
    BY <2>a, <2>b, <2>c, <2>d
  <2>2. backlog' \in Seq(Conns \cup {Dummy})
    BY <2>a, <2>b, <2>c, <2>d
  <2>3. MadeInOrder'
    BY <2>a, <2>b, <2>c, <2>d
  <2>4. QueueInOrder'
    <3>1. SUFFICES ASSUME NEW i \in 1 .. Len(q), NEW j \in 1 .. Len(q), i < j,
                          q[i] # Dummy, q[j] # Dummy
                   PROVE  q[i] < q[j]
      BY <2>a
    <3>2. /\ i + 1 \in 1 .. Len(backlog) /\ q[i] = backlog[i + 1]
          /\ j + 1 \in 1 .. Len(backlog) /\ q[j] = backlog[j + 1]
          /\ i + 1 < j + 1
      BY <2>a, <3>1, SMTT(30)
    <3> QED
      BY <3>1, <3>2
  <2>5. AcceptedInOrder'
    <3>1. \A c \in Conns : InHand(c)' <=> c = taken'
      BY <2>d
    <3>2. \A c \in Conns \cap ToSet(q) : c \in ToSet(backlog) /\ c # Dummy
      BY <2>a
    <3>3. \A d \in Conns : Accepted(d)' <=> Accepted(d)
      BY <2>d
    <3> QED
      BY <2>a, <2>c, <3>1, <3>2, <3>3
  <2>6. HandInOrder'
    BY <2>a, <2>b, <2>c, <2>d
  <2>7. Goroutines'
    BY <2>a, <2>b, <2>c, <2>d
  <2>8. DoneByExit'
    BY <2>a, <2>b, <2>c, <2>d
  <2>9. Returning'
    BY <2>a, <2>b, <2>c, <2>d
  <2> QED
    BY <2>1, <2>2, <2>3, <2>4, <2>5, <2>6, <2>7, <2>8, <2>9
<1>6. CASE Spawn
  <2>1. CASE taken = Dummy
    BY <1>6, <2>1 DEF Spawn
  <2>2. CASE taken \in Conns
    <3>a. /\ conn[taken] = "queued" /\ taken \notin ToSet(backlog)
          /\ conn' = [conn EXCEPT ![taken] = "open"]
          /\ at' = [at EXCEPT ![taken] = "decode"]
      BY <1>6, <2>2 DEF Spawn
    <3>1. TypeOK'
      BY <1>6, <2>2, <3>a DEF Spawn
    <3>2. backlog' \in Seq(Conns \cup {Dummy})
      BY <1>6, <2>2, <3>a DEF Spawn
    <3>3. MadeInOrder'
      BY <1>6, <2>2, <3>a DEF Spawn
    <3>4. QueueInOrder'
      BY <1>6, <2>2, <3>a DEF Spawn
    <3>5. AcceptedInOrder'
      BY <1>6, <2>2, <3>a DEF Spawn
    <3>6. HandInOrder'
      BY <1>6, <2>2, <3>a DEF Spawn
    <3>7. Goroutines'
      BY <1>6, <2>2, <3>a DEF Spawn
    <3>8. DoneByExit'
      BY <1>6, <2>2, <3>a DEF Spawn
    <3>9. Returning'
      BY <1>6, <2>2, <3>a DEF Spawn
    <3> QED
      BY <3>1, <3>2, <3>3, <3>4, <3>5, <3>6, <3>7, <3>8, <3>9
  <2> QED
    BY <2>1, <2>2
<1>7. CASE ResetBlocks
  BY <1>7 DEF ResetBlocks
<1>8. CASE Wait
  BY <1>8 DEF Wait
<1>9. ASSUME NEW c \in Conns, Decode(c) PROVE LInv'
  <2>1. /\ conn' \in [Conns -> {"none", "queued", "open", "answered", "cut", "reset"}]
        /\ \A d \in Conns : conn'[d] = "queued" <=> conn[d] = "queued"
        /\ \A d \in Conns : Accepted(d)' <=> Accepted(d)
        /\ backlog' \in Seq(Conns \cup {Dummy})
        /\ MadeInOrder' /\ QueueInOrder' /\ AcceptedInOrder' /\ HandInOrder'
    <3>1. conn[c] = "open"
      BY <1>9 DEF Decode
    <3> QED
      BY <1>9, <3>1, StillInOrder DEF Decode, Goto
  <2>2. TypeOK'
    BY <1>9, <2>1 DEF Decode, Goto
  <2>3. Goroutines'
    BY <1>9 DEF Decode, Goto
  <2>4. DoneByExit'
    BY <1>9, <2>1 DEF Decode, Goto
  <2>5. Returning'
    BY <1>9 DEF Decode, Goto
  <2> QED
    BY <2>1, <2>2, <2>3, <2>4, <2>5
<1>18. ASSUME NEW c \in Conns, DecodeFails(c) PROVE LInv'
  <2>1. /\ conn' \in [Conns -> {"none", "queued", "open", "answered", "cut", "reset"}]
        /\ \A d \in Conns : conn'[d] = "queued" <=> conn[d] = "queued"
        /\ \A d \in Conns : Accepted(d)' <=> Accepted(d)
        /\ backlog' \in Seq(Conns \cup {Dummy})
        /\ MadeInOrder' /\ QueueInOrder' /\ AcceptedInOrder' /\ HandInOrder'
    <3>1. conn[c] = "open"
      BY <1>18 DEF DecodeFails
    <3> QED
      BY <1>18, <3>1, StillInOrder DEF DecodeFails, Close, Goto
  <2>2. TypeOK'
    BY <1>18, <2>1 DEF DecodeFails, Close, Goto
  <2>3. Goroutines'
    BY <1>18 DEF DecodeFails, Close, Goto
  <2>4. DoneByExit'
    BY <1>18, <2>1 DEF DecodeFails, Close, Goto
  <2>5. Returning'
    BY <1>18 DEF DecodeFails, Close, Goto
  <2> QED
    BY <2>1, <2>2, <2>3, <2>4, <2>5
<1>10. ASSUME NEW c \in Conns, AnswerPage(c) PROVE LInv'
  <2>1. /\ conn' \in [Conns -> {"none", "queued", "open", "answered", "cut", "reset"}]
        /\ \A d \in Conns : conn'[d] = "queued" <=> conn[d] = "queued"
        /\ \A d \in Conns : Accepted(d)' <=> Accepted(d)
        /\ backlog' \in Seq(Conns \cup {Dummy})
        /\ MadeInOrder' /\ QueueInOrder' /\ AcceptedInOrder' /\ HandInOrder'
    <3>1. conn[c] = "open"
      BY <1>10 DEF AnswerPage
    <3> QED
      BY <1>10, <3>1, StillInOrder DEF AnswerPage, Finish, Close, Goto
  <2>2. TypeOK'
    BY <1>10, <2>1 DEF AnswerPage, Finish, Close, Goto
  <2>3. Goroutines'
    BY <1>10 DEF AnswerPage, Finish, Close, Goto
  <2>4. DoneByExit'
    BY <1>10, <2>1 DEF AnswerPage, Finish, Close, Goto
  <2>5. Returning'
    BY <1>10 DEF AnswerPage, Finish, Close, Goto
  <2> QED
    BY <2>1, <2>2, <2>3, <2>4, <2>5
<1>11. ASSUME NEW c \in Conns, Reply(c) PROVE LInv'
  <2>1. /\ conn' \in [Conns -> {"none", "queued", "open", "answered", "cut", "reset"}]
        /\ \A d \in Conns : conn'[d] = "queued" <=> conn[d] = "queued"
        /\ \A d \in Conns : Accepted(d)' <=> Accepted(d)
        /\ backlog' \in Seq(Conns \cup {Dummy})
        /\ MadeInOrder' /\ QueueInOrder' /\ AcceptedInOrder' /\ HandInOrder'
    <3>1. conn[c] = "open"
      BY <1>11 DEF Reply
    <3> QED
      BY <1>11, <3>1, StillInOrder DEF Reply, Finish, Close, Goto, AfterStep
  <2>2. TypeOK'
    <3>1. CASE kind[c] = "pid"
      BY <1>11, <2>1, <3>1 DEF Reply, Finish, Close, Goto
    <3>2. CASE kind[c] # "pid"
      <4>1. at' = [at EXCEPT ![c] = "flag"]
        BY <1>11, <3>2 DEF Reply, Goto, AfterStep
      <4> QED
        BY <1>11, <2>1, <4>1 DEF Reply
    <3> QED
      BY <3>1, <3>2
  <2>3. Goroutines'
    BY <1>11 DEF Reply, Finish, Close, Goto, AfterStep
  <2>4. DoneByExit'
    BY <1>11, <2>1 DEF Reply, Finish, Close, Goto, AfterStep
  <2>5. Returning'
    BY <1>11 DEF Reply, Finish, Close, Goto, AfterStep
  <2> QED
    BY <2>1, <2>2, <2>3, <2>4, <2>5
<1>12. ASSUME NEW c \in Conns, SetDone(c) PROVE LInv'
  BY <1>12, ZenonT(60) DEF SetDone, Goto, AfterStep
<1>13. ASSUME NEW c \in Conns, Dial(c) PROVE LInv'
  <2>a. /\ backlog' \in Seq(Conns \cup {Dummy})
        /\ ToSet(backlog') \ {Dummy} = ToSet(backlog) \ {Dummy}
        /\ Len(backlog') <= MaxBacklog
        /\ \A i \in 1 .. Len(backlog') :
              \/ i \in 1 .. Len(backlog) /\ backlog'[i] = backlog[i]
              \/ backlog'[i] = Dummy
    BY <1>13, QueueGrows DEF Dial, HasRoom
  <2>b. Conns \cap ToSet(backlog') = Conns \cap ToSet(backlog)
    BY <2>a
  <2>1. TypeOK'
    BY <1>13, <2>a DEF Dial, Goto, AfterStep
  <2>2. backlog' \in Seq(Conns \cup {Dummy})
    BY <1>13, <2>a DEF Dial, Goto, AfterStep
  <2>3. MadeInOrder'
    BY <1>13, <2>a DEF Dial, Goto, AfterStep
  <2>4. QueueInOrder'
    BY <1>13, <2>a DEF Dial, Goto, AfterStep
  <2>5. AcceptedInOrder'
    <3>1. UNCHANGED <<loop, taken, conn>>
      BY <1>13 DEF Dial
    <3> QED
      BY <2>b, <3>1
  <2>6. HandInOrder'
    BY <1>13, <2>a DEF Dial, Goto, AfterStep
  <2>7. Goroutines'
    BY <1>13, <2>a DEF Dial, Goto, AfterStep
  <2>8. DoneByExit'
    BY <1>13, <2>a DEF Dial, Goto, AfterStep
  <2>9. Returning'
    BY <1>13, <2>a DEF Dial, Goto, AfterStep
  <2> QED
    BY <2>1, <2>2, <2>3, <2>4, <2>5, <2>6, <2>7, <2>8, <2>9
<1>14. ASSUME NEW c \in Conns, CloseExit(c) PROVE LInv'
  <2>1. /\ conn' \in [Conns -> {"none", "queued", "open", "answered", "cut", "reset"}]
        /\ \A d \in Conns : conn'[d] = "queued" <=> conn[d] = "queued"
        /\ \A d \in Conns : Accepted(d)' <=> Accepted(d)
        /\ backlog' \in Seq(Conns \cup {Dummy})
        /\ MadeInOrder' /\ QueueInOrder' /\ AcceptedInOrder' /\ HandInOrder'
    <3>1. conn[c] = "open"
      BY <1>14 DEF CloseExit
    <3> QED
      BY <1>14, <3>1, StillInOrder DEF CloseExit, Finish, Close, Goto
  <2>2. TypeOK'
    BY <1>14, <2>1 DEF CloseExit, Finish, Close, Goto
  <2>3. Goroutines'
    BY <1>14 DEF CloseExit, Finish, Close, Goto
  <2>4. DoneByExit'
    BY <1>14, <2>1 DEF CloseExit, Finish, Close, Goto
  <2>5. Returning'
    BY <1>14 DEF CloseExit, Finish, Close, Goto
  <2> QED
    BY <2>1, <2>2, <2>3, <2>4, <2>5
<1>15. CASE ClockFires
  BY <1>15 DEF ClockFires
<1>16. CASE ClockRemoves
  BY <1>16 DEF ClockRemoves
<1>17. CASE UNCHANGED vars
  BY <1>17 DEF vars
<1> QED
  BY <1>1, <1>2, <1>3, <1>4, <1>5, <1>6, <1>7, <1>8, <1>9, <1>10, <1>11, <1>12,
     <1>13, <1>14, <1>15, <1>16, <1>17, <1>18
  DEF Next, Environment, Process, Loop, Goroutine, Clock, ClockExits, AcceptFails,
      Crash, Return, ResetPanics, Over

\* The accept loop keeps its invariant for ever.
THEOREM Looping == Spec => []LInv
<1> QED
  BY LoopInit, LoopStep, PTL DEF Spec

\* Every variable has its type, and the kernel's queue and the state of a
\* connection agree.
THEOREM LoopTypes == Spec => []TypeOK
<1>1. LInv => TypeOK
  BY DEF LInv
<1> QED
  BY <1>1, Looping, PTL

\* A server that returns by itself leaves no accepted connection unanswered,
\* and nobody in the queue who came before the first ExitNow (serve.go:178).
THEOREM EarlierOnesComplete == Spec => []EarlierRequestsComplete
<1>1. ASSUME LInv, loop = "returned", NEW c \in Conns
      PROVE  /\ conn[c] # "open"
             /\ conn[c] = "queued" => \E e \in 1 .. c - 1 : kind[e] = "exit"
  <2>1. conn[c] # "open"
    BY <1>1 DEF LInv, Returning, InProgress, Goroutines
  <2>2. ASSUME conn[c] = "queued" PROVE \E e \in 1 .. c - 1 : kind[e] = "exit"
    <3>1. c \in ToSet(backlog)
      BY <1>1, <2>2 DEF LInv, TypeOK
    <3>2. PICK e \in Conns : kind[e] = "exit" /\ Accepted(e)
      BY <1>1 DEF LInv, Returning, DoneByExit
    <3>3. e < c
      BY <1>1, <3>1, <3>2 DEF LInv, AcceptedInOrder
    <3> QED
      BY <3>2, <3>3, ConnAssumption DEF Conns
  <2> QED
    BY <2>1, <2>2
<1>2. LInv => EarlierRequestsComplete
  BY <1>1 DEF EarlierRequestsComplete
<1> QED
  BY <1>2, Looping, PTL

-----------------------------------------------------------------------------
(***************************************************************************)
(* ServeLoop does what GospServer says, step by step.                      *)
(***************************************************************************)

\* The end of the process, whatever brings it about, is a crash to those who
\* look at it from outside.
LEMMA GoneCrashes ==
  ASSUME LInv, Gone, loop # "gone"
  PROVE  Server!Crash("server")
  BY DEF LInv, TypeOK, Gone, Alive, Life, Reached, Asks, Kinds,
         Server!Crash, Server!May, Server!ProcessGone, Server!files,
         Server!request, Server!effects

\* A goroutine is spawned for a client, or for the server's own connection.
LEMMA SpawnAccepts ==
  ASSUME LInv, Spawn, NEW c \in Conns, taken = c
  PROVE  Server!Accept("server", c)
<1>1. /\ loop = "accepted" /\ loop' = "test" /\ conn[c] = "queued"
      /\ conn' = [conn EXCEPT ![c] = "open"]
      /\ UNCHANGED <<taken, done, clock, sock, backlog, kind>>
  BY ConnAssumption DEF LInv, TypeOK, Spawn, shared, Conns
<1>2. /\ clock # "removed"
      /\ done' <=> done
  BY <1>1 DEF Spawn, ClockStops
<1>3. /\ Alive /\ Alive'
      /\ Life = IF done THEN "closing" ELSE "listening"
      /\ Life' = IF done THEN "draining" ELSE "listening"
  BY <1>1, <1>2 DEF Alive, Life
<1>4. \A d \in Conns : Reached(d)' <=> Reached(d) \/ d = c
  BY <1>1 DEF LInv, TypeOK, Reached
<1>5. /\ ~Reached(c)
      /\ \A d \in Conns : d # c => conn'[d] = conn[d]
      /\ conn'[c] = "open" /\ conn' \in [Conns -> {"none", "queued", "open", "answered", "cut", "reset"}]
      /\ kind[c] \in Kinds
  BY <1>1 DEF LInv, TypeOK, Reached
<1> DEFINE pcs == [d \in Conns |-> IF conn[d] = "none" THEN "idle" ELSE Asks[kind[d]]]
           procs == [p \in {"server", "another"} |-> IF p = "server" THEN Life ELSE "free"]
           runs == [d \in Conns |-> IF kind[d] = "page" /\ Reached(d) THEN 1 ELSE 0]
<1>6. /\ procs["server"] = Life
      /\ procs' = [procs EXCEPT !["server"] = Life']
      /\ Life' = Life => procs' = procs
  OBVIOUS
<1>7. pcs[c] = Asks[kind[c]]
  BY <1>1, <1>5
<1>8. runs' = IF kind[c] = "page" THEN [runs EXCEPT ![c] = @ + 1] ELSE runs
  BY <1>1, <1>4, <1>5
<1>9. kind[c] = "page" <=> Asks[kind[c]] \in {"fastwait", "retrywait"}
  BY <1>5 DEF Asks, Kinds
<1>10. runs' = IF pcs[c] \in {"fastwait", "retrywait"}
               THEN [runs EXCEPT ![c] = @ + 1] ELSE runs
  BY <1>7, <1>8, <1>9
<1>11. pcs' = pcs
  BY <1>1, <1>5
<1>12. \A d \in Conns : kind[d] = "page" /\ conn'[d] = "answered"
                        <=> kind[d] = "page" /\ conn[d] = "answered"
  BY <1>1, <1>5
<1> QED
  BY <1>1, <1>3, <1>5, <1>6, <1>10, <1>11, <1>12, ZenonT(60)
  DEF Server!Accept, Server!Linked, Server!SetLink, Server!Become,
      Server!AwaitsPage, Server!files, Server!request

\* The goroutine of the dummy connection does nothing of account: for GospServer the
\* server has accepted the dummy, or has done nothing.
LEMMA SpawnSkipsDummy ==
  ASSUME LInv, Spawn, taken = Dummy
  PROVE  Server!AcceptDummy("server") \/ UNCHANGED Server!vars
<1>1. /\ loop = "accepted" /\ loop' = "test" /\ clock # "removed"
      /\ UNCHANGED <<done, clock, sock, kind, conn>>
  BY DEF Spawn, ClockStops, shared
<1>2. /\ Alive /\ Alive'
      /\ Life = IF done THEN "closing" ELSE "listening"
      /\ Life' = IF done THEN "draining" ELSE "listening"
  BY <1>1 DEF Alive, Life
<1> USE <1>1, <1>2
    DEF Reached, Server!files, Server!servers, Server!conns, Server!request, Server!effects
<1>3. CASE done
  BY <1>3 DEF Server!AcceptDummy, Server!Become
<1>4. CASE ~done
  BY <1>4 DEF Server!vars
<1> QED
  BY <1>3, <1>4

\* The loop's other steps are seen by nobody.
LEMMA LoopStutters ==
  ASSUME LInv, TestDone \/ Accept \/ ResetBlocks \/ Wait
  PROVE  UNCHANGED Server!vars
<1>1. UNCHANGED <<done, clock, sock, peers>>
  BY DEF TestDone, Accept, ResetBlocks, Wait, shared
<1>2. Alive /\ Alive'
  BY DEF Alive, TestDone, Accept, ResetBlocks, Wait, KeepsAccepting
<1>3. Life' = Life
  BY <1>1, <1>2
  DEF LInv, DoneByExit, Life, TestDone, Accept, ResetBlocks, Wait, KeepsAccepting
<1> QED
  BY <1>1, <1>2, <1>3
  DEF peers, Reached, Server!vars, Server!files, Server!servers, Server!conns,
      Server!request, Server!effects

\* Nor are the steps that a goroutine takes before its answer.
LEMMA GoroutineStutters ==
  ASSUME LInv, NEW c \in Conns,
         Decode(c) \/ Dial(c) \/ (Reply(c) /\ kind[c] # "pid")
  PROVE  UNCHANGED Server!vars
<1>1. UNCHANGED <<loop, done, clock, sock, kind, conn>>
  BY DEF Decode, Dial, Reply, shared
<1> QED
  BY <1>1
  DEF Alive, Life, Reached, Server!vars, Server!files, Server!servers,
      Server!conns, Server!request, Server!effects

\* A goroutine runs while its connection is open and its process lives.
LEMMA GoroutineServes ==
  ASSUME LInv, NEW c \in Conns, at[c] # "none"
  PROVE  conn[c] = "open" /\ Alive /\ Life \in Server!Serving \cup {"expired"}
<1>1. conn[c] = "open" /\ Alive
  BY DEF LInv, Goroutines, Returning, InProgress, Alive
<1> QED
  BY <1>1 DEF Life, Server!Serving

\* The first ExitNow that sets done is the one that GospServer's server hears.
LEMMA SetDoneIsHeard ==
  ASSUME LInv, NEW c \in Conns, SetDone(c)
  PROVE  Server!HearExit("server", c) \/ UNCHANGED Server!vars
<1>1. /\ conn[c] = "open" /\ Alive /\ kind[c] = "exit"
      /\ UNCHANGED <<loop, clock, sock, kind, conn>>
  BY GoroutineServes DEF SetDone, LInv, Goroutines
<1>2. Alive' /\ \A d \in Conns : Reached(d)' <=> Reached(d)
  BY <1>1 DEF Alive, Reached
<1> USE DEF Server!files, Server!servers, Server!conns, Server!request, Server!effects
<1>3. CASE done \/ clock = "removed"
  <2>1. Life' = Life
    BY <1>1, <1>3 DEF SetDone, Life, Alive
  <2> QED
    BY <1>1, <1>2, <2>1 DEF Server!vars
<1>4. CASE ~done /\ clock # "removed"
  <2>1. Life = "listening" /\ Life' \in {"closing", "draining"}
    BY <1>1, <1>4 DEF SetDone, Life, Alive
  <2> DEFINE procs == [p \in {"server", "another"} |-> IF p = "server" THEN Life ELSE "free"]
  <2>2. \/ procs' = [procs EXCEPT !["server"] = "closing"]
        \/ procs' = [procs EXCEPT !["server"] = "draining"]
    BY <2>1
  <2>3. procs["server"] = "listening"
    BY <2>1
  <2> HIDE DEF procs
  <2> QED
    BY <1>1, <1>2, <2>1, <2>2, <2>3
    DEF procs, Asks, Server!HearExit, Server!Become, Server!Handling,
        Server!Linked, Server!Serving
<1> QED
  BY <1>3, <1>4

\* What the end of a goroutine leaves as it was.
LEMMA EndKeeps ==
  ASSUME LInv, NEW c \in Conns, NEW outcome \in {"answered", "cut"},
         conn[c] = "open", Close(c, outcome), UNCHANGED <<loop, taken, shared, kind>>
  PROVE  /\ Life' = Life /\ Alive' = Alive
         /\ conn' = [conn EXCEPT ![c] = outcome]
         /\ \A d \in Conns : /\ Reached(d)' <=> Reached(d)
                             /\ conn'[d] = "none" <=> conn[d] = "none"
         /\ UNCHANGED <<sock, kind>>
<1>1. UNCHANGED <<loop, done, clock, sock, kind>>
  BY DEF shared
<1>2. Life' = Life /\ Alive' = Alive
  BY <1>1 DEF Life, Alive
<1>3. conn' = [conn EXCEPT ![c] = outcome]
  BY DEF Close
<1>4. \A d \in Conns : conn'[d] = IF d = c THEN outcome ELSE conn[d]
  BY <1>3 DEF LInv, TypeOK
<1> QED
  BY <1>1, <1>2, <1>3, <1>4 DEF Reached

\* A goroutine whose answer does not arrive is late to GospServer.
LEMMA CutIsDeadline ==
  ASSUME LInv, NEW c \in Conns, at[c] # "none", Close(c, "cut"),
         UNCHANGED <<loop, taken, shared, kind>>
  PROVE  Server!Deadline("server", c)
<1>1. conn[c] = "open" /\ Alive /\ Life \in Server!Serving \cup {"expired"}
  BY GoroutineServes
<1>2. /\ Life' = Life /\ Alive' = Alive
      /\ conn' = [conn EXCEPT ![c] = "cut"]
      /\ \A d \in Conns : /\ Reached(d)' <=> Reached(d)
                          /\ conn'[d] = "none" <=> conn[d] = "none"
      /\ UNCHANGED <<sock, kind>>
  BY <1>1, EndKeeps
<1>3. \A d \in Conns : conn'[d] = "answered" <=> conn[d] = "answered"
  BY <1>1, <1>2 DEF LInv, TypeOK
<1> QED
  BY <1>1, <1>2, <1>3
  DEF Server!Deadline, Server!Handling, Server!Linked, Server!SetLink, Server!May,
      Server!files, Server!servers, Server!request, Server!effects

\* A goroutine whose answer arrives gives the answer of GospServer's server.
LEMMA AnswerIsGiven ==
  ASSUME LInv, NEW c \in Conns, at[c] # "none", Close(c, "answered"),
         UNCHANGED <<loop, taken, shared, kind>>
  PROVE  /\ kind[c] = "page" => Server!AnswerPage("server", c)
         /\ kind[c] = "pid"  => Server!AnswerPid("server", c)
         /\ kind[c] = "exit" /\ done => Server!AnswerExit("server", c)
<1> USE DEF Server!Handling, Server!Linked, Server!SetLink, Server!AwaitsPage,
            Server!files, Server!servers, Server!request, Server!effects
<1>1. conn[c] = "open" /\ Alive /\ Life \in Server!Serving \cup {"expired"}
  BY GoroutineServes
<1>2. /\ Life' = Life /\ Alive' = Alive
      /\ conn' = [conn EXCEPT ![c] = "answered"]
      /\ \A d \in Conns : /\ Reached(d)' <=> Reached(d)
                          /\ conn'[d] = "none" <=> conn[d] = "none"
      /\ UNCHANGED <<sock, kind>>
  BY <1>1, EndKeeps
<1> DEFINE shown == [d \in Conns |-> IF kind[d] = "page" /\ conn[d] = "answered"
                                     THEN 0 ELSE "none"]
<1>3. \A d \in Conns : conn'[d] = IF d = c THEN "answered" ELSE conn[d]
  BY <1>2 DEF LInv, TypeOK
<1>4. ASSUME kind[c] = "page" PROVE shown' = [shown EXCEPT ![c] = 0]
  <2>1. \A d \in Conns : kind'[d] = "page" /\ conn'[d] = "answered"
                          <=> d = c \/ (kind[d] = "page" /\ conn[d] = "answered")
    BY <1>2, <1>3, <1>4
  <2> QED
    BY <2>1, Zenon
<1>5. kind[c] # "page" => shown' = shown
  BY <1>2, <1>3
<1>6. kind[c] = "page" => Server!AnswerPage("server", c)
  BY <1>1, <1>2, <1>4 DEF Asks, Server!AnswerPage
<1>7. kind[c] = "pid" => Server!AnswerPid("server", c)
  BY <1>1, <1>2, <1>5 DEF Asks, Server!AnswerPid
<1>8. ASSUME kind[c] = "exit", done PROVE Server!AnswerExit("server", c)
  <2>1. Life # "listening"
    BY <1>1, <1>8 DEF Life
  <2> QED
    BY <1>1, <1>2, <1>5, <1>8, <2>1 DEF Asks, Server!AnswerExit
<1> QED
  BY <1>6, <1>7, <1>8

\* The end of a goroutine is that of a connection of GospServer's server.
LEMMA GoroutineAnswers ==
  ASSUME LInv, NEW c \in Conns,
         DecodeFails(c) \/ AnswerPage(c) \/ (Reply(c) /\ kind[c] = "pid") \/ CloseExit(c)
  PROVE  Server!ConnectionStep("server", c)
<1>1. /\ at[c] # "none"
      /\ UNCHANGED <<loop, taken, shared, kind>>
      /\ Close(c, "answered") \/ Close(c, "cut")
  BY DEF DecodeFails, AnswerPage, Reply, CloseExit, Finish
<1>2. CASE Close(c, "cut")
  BY <1>1, <1>2, CutIsDeadline DEF Server!ConnectionStep
<1>3. CASE Close(c, "answered")
  <2>1. ~DecodeFails(c)
    BY <1>3 DEF DecodeFails, Close, LInv, TypeOK
  <2>2. kind[c] \in {"page", "pid"} \/ (kind[c] = "exit" /\ done)
    BY <2>1 DEF LInv, Goroutines, DoneByExit, AnswerPage, CloseExit
  <2> QED
    BY <1>1, <1>3, <2>2, AnswerIsGiven DEF Server!ConnectionStep
<1> QED
  BY <1>1, <1>2, <1>3

\* What the clock does to the socket file is the server leaving for idleness.
LEMMA ClockLeaves ==
  ASSUME LInv
  PROVE  /\ ClockFires => UNCHANGED Server!vars
         /\ ClockRemoves => Server!IdleExpire("server")
<1>1. ClockFires => UNCHANGED Server!vars
  BY DEF ClockFires, Alive, Life, Reached, peers, Server!vars,
         Server!files, Server!servers, Server!conns, Server!request, Server!effects
<1>2. ClockRemoves => Server!IdleExpire("server")
  BY DEF LInv, TypeOK, Returning, ClockRemoves, Alive, Life, Reached, peers,
         Server!IdleExpire, Server!May, Server!Serving, Server!Become,
         Server!files, Server!conns, Server!request, Server!effects
<1> QED
  BY <1>1, <1>2

\* Every step of the accept loop is a step of GospServer or of its environment, or none.
LEMMA ServerSimulates ==
  ASSUME LInv, [Next]_vars
  PROVE  [Environment \/ Server!ServerNext("server")]_(Server!vars)
<1> USE DEF Server!ServerNext, Server!ServerStep, Server!ConnectionStep
<1>1. CASE Gone /\ loop # "gone"
  BY <1>1, GoneCrashes
<1>2. CASE Spawn
  <2>1. CASE taken \in Conns
    BY <1>2, <2>1, SpawnAccepts
  <2>2. CASE taken = Dummy
    BY <1>2, <2>2, SpawnSkipsDummy
  <2> QED
    BY <2>1, <2>2 DEF LInv, TypeOK
<1>3. CASE TestDone \/ Accept \/ ResetBlocks \/ Wait
  BY <1>3, LoopStutters
<1>4. ASSUME NEW c \in Conns, Goroutine(c)
      PROVE  [Environment \/ Server!ServerNext("server")]_(Server!vars)
  <2>1. CASE SetDone(c)
    BY <2>1, SetDoneIsHeard
  <2>2. CASE Decode(c) \/ Dial(c) \/ (Reply(c) /\ kind[c] # "pid")
    BY <2>2, GoroutineStutters
  <2>3. CASE DecodeFails(c) \/ AnswerPage(c) \/ (Reply(c) /\ kind[c] = "pid") \/ CloseExit(c)
    BY <2>3, GoroutineAnswers
  <2> QED
    BY <1>4, <2>1, <2>2, <2>3 DEF Goroutine
<1>5. CASE ClockFires \/ ClockRemoves
  BY <1>5, ClockLeaves
<1>6. CASE UNCHANGED vars
  BY <1>6
  DEF vars, shared, peers, Alive, Life, Reached, Server!vars,
      Server!files, Server!servers, Server!conns, Server!request, Server!effects
<1>7. CASE Environment
  BY <1>7
<1>8. ClockExits \/ AcceptFails \/ Crash \/ Return \/ ResetPanics => Gone /\ loop # "gone"
  BY DEF LInv, Returning, ClockExits, AcceptFails, Crash, Return, ResetPanics
<1> QED
  BY <1>1, <1>2, <1>3, <1>4, <1>5, <1>6, <1>7, <1>8
  DEF Next, Process, Loop, Clock, Over

\* Loop, goroutines and kill clock together are the server that Gosp reckons
\* with: whatever they do is a step of GospServer or is seen by nobody.
THEOREM ServesAsOne == Spec => ActsAsOneServer
<1>1. LInv /\ [Next]_vars => [Environment \/ Server!ServerNext("server")]_(Server!vars)
  BY ServerSimulates
<1> QED
  BY <1>1, Looping, PTL DEF Spec, ActsAsOneServer
=============================================================================
