---------------------- MODULE NotificationStreamProofs ----------------------
(***************************************************************************)
(* Proofs about NotificationStream, for any clients and any numbers of     *)
(* notifications and refused subscriptions.                                *)
(***************************************************************************)
EXTENDS NotificationStream, SequenceTheorems, TLAPS

(***************************************************************************)
(* The inductive invariants.                                               *)
(***************************************************************************)

Msg == 1 .. MaxEmits

\* No reply to a subscribe command in s, and exactly one.
NoReply(s) == Range(s) \subseteq Msg

OneReply(s) ==
  \E i \in DOMAIN s : /\ s[i] \in {OK, Error}
                      /\ \A j \in DOMAIN s : j # i => s[j] \in Msg

TypeInv ==
  /\ subscribed \in BOOLEAN /\ pending \in BOOLEAN
  /\ cleanup \in BOOLEAN /\ server \in BOOLEAN
  /\ waiting \in Seq(Nat) /\ Range(waiting) \subseteq Msg
  /\ pubs \in Seq(Nat) /\ Range(pubs) \subseteq Msg
  /\ down \in Seq(Nat)
  /\ owed \in Seq(SUBSET Clients)
  /\ inbox \in [Clients -> Seq(Nat)]
  /\ subs \subseteq Clients
  /\ failures \in Nat

Unsub == <<"unsubscribe">>
Sub == <<"subscribe">>
Resub == <<"unsubscribe", "subscribe">>

\* What is on the subscriber connection, by the state of the promise.
LinkInv ==
  /\ ~pending => up \in {<< >>, Unsub} /\ NoReply(down)
  /\ pending => \/ up \in {Sub, Resub} /\ NoReply(down)
                \/ up = << >> /\ OneReply(down)
  /\ up = Sub => ~server
  /\ OK \in Range(down) => server
  /\ Error \in Range(down) => ~server /\ failures # 0

\* What the process has noted of its subscription.
NoteInv ==
  /\ ~pending => ~cleanup /\ waiting = << >>
  /\ subscribed => ~pending /\ up = << >> /\ server /\ subs # {}
  /\ ~pending /\ ~subscribed /\ up = << >> => ~server
  /\ ~pending /\ subs # {} /\ failures = 0 => subscribed
  /\ pending /\ subs = {} => cleanup

ControlInv == TypeInv /\ LinkInv /\ NoteInv

\* A notification that is on its way to a connected client is published while
\* the process is subscribed.
DeliveryInv ==
  /\ \A e \in DOMAIN owed : owed[e] \subseteq subs \cup gone
  /\ Range(pubs) \subseteq DOMAIN owed /\ Range(waiting) \subseteq DOMAIN owed
  /\ failures = 0 /\ pending => \A e \in Range(pubs) : owed[e] \cap subs = {}
  /\ NoNotificationMissed

\* The messages of s are in the order of the emits, and before those of t.
Sorted(s) ==
  \A i, j \in DOMAIN s : i < j /\ s[i] \in Msg /\ s[j] \in Msg => s[i] < s[j]

Before(s, t) == \A x \in Range(s) \cap Msg, y \in Range(t) \cap Msg : x < y

Upto(s, n) == \A x \in Range(s) \cap Msg : x <= n

\* From the inbox of a client back to the emits, notifications are in order.
SortedInv ==
  /\ Sorted(waiting) /\ Sorted(pubs) /\ Sorted(down)
  /\ Before(pubs, waiting) /\ Before(down, waiting) /\ Before(down, pubs)
  /\ Upto(waiting, Len(owed)) /\ Upto(pubs, Len(owed)) /\ Upto(down, Len(owed))
  /\ \A c \in Clients :
       /\ Sorted(inbox[c]) /\ Range(inbox[c]) \subseteq Msg
       /\ Upto(inbox[c], Len(owed))
       /\ Before(inbox[c], down) /\ Before(inbox[c], pubs)
       /\ Before(inbox[c], waiting)

-----------------------------------------------------------------------------
(***************************************************************************)
(* Facts about the queues.                                                 *)
(***************************************************************************)

\* The replies are told apart from the messages.
LEMMA Replies ==
  OK \in Nat /\ Error \in Nat /\ OK # Error /\ OK \notin Msg /\ Error \notin Msg
BY StreamAssumption DEF OK, Error, Msg

\* What the connection to Redis may hold, and its next command.
LEMMA UpFacts ==
  /\ << >> # Unsub /\ << >> # Sub /\ << >> # Resub
  /\ Unsub # Sub /\ Unsub # Resub /\ Sub # Resub
  /\ Append(<< >>, "subscribe") = Sub
  /\ Append(Unsub, "subscribe") = Resub
  /\ Append(<< >>, "unsubscribe") = Unsub
  /\ Head(Unsub) = "unsubscribe" /\ Tail(Unsub) = << >>
  /\ Head(Sub) = "subscribe" /\ Tail(Sub) = << >>
  /\ Head(Resub) = "unsubscribe" /\ Tail(Resub) = Sub
  /\ "subscribe" # "unsubscribe"
<1>1. /\ Len(<< >>) = 0 /\ Len(Unsub) = 1 /\ Len(Sub) = 1 /\ Len(Resub) = 2
      /\ Unsub[1] = "unsubscribe" /\ Sub[1] = "subscribe"
  BY DEF Unsub, Sub, Resub
<1>2. "subscribe" # "unsubscribe"
  OBVIOUS
<1>3. /\ << >> # Unsub /\ << >> # Sub /\ << >> # Resub
      /\ Unsub # Sub /\ Unsub # Resub /\ Sub # Resub
  BY <1>1, <1>2
<1>4. /\ Append(<< >>, "subscribe") = Sub
      /\ Append(<< >>, "unsubscribe") = Unsub
  BY DEF Unsub, Sub
<1>5. Append(Unsub, "subscribe") = Resub
  <2> DEFINE S == {"subscribe", "unsubscribe"}
  <2>1. Unsub \in Seq(S) /\ Resub \in Seq(S) /\ "subscribe" \in S
    BY DEF Unsub, Resub
  <2>2. Resub[1] = "unsubscribe" /\ Resub[2] = "subscribe"
    BY DEF Resub
  <2> HIDE DEF S
  <2>3. /\ Append(Unsub, "subscribe") \in Seq(S)
        /\ Len(Append(Unsub, "subscribe")) = 2
        /\ Append(Unsub, "subscribe")[2] = "subscribe"
        /\ Append(Unsub, "subscribe")[1] = "unsubscribe"
    <3>1. PICK s \in Seq(S) : s = Unsub
      BY <2>1
    <3>2. Len(s) = 1 /\ s[1] = "unsubscribe"
      BY <3>1, <1>1
    <3>3. /\ Append(s, "subscribe") \in Seq(S)
          /\ Len(Append(s, "subscribe")) = Len(s) + 1
          /\ \A i \in 1 .. Len(s) : Append(s, "subscribe")[i] = s[i]
          /\ Append(s, "subscribe")[Len(s) + 1] = "subscribe"
      BY <2>1, AppendProperties
    <3> QED
      BY <3>1, <3>2, <3>3
  <2> QED
    BY <2>1, <2>2, <2>3, <1>1, SeqEqual, 1 .. 2 = {1, 2}
<1>6. Head(Unsub) = "unsubscribe" /\ Tail(Unsub) = << >>
  BY DEF Unsub
<1>7. Head(Sub) = "subscribe" /\ Tail(Sub) = << >>
  BY DEF Sub
<1>8. Head(Resub) = "unsubscribe" /\ Tail(Resub) = Sub
  BY DEF Resub, Sub
<1> QED
  BY <1>2, <1>3, <1>4, <1>5, <1>6, <1>7, <1>8

\* Nothing is in an empty queue.
LEMMA EmptyFacts ==
  << >> \in Seq(Nat) /\ Range(<< >>) = {} /\ Sorted(<< >>)
BY DEF Range, Sorted

\* Append adds one element at the end.
LEMMA AppendFacts ==
  ASSUME NEW S, NEW s \in Seq(S), NEW x \in S
  PROVE  /\ Append(s, x) \in Seq(S)
         /\ DOMAIN Append(s, x) = 1 .. Len(s) + 1
         /\ Len(Append(s, x)) = Len(s) + 1
         /\ Append(s, x)[Len(s) + 1] = x
         /\ \A i \in 1 .. Len(s) : Append(s, x)[i] = s[i]
         /\ DOMAIN s = 1 .. Len(s) /\ Len(s) \in Nat
         /\ Range(Append(s, x)) = Range(s) \cup {x}
<1>1. /\ Append(s, x) \in Seq(S)
      /\ Len(Append(s, x)) = Len(s) + 1
      /\ Append(s, x)[Len(s) + 1] = x
      /\ \A i \in 1 .. Len(s) : Append(s, x)[i] = s[i]
  BY AppendProperties
<1>2. DOMAIN s = 1 .. Len(s) /\ Len(s) \in Nat
  BY LenProperties
<1>3. DOMAIN Append(s, x) = 1 .. Len(s) + 1
  BY <1>1, LenProperties
<1>4. Range(Append(s, x)) = Range(s) \cup {x}
  BY <1>1, <1>2, <1>3 DEF Range
<1> QED
  BY <1>1, <1>2, <1>3, <1>4

\* Tail takes the first element away.
LEMMA TailFacts ==
  ASSUME NEW S, NEW s \in Seq(S), s # << >>
  PROVE  /\ Tail(s) \in Seq(S)
         /\ Len(s) \in Nat \ {0}
         /\ DOMAIN s = 1 .. Len(s)
         /\ DOMAIN Tail(s) = 1 .. Len(s) - 1
         /\ \A i \in 1 .. Len(s) - 1 : Tail(s)[i] = s[i + 1]
         /\ Head(s) = s[1] /\ Head(s) \in Range(s)
         /\ Range(s) = Range(Tail(s)) \cup {Head(s)}
<1>1. /\ Tail(s) \in Seq(S) /\ Len(Tail(s)) = Len(s) - 1
      /\ \A i \in 1 .. Len(Tail(s)) : Tail(s)[i] = s[i + 1]
  BY HeadTailProperties
<1>2. DOMAIN s = 1 .. Len(s) /\ Len(s) \in Nat
  BY LenProperties
<1>3. Len(s) \in Nat \ {0}
  BY EmptySeq
<1>4. DOMAIN Tail(s) = 1 .. Len(s) - 1
  BY <1>1, LenProperties
<1>5. Head(s) = s[1]
  OBVIOUS
<1>6. Head(s) \in Range(s)
  BY <1>2, <1>3, <1>5 DEF Range
<1>7. Range(Tail(s)) \subseteq Range(s)
  <2> SUFFICES ASSUME NEW i \in 1 .. Len(s) - 1
               PROVE  Tail(s)[i] \in Range(s)
    BY <1>4 DEF Range
  <2>1. i + 1 \in DOMAIN s
    BY <1>2, <1>3
  <2> QED
    BY <2>1, <1>1 DEF Range
<1>8. Range(s) \subseteq Range(Tail(s)) \cup {Head(s)}
  <2> SUFFICES ASSUME NEW i \in 1 .. Len(s), i # 1
               PROVE  s[i] \in Range(Tail(s))
    BY <1>2, <1>5 DEF Range
  <2>1. i - 1 \in DOMAIN Tail(s) /\ (i - 1) + 1 = i
    BY <1>3, <1>4
  <2>2. Tail(s)[i - 1] = s[i]
    BY <2>1, <1>1, <1>4
  <2> QED
    BY <2>1, <2>2 DEF Range
<1> QED
  BY <1>1, <1>2, <1>3, <1>4, <1>5, <1>6, <1>7, <1>8

\* A message or a reply is put into a queue of replies.
LEMMA ReplyAppend ==
  ASSUME NEW s \in Seq(Nat), NEW x \in Nat
  PROVE  /\ NoReply(s) /\ x \in Msg => NoReply(Append(s, x))
         /\ NoReply(s) /\ x \in {OK, Error} => OneReply(Append(s, x))
         /\ OneReply(s) /\ x \in Msg => OneReply(Append(s, x))
<1> DEFINE t == Append(s, x)
<1>1. /\ DOMAIN t = 1 .. Len(s) + 1 /\ t[Len(s) + 1] = x
      /\ \A i \in 1 .. Len(s) : t[i] = s[i]
      /\ DOMAIN s = 1 .. Len(s) /\ Len(s) \in Nat
      /\ Range(t) = Range(s) \cup {x}
  BY AppendFacts
<1> HIDE DEF t
<1>2. NoReply(s) /\ x \in Msg => NoReply(t)
  BY <1>1 DEF NoReply
<1>3. ASSUME NoReply(s), x \in {OK, Error} PROVE OneReply(t)
  <2>1. \A j \in DOMAIN t : j # Len(s) + 1 => t[j] \in Msg
    BY <1>1, <1>3 DEF NoReply, Range
  <2> QED
    BY <2>1, <1>1, <1>3 DEF OneReply
<1>4. ASSUME OneReply(s), x \in Msg PROVE OneReply(t)
  <2>1. PICK i \in DOMAIN s : /\ s[i] \in {OK, Error}
                              /\ \A j \in DOMAIN s : j # i => s[j] \in Msg
    BY <1>4 DEF OneReply
  <2>2. i \in DOMAIN t /\ t[i] = s[i]
    BY <1>1
  <2>3. \A j \in DOMAIN t : j # i => t[j] \in Msg
    BY <1>1, <1>4, <2>1
  <2> QED
    BY <2>1, <2>2, <2>3 DEF OneReply
<1> QED
  BY <1>2, <1>3, <1>4 DEF t

\* The next reply or message is taken from a queue of replies.
LEMMA ReplyTail ==
  ASSUME NEW s \in Seq(Nat), s # << >>
  PROVE  /\ NoReply(s) => NoReply(Tail(s)) /\ Head(s) \in Msg
         /\ OneReply(s) /\ Head(s) \in {OK, Error} => NoReply(Tail(s))
         /\ OneReply(s) /\ Head(s) \in Msg => OneReply(Tail(s))
<1> DEFINE t == Tail(s)
<1>1. /\ Len(s) \in Nat \ {0} /\ DOMAIN s = 1 .. Len(s)
      /\ DOMAIN t = 1 .. Len(s) - 1
      /\ \A i \in 1 .. Len(s) - 1 : t[i] = s[i + 1]
      /\ Head(s) = s[1]
      /\ Range(s) = Range(t) \cup {Head(s)}
  BY TailFacts
<1> HIDE DEF t
<1>2. NoReply(s) => NoReply(t) /\ Head(s) \in Msg
  BY <1>1 DEF NoReply
<1>3. ASSUME OneReply(s)
      PROVE  /\ Head(s) \in {OK, Error} => NoReply(t)
             /\ Head(s) \in Msg => OneReply(t)
  <2>1. PICK i \in DOMAIN s : /\ s[i] \in {OK, Error}
                              /\ \A j \in DOMAIN s : j # i => s[j] \in Msg
    BY <1>3 DEF OneReply
  <2>2. ASSUME Head(s) \in {OK, Error} PROVE NoReply(t)
    <3>1. i = 1
      BY <2>1, <2>2, <1>1, Replies
    <3>2. \A j \in DOMAIN t : t[j] \in Msg
      BY <2>1, <3>1, <1>1
    <3> QED
      BY <3>2 DEF NoReply, Range
  <2>3. ASSUME Head(s) \in Msg PROVE OneReply(t)
    <3>0. i \in 1 .. Len(s)
      BY <1>1
    <3>1. i # 1
      BY <2>1, <2>3, <1>1, Replies
    <3>2. i - 1 \in DOMAIN t /\ t[i - 1] = s[i]
      BY <3>1, <1>1
    <3>3. ASSUME NEW j \in DOMAIN t, j # i - 1 PROVE t[j] \in Msg
      <4>1. j + 1 \in DOMAIN s /\ j + 1 # i /\ t[j] = s[j + 1]
        <5>1. j \in 1 .. Len(s) - 1
          BY <1>1
        <5>2. j + 1 \in 1 .. Len(s) /\ j + 1 # i
          <6>1. Len(s) \in Nat
            BY <1>1
          <6>2. j \in Int /\ i \in Int
            BY <5>1, <3>0, <6>1
          <6>3. j # i - 1
            BY <3>3
          <6> QED
            BY <5>1, <6>1, <6>2, <6>3
        <5> QED
          BY <5>1, <5>2, <1>1
      <4> QED
        BY <4>1, <2>1
    <3> QED
      BY <2>1, <3>2, <3>3 DEF OneReply
  <2> QED
    BY <2>2, <2>3
<1> QED
  BY <1>2, <1>3 DEF t

\* A later message is put at the end of a queue, the first one taken, or the
\* messages of another queue put behind.
LEMMA SortedAppend ==
  ASSUME NEW s \in Seq(Nat), NEW x \in Nat, Sorted(s),
         x \in Msg => \A y \in Range(s) \cap Msg : y < x
  PROVE  Sorted(Append(s, x))
<1> DEFINE t == Append(s, x)
<1>1. /\ DOMAIN t = 1 .. Len(s) + 1 /\ t[Len(s) + 1] = x
      /\ \A i \in 1 .. Len(s) : t[i] = s[i]
      /\ DOMAIN s = 1 .. Len(s) /\ Len(s) \in Nat
  BY AppendFacts
<1> HIDE DEF t
<1>2. \A i \in 1 .. Len(s) : s[i] \in Range(s)
  BY <1>1 DEF Range
<1> SUFFICES ASSUME NEW i \in DOMAIN t, NEW j \in DOMAIN t,
                    i < j, t[i] \in Msg, t[j] \in Msg
             PROVE  t[i] < t[j]
  BY DEF Sorted, t
<1>3. i \in 1 .. Len(s) /\ t[i] = s[i]
  BY <1>1
<1>4. CASE j = Len(s) + 1
  BY <1>1, <1>2, <1>3, <1>4
<1>5. CASE j # Len(s) + 1
  <2>1. j \in 1 .. Len(s) /\ t[j] = s[j]
    BY <1>1, <1>5
  <2> QED
    BY <1>1, <1>3, <2>1 DEF Sorted
<1> QED
  BY <1>4, <1>5

\* The queue without its first message is sorted, and behind that message.
LEMMA SortedTail ==
  ASSUME NEW s \in Seq(Nat), s # << >>, Sorted(s)
  PROVE  /\ Sorted(Tail(s))
         /\ Head(s) \in Msg => \A y \in Range(Tail(s)) \cap Msg : Head(s) < y
<1> DEFINE t == Tail(s)
<1>1. /\ Len(s) \in Nat \ {0} /\ DOMAIN s = 1 .. Len(s)
      /\ DOMAIN t = 1 .. Len(s) - 1
      /\ \A i \in 1 .. Len(s) - 1 : t[i] = s[i + 1]
      /\ Head(s) = s[1]
  BY TailFacts
<1> HIDE DEF t
<1>2. Sorted(t)
  <2> SUFFICES ASSUME NEW i \in DOMAIN t, NEW j \in DOMAIN t,
                      i < j, t[i] \in Msg, t[j] \in Msg
               PROVE  t[i] < t[j]
    BY DEF Sorted
  <2>1. i + 1 \in DOMAIN s /\ j + 1 \in DOMAIN s /\ i + 1 < j + 1
    BY <1>1
  <2>2. t[i] = s[i + 1] /\ t[j] = s[j + 1]
    BY <1>1
  <2> QED
    BY <2>1, <2>2 DEF Sorted
<1>3. ASSUME Head(s) \in Msg, NEW i \in DOMAIN t, t[i] \in Msg
      PROVE  Head(s) < t[i]
  <2>1. 1 \in DOMAIN s /\ i + 1 \in DOMAIN s /\ 1 < i + 1
    BY <1>1
  <2>2. t[i] = s[i + 1]
    BY <1>1
  <2> QED
    BY <1>1, <1>3, <2>1, <2>2 DEF Sorted
<1> QED
  BY <1>2, <1>3 DEF t, Range

\* A queue put behind another one.
LEMMA ConcatFacts ==
  ASSUME NEW s \in Seq(Nat), NEW t \in Seq(Nat)
  PROVE  /\ s \o t \in Seq(Nat)
         /\ Range(s \o t) = Range(s) \cup Range(t)
         /\ Sorted(s) /\ Sorted(t) /\ Before(s, t) => Sorted(s \o t)
<1> DEFINE u == s \o t
<1>1. /\ u \in Seq(Nat) /\ Len(u) = Len(s) + Len(t)
      /\ \A i \in 1 .. Len(s) + Len(t) :
           u[i] = IF i <= Len(s) THEN s[i] ELSE t[i - Len(s)]
  BY ConcatProperties
<1>2. /\ DOMAIN s = 1 .. Len(s) /\ Len(s) \in Nat
      /\ DOMAIN t = 1 .. Len(t) /\ Len(t) \in Nat
  BY LenProperties
<1> HIDE DEF u
<1>3. DOMAIN u = 1 .. Len(s) + Len(t)
  BY <1>1, LenProperties
<1>4. \A i \in DOMAIN u : \/ i \in DOMAIN s /\ u[i] = s[i]
                          \/ i > Len(s) /\ i - Len(s) \in DOMAIN t /\ u[i] = t[i - Len(s)]
  BY <1>1, <1>2, <1>3
<1>5. \A i \in DOMAIN s : i \in DOMAIN u /\ u[i] = s[i]
  BY <1>1, <1>2, <1>3
<1>6. \A i \in DOMAIN t : i + Len(s) \in DOMAIN u /\ u[i + Len(s)] = t[i]
  <2> TAKE i \in DOMAIN t
  <2>1. i + Len(s) \in 1 .. Len(s) + Len(t) /\ ~(i + Len(s) <= Len(s)) /\ i + Len(s) - Len(s) = i
    BY <1>2
  <2> QED
    BY <2>1, <1>1, <1>3
<1>7. Range(u) = Range(s) \cup Range(t)
  BY <1>4, <1>5, <1>6 DEF Range
<1>8. ASSUME Sorted(s), Sorted(t), Before(s, t) PROVE Sorted(u)
  <2> SUFFICES ASSUME NEW i \in DOMAIN u, NEW j \in DOMAIN u,
                      i < j, u[i] \in Msg, u[j] \in Msg
               PROVE  u[i] < u[j]
    BY DEF Sorted
  <2>0. i \in Nat /\ j \in Nat
    BY <1>3
  <2>1. CASE j \in DOMAIN s /\ u[j] = s[j]
    <3>1. i \in DOMAIN s /\ u[i] = s[i]
      BY <2>0, <2>1, <1>2, <1>3, <1>5
    <3> QED
      BY <2>1, <3>1, <1>8 DEF Sorted
  <2>2. CASE j > Len(s) /\ j - Len(s) \in DOMAIN t /\ u[j] = t[j - Len(s)]
    <3>1. CASE i \in DOMAIN s /\ u[i] = s[i]
      <4>1. s[i] \in Range(s) /\ t[j - Len(s)] \in Range(t)
        BY <2>2, <3>1 DEF Range
      <4> QED
        BY <4>1, <2>2, <3>1, <1>8 DEF Before
    <3>2. CASE i > Len(s) /\ i - Len(s) \in DOMAIN t /\ u[i] = t[i - Len(s)]
      <4>1. i - Len(s) < j - Len(s)
        BY <2>0, <1>2
      <4> QED
        BY <4>1, <2>2, <3>2, <1>8 DEF Sorted
    <3> QED
      BY <3>1, <3>2, <1>4
  <2> QED
    BY <2>1, <2>2, <1>4
<1> QED
  BY <1>1, <1>7, <1>8 DEF u

-----------------------------------------------------------------------------
(***************************************************************************)
(* ControlInv is inductive.                                                *)
(***************************************************************************)

\* A reply is on the connection only while the promise is pending, and then
\* it is the only one.
LEMMA ReplyFacts ==
  ASSUME ControlInv, down # << >>
  PROVE  /\ Tail(down) \in Seq(Nat) /\ Head(down) \in Nat
         /\ Range(down) = Range(Tail(down)) \cup {Head(down)}
         /\ Head(down) = OK => server
         /\ Head(down) = Error => ~server /\ failures # 0
         /\ Head(down) \in {OK, Error} =>
              pending /\ up = << >> /\ NoReply(Tail(down))
         /\ Head(down) \in Msg =>
              /\ NoReply(down) => NoReply(Tail(down))
              /\ OneReply(down) => OneReply(Tail(down))
<1> USE DEF ControlInv
<1>1. down \in Seq(Nat)
  BY DEF TypeInv
<1>2. /\ Tail(down) \in Seq(Nat)
      /\ Range(down) = Range(Tail(down)) \cup {Head(down)}
  BY <1>1, TailFacts
<1>3. Head(down) \in Nat
  BY <1>1, HeadTailProperties
<1>4. /\ NoReply(down) => NoReply(Tail(down)) /\ Head(down) \in Msg
      /\ OneReply(down) /\ Head(down) \in {OK, Error} => NoReply(Tail(down))
      /\ OneReply(down) /\ Head(down) \in Msg => OneReply(Tail(down))
  BY <1>1, ReplyTail
<1>5. /\ Head(down) = OK => server
      /\ Head(down) = Error => ~server /\ failures # 0
  BY <1>2 DEF LinkInv
<1>6. ASSUME Head(down) \in {OK, Error}
      PROVE  pending /\ up = << >> /\ NoReply(Tail(down))
  <2>1. ~NoReply(down)
    BY <1>4, <1>6, Replies
  <2> QED
    BY <2>1, <1>4, <1>6 DEF LinkInv
<1> QED
  BY <1>2, <1>3, <1>4, <1>5, <1>6

\* Initially nobody is connected and nothing is on the way.
LEMMA InitControl == Init => ControlInv
<1> SUFFICES ASSUME Init PROVE ControlInv
  OBVIOUS
<1>1. TypeInv
  BY EmptyFacts, EmptySeq DEF Init, TypeInv
<1>2. LinkInv
  BY EmptyFacts, UpFacts DEF Init, LinkInv, NoReply
<1>3. NoteInv
  BY DEF Init, NoteInv
<1> QED
  BY <1>1, <1>2, <1>3 DEF ControlInv

\* The first client sends a subscribe command, behind an unsubscribe at most.
LEMMA SubscribeControl ==
  ASSUME ControlInv, NEW c \in Clients, Subscribe(c)
  PROVE  ControlInv'
<1> USE DEF ControlInv
<1>1. TypeInv'
  <2>1. pending' \in BOOLEAN
    BY DEF TypeInv, Subscribe
  <2> QED
    BY <2>1 DEF TypeInv, Subscribe
<1>2. CASE subscribed \/ pending
  <2>1. UNCHANGED <<up, pending, subscribed, cleanup, waiting, down, server, failures>>
    BY <1>2 DEF Subscribe
  <2>2. subs' # {}
    BY DEF Subscribe
  <2>3. LinkInv'
    BY <2>1 DEF LinkInv
  <2>4. NoteInv'
    BY <2>1, <2>2, <1>2 DEF NoteInv
  <2> QED
    BY <1>1, <2>3, <2>4
<1>3. CASE ~(subscribed \/ pending)
  <2>1. /\ up' = Append(up, "subscribe") /\ pending'
        /\ UNCHANGED <<subscribed, cleanup, waiting, down, server, failures>>
    BY <1>3 DEF Subscribe
  <2>2. subs' # {}
    BY DEF Subscribe
  <2>3. up \in {<< >>, Unsub} /\ NoReply(down) /\ (up = << >> => ~server)
    BY <1>3 DEF LinkInv, NoteInv
  <2>4. up' \in {Sub, Resub} /\ (up' = Sub => ~server)
    BY <2>1, <2>3, UpFacts
  <2>5. LinkInv'
    BY <2>1, <2>3, <2>4 DEF LinkInv
  <2>6. NoteInv'
    BY <2>1, <2>2, <1>3 DEF NoteInv
  <2> QED
    BY <1>1, <2>5, <2>6
<1> QED
  BY <1>2, <1>3

\* The last client leaves the cleanup to the promise, or unsubscribes.
LEMMA DisconnectControl ==
  ASSUME ControlInv, NEW c \in Clients, Disconnect(c)
  PROVE  ControlInv'
<1> USE DEF ControlInv
<1>0. UNCHANGED <<pending, waiting, down, server, pubs, owed, inbox, failures>>
  BY DEF Disconnect
<1>1. subs' \subseteq Clients /\ subs # {} /\ (subs' # {} => subs # {})
  BY DEF Disconnect, TypeInv
<1>2. CASE /\ subs' # {} \/ (~pending /\ ~subscribed)
           /\ UNCHANGED <<cleanup, up, subscribed>>
  <2>1. TypeInv'
    BY <1>0, <1>1, <1>2 DEF TypeInv
  <2>2. LinkInv'
    BY <1>0, <1>2 DEF LinkInv
  <2>3. NoteInv'
    BY <1>0, <1>1, <1>2 DEF NoteInv
  <2> QED
    BY <2>1, <2>2, <2>3
<1>3. CASE subs' = {} /\ pending /\ cleanup' = TRUE /\ UNCHANGED <<up, subscribed>>
  <2>1. TypeInv'
    BY <1>0, <1>1, <1>3 DEF TypeInv
  <2>2. LinkInv'
    BY <1>0, <1>3 DEF LinkInv
  <2>3. NoteInv'
    BY <1>0, <1>1, <1>3 DEF NoteInv
  <2> QED
    BY <2>1, <2>2, <2>3
<1>4. CASE /\ subs' = {} /\ ~pending /\ subscribed
           /\ up' = Append(up, "unsubscribe") /\ subscribed' = FALSE
           /\ UNCHANGED cleanup
  <2>0. up = << >> /\ up' = Unsub /\ up' # << >> /\ up' # Sub /\ server
    BY <1>4, UpFacts DEF NoteInv
  <2>1. TypeInv'
    BY <1>0, <1>1, <1>4 DEF TypeInv
  <2>2. LinkInv'
    BY <1>0, <1>4, <2>0 DEF LinkInv
  <2>3. NoteInv'
    BY <1>0, <1>1, <1>4, <2>0 DEF NoteInv
  <2> QED
    BY <2>1, <2>2, <2>3
<1> QED
  BY <1>2, <1>3, <1>4 DEF Disconnect

\* The number of an emit is a message.
LEMMA EmitFacts ==
  ASSUME ControlInv, Emit
  PROVE  /\ Len(owed) \in Nat /\ Len(owed) + 1 \in Msg /\ Len(owed) + 1 \in Nat
         /\ DOMAIN owed = 1 .. Len(owed)
         /\ owed' \in Seq(SUBSET Clients)
         /\ DOMAIN owed' = 1 .. Len(owed) + 1 /\ Len(owed') = Len(owed) + 1
         /\ owed'[Len(owed) + 1] = subs
         /\ \A e \in DOMAIN owed : owed'[e] = owed[e]
<1>1. owed \in Seq(SUBSET Clients) /\ subs \in SUBSET Clients
  BY DEF ControlInv, TypeInv
<1>2. owed' = Append(owed, subs) /\ Len(owed) < MaxEmits
  BY DEF Emit
<1>3. Len(owed) \in Nat /\ DOMAIN owed = 1 .. Len(owed)
  BY <1>1, LenProperties
<1>4. Len(owed) + 1 \in Msg /\ Len(owed) + 1 \in Nat
  BY <1>2, <1>3, StreamAssumption DEF Msg
<1>5. /\ Append(owed, subs) \in Seq(SUBSET Clients)
      /\ DOMAIN Append(owed, subs) = 1 .. Len(owed) + 1
      /\ Len(Append(owed, subs)) = Len(owed) + 1
      /\ Append(owed, subs)[Len(owed) + 1] = subs
      /\ \A i \in 1 .. Len(owed) : Append(owed, subs)[i] = owed[i]
  BY <1>1, AppendFacts
<1> QED
  BY <1>2, <1>3, <1>4, <1>5

\* An emit waits only while the promise is pending.
LEMMA EmitControl ==
  ASSUME ControlInv, Emit
  PROVE  ControlInv'
<1> USE DEF ControlInv
<1>0. UNCHANGED <<subs, gone, subscribed, pending, cleanup, up, down, server,
                  inbox, failures>>
  BY DEF Emit
<1>1. Len(owed) + 1 \in Msg /\ Len(owed) + 1 \in Nat /\ owed' \in Seq(SUBSET Clients)
  BY EmitFacts
<1>2. /\ waiting' \in Seq(Nat) /\ Range(waiting') \subseteq Msg
      /\ pubs' \in Seq(Nat) /\ Range(pubs') \subseteq Msg
      /\ ~pending => waiting' = waiting
  <2>1. /\ waiting \in Seq(Nat) /\ Range(waiting) \subseteq Msg
        /\ pubs \in Seq(Nat) /\ Range(pubs) \subseteq Msg
    BY DEF TypeInv
  <2>2. PICK n \in Nat : n = Len(owed) + 1
    BY <1>1
  <2>3. \A s \in Seq(Nat) : /\ Append(s, n) \in Seq(Nat)
                            /\ Range(Append(s, n)) = Range(s) \cup {n}
    BY AppendFacts
  <2>4. /\ Append(waiting, n) \in Seq(Nat)
        /\ Range(Append(waiting, n)) = Range(waiting) \cup {n}
        /\ Append(pubs, n) \in Seq(Nat)
        /\ Range(Append(pubs, n)) = Range(pubs) \cup {n}
    BY <2>1, <2>3
  <2>5. IF pending THEN waiting' = Append(waiting, n) /\ pubs' = pubs
                   ELSE pubs' = Append(pubs, n) /\ waiting' = waiting
    BY <2>2 DEF Emit
  <2> QED
    BY <1>1, <2>1, <2>2, <2>4, <2>5
<1>3. TypeInv'
  BY <1>0, <1>1, <1>2 DEF TypeInv
<1>4. LinkInv'
  BY <1>0 DEF LinkInv
<1>5. NoteInv'
  BY <1>0, <1>2 DEF NoteInv
<1> QED
  BY <1>3, <1>4, <1>5

\* While a subscribe command is unanswered there is no reply on the way.
LEMMA UpHead ==
  ASSUME ControlInv, up # << >>
  PROVE  /\ NoReply(down) /\ ~subscribed
         /\ Head(up) = "subscribe" =>
              pending /\ up = Sub /\ Tail(up) = << >> /\ ~server
         /\ Head(up) = "unsubscribe" =>
              \/ ~pending /\ up = Unsub /\ Tail(up) = << >>
              \/ pending /\ up = Resub /\ Tail(up) = Sub
<1>1. up \in {Unsub, Sub, Resub} /\ NoReply(down)
  BY DEF ControlInv, LinkInv
<1>2. /\ pending => up \in {Sub, Resub}
      /\ ~pending => up = Unsub
      /\ up = Sub => ~server
      /\ ~subscribed
  BY DEF ControlInv, LinkInv, NoteInv
<1> QED
  BY <1>1, <1>2, UpFacts

\* Redis answers the one subscribe command.
LEMMA RedisSubscribesControl ==
  ASSUME ControlInv, RedisSubscribes
  PROVE  ControlInv'
<1> USE DEF ControlInv
<1>0. /\ UNCHANGED <<subs, gone, subscribed, pending, cleanup, waiting, pubs,
                     owed, inbox, failures>>
      /\ server' = TRUE /\ up' = Tail(up) /\ down' = Append(down, OK)
      /\ up # << >> /\ Head(up) = "subscribe"
  BY DEF RedisSubscribes
<1>1. pending /\ up = Sub /\ up' = << >> /\ NoReply(down) /\ ~subscribed
  BY <1>0, UpHead
<1>2. down \in Seq(Nat) /\ OK \in Nat /\ Error # OK /\ Error \notin Msg
  BY Replies DEF TypeInv
<1>3. down' \in Seq(Nat) /\ Range(down') = Range(down) \cup {OK}
  BY <1>0, <1>2, AppendFacts
<1>4. OneReply(down')
  BY <1>0, <1>1, <1>2, ReplyAppend
<1>5. TypeInv'
  BY <1>0, <1>3 DEF TypeInv
<1>6. LinkInv'
  <2>1. Error \notin Range(down')
    BY <1>1, <1>2, <1>3 DEF NoReply
  <2>2. up' # Sub
    BY <1>1, UpFacts
  <2> QED
    BY <1>0, <1>1, <1>4, <2>1, <2>2 DEF LinkInv, OneReply, OK, Error, Msg
<1>7. NoteInv'
  BY <1>0, <1>1 DEF NoteInv
<1> QED
  BY <1>5, <1>6, <1>7

\* Redis refuses the one subscribe command.
LEMMA RedisRefusesControl ==
  ASSUME ControlInv, RedisRefuses
  PROVE  ControlInv'
<1> USE DEF ControlInv
<1>0. /\ UNCHANGED <<subs, gone, subscribed, pending, cleanup, waiting, pubs,
                     owed, inbox, server>>
      /\ failures' = failures + 1 /\ up' = Tail(up) /\ down' = Append(down, Error)
      /\ up # << >> /\ Head(up) = "subscribe"
  BY DEF RedisRefuses
<1>1. pending /\ up = Sub /\ up' = << >> /\ NoReply(down) /\ ~subscribed /\ ~server
  BY <1>0, UpHead
<1>2. down \in Seq(Nat) /\ Error \in Nat /\ Error # OK /\ OK \notin Msg
  BY Replies DEF TypeInv
<1>3. down' \in Seq(Nat) /\ Range(down') = Range(down) \cup {Error}
  BY <1>0, <1>2, AppendFacts
<1>4. OneReply(down')
  BY <1>0, <1>1, <1>2, ReplyAppend
<1>5. failures' \in Nat /\ failures' # 0
  BY <1>0 DEF TypeInv
<1>6. TypeInv'
  BY <1>0, <1>3, <1>5 DEF TypeInv
<1>7. LinkInv'
  <2>1. OK \notin Range(down')
    BY <1>1, <1>2, <1>3 DEF NoReply
  <2>2. up' # Sub
    BY <1>1, UpFacts
  <2> QED
    BY <1>0, <1>1, <1>4, <1>5, <2>1, <2>2 DEF LinkInv, OneReply, OK, Error, Msg
<1>8. NoteInv'
  BY <1>0, <1>1 DEF NoteInv
<1> QED
  BY <1>6, <1>7, <1>8

\* Redis takes an unsubscribe, of a process that has forgotten the channel.
LEMMA RedisUnsubscribesControl ==
  ASSUME ControlInv, RedisUnsubscribes
  PROVE  ControlInv'
<1> USE DEF ControlInv
<1>0. /\ UNCHANGED <<subs, gone, subscribed, pending, cleanup, waiting, down, pubs,
                     owed, inbox, failures>>
      /\ server' = FALSE /\ up' = Tail(up)
      /\ up # << >> /\ Head(up) = "unsubscribe"
  BY DEF RedisUnsubscribes
<1>1. /\ NoReply(down) /\ ~subscribed
      /\ \/ ~pending /\ up' = << >>
         \/ pending /\ up' = Sub
  BY <1>0, UpHead
<1>2. OK \notin Range(down) /\ Error \notin Range(down)
  BY <1>1, Replies DEF NoReply
<1>3. TypeInv'
  BY <1>0 DEF TypeInv
<1>4. LinkInv'
  BY <1>0, <1>1, <1>2, UpFacts DEF LinkInv, NoReply, OK, Error, Msg
<1>5. NoteInv'
  BY <1>0, <1>1 DEF NoteInv
<1> QED
  BY <1>3, <1>4, <1>5

\* Redis takes the next PUBLISH and sends it to the process if it is subscribed.
LEMMA PublishFacts ==
  ASSUME ControlInv, RedisPublishes
  PROVE  /\ pubs \in Seq(Nat) /\ pubs # << >> /\ Head(pubs) \in Msg /\ Head(pubs) \in Nat
         /\ pubs' \in Seq(Nat) /\ Range(pubs) = Range(pubs') \cup {Head(pubs)}
         /\ down' \in Seq(Nat)
         /\ server => /\ down' = Append(down, Head(pubs))
                      /\ Range(down') = Range(down) \cup {Head(pubs)}
         /\ ~server => down' = down
<1>1. pubs \in Seq(Nat) /\ pubs # << >> /\ pubs' = Tail(pubs)
  BY DEF ControlInv, TypeInv, RedisPublishes
<1>2. /\ Tail(pubs) \in Seq(Nat) /\ Head(pubs) \in Range(pubs)
      /\ Range(pubs) = Range(Tail(pubs)) \cup {Head(pubs)}
  BY <1>1, TailFacts
<1>3. Head(pubs) \in Msg /\ Head(pubs) \in Nat
  BY <1>1, <1>2, HeadTailProperties DEF ControlInv, TypeInv
<1>4. /\ server => down' = Append(down, Head(pubs))
      /\ ~server => down' = down
  BY DEF RedisPublishes
<1>5. PICK n \in Nat : n = Head(pubs)
  BY <1>3
<1>6. down \in Seq(Nat)
  BY DEF ControlInv, TypeInv
<1>7. Append(down, n) \in Seq(Nat) /\ Range(Append(down, n)) = Range(down) \cup {n}
  BY <1>6, AppendFacts
<1>8. server \in BOOLEAN
  BY DEF ControlInv, TypeInv
<1> QED
  BY <1>1, <1>2, <1>3, <1>4, <1>5, <1>6, <1>7, <1>8

\* A message does not change what is known of the subscription.
LEMMA RedisPublishesControl ==
  ASSUME ControlInv, RedisPublishes
  PROVE  ControlInv'
<1> USE DEF ControlInv
<1>0. UNCHANGED <<subs, gone, subscribed, pending, cleanup, waiting, up, server,
                  owed, inbox, failures>>
  BY DEF RedisPublishes
<1>1. /\ pubs' \in Seq(Nat) /\ Range(pubs) = Range(pubs') \cup {Head(pubs)}
      /\ down' \in Seq(Nat) /\ Head(pubs) \in Msg /\ Head(pubs) \in Nat
      /\ server => /\ down' = Append(down, Head(pubs))
                   /\ Range(down') = Range(down) \cup {Head(pubs)}
      /\ ~server => down' = down
  BY PublishFacts
<1>2. /\ NoReply(down) => NoReply(down')
      /\ OneReply(down) => OneReply(down')
      /\ OK \in Range(down') => OK \in Range(down)
      /\ Error \in Range(down') => Error \in Range(down)
  <2>1. CASE ~server
    BY <2>1, <1>1
  <2>2. CASE server
    <3>1. PICK n \in Nat : n = Head(pubs)
      BY <1>1
    <3>2. down \in Seq(Nat)
      BY DEF TypeInv
    <3>3. /\ NoReply(down) => NoReply(Append(down, n))
          /\ OneReply(down) => OneReply(Append(down, n))
      BY <3>1, <3>2, <1>1, ReplyAppend
    <3> QED
      BY <2>2, <3>1, <3>3, <1>1, Replies
  <2> QED
    BY <2>1, <2>2
<1>3. TypeInv'
  BY <1>0, <1>1 DEF TypeInv
<1>4. LinkInv'
  <2>1. /\ NoReply(down) => NoReply(down)'
        /\ OneReply(down) => OneReply(down)'
    BY <1>2 DEF NoReply, OneReply, Msg, OK, Error
  <2>2. /\ (OK \in Range(down))' => OK \in Range(down)
        /\ (Error \in Range(down))' => Error \in Range(down)
    BY <1>2 DEF OK, Error
  <2> QED
    BY <1>0, <2>1, <2>2 DEF LinkInv
<1>5. NoteInv'
  BY <1>0 DEF NoteInv
<1> QED
  BY <1>3, <1>4, <1>5

\* The emits that waited are published behind the others.
LEMMA WaitersPublish ==
  ASSUME ControlInv
  PROVE  /\ pubs \o waiting \in Seq(Nat)
         /\ Range(pubs \o waiting) = Range(pubs) \cup Range(waiting)
         /\ Range(pubs \o waiting) \subseteq Msg
<1>1. /\ pubs \in Seq(Nat) /\ waiting \in Seq(Nat)
      /\ Range(pubs) \subseteq Msg /\ Range(waiting) \subseteq Msg
  BY DEF ControlInv, TypeInv
<1>2. /\ pubs \o waiting \in Seq(Nat)
      /\ Range(pubs \o waiting) = Range(pubs) \cup Range(waiting)
  BY <1>1, ConcatFacts
<1> QED
  BY <1>1, <1>2

\* The cleanup unsubscribes if nobody came meanwhile.
LEMMA FulfilledControl ==
  ASSUME ControlInv, SubscriptionFulfilled
  PROVE  ControlInv'
<1> USE DEF ControlInv
<1> DEFINE drop == cleanup /\ subs = {}
<1>0. /\ UNCHANGED <<subs, gone, server, owed, inbox, failures>>
      /\ down # << >> /\ Head(down) = OK /\ down' = Tail(down)
      /\ pending' = FALSE /\ cleanup' = FALSE /\ waiting' = << >>
      /\ pubs' = pubs \o waiting
  BY DEF SubscriptionFulfilled
<1>1. /\ down' \in Seq(Nat) /\ NoReply(down') /\ pending /\ up = << >> /\ server
  BY <1>0, ReplyFacts
<1>2. OK \notin Range(down') /\ Error \notin Range(down')
  BY <1>1, Replies DEF NoReply
<1>3. pubs' \in Seq(Nat) /\ Range(pubs') \subseteq Msg
  BY <1>0, WaitersPublish
<1>4. waiting' \in Seq(Nat) /\ Range(waiting') \subseteq Msg
  BY <1>0, EmptyFacts
<1>5. CASE drop
  <2>1. subscribed' = FALSE /\ up' = Append(up, "unsubscribe") /\ subs' = {}
    BY <1>5, <1>0 DEF SubscriptionFulfilled
  <2>2. up' = Unsub /\ up' # << >> /\ up' # Sub
    BY <2>1, <1>1, UpFacts
  <2>3. TypeInv'
    BY <1>0, <1>1, <1>3, <1>4, <2>1 DEF TypeInv
  <2>4. LinkInv'
    BY <1>0, <1>1, <1>2, <2>2 DEF LinkInv, NoReply, OK, Error, Msg
  <2>5. NoteInv'
    BY <1>0, <2>1, <2>2 DEF NoteInv
  <2> QED
    BY <2>3, <2>4, <2>5
<1>6. CASE ~drop
  <2>1. subscribed' = TRUE /\ up' = up
    BY <1>6 DEF SubscriptionFulfilled
  <2>2. subs' # {} /\ up' = << >> /\ up' # Sub
    BY <1>0, <1>1, <1>6, <2>1, UpFacts DEF NoteInv
  <2>3. TypeInv'
    BY <1>0, <1>1, <1>3, <1>4, <2>1 DEF TypeInv
  <2>4. LinkInv'
    BY <1>0, <1>1, <1>2, <2>2 DEF LinkInv, NoReply, OK, Error, Msg
  <2>5. NoteInv'
    BY <1>0, <1>1, <2>1, <2>2 DEF NoteInv
  <2> QED
    BY <2>3, <2>4, <2>5
<1> QED
  BY <1>5, <1>6

\* A rejection leaves neither note nor subscription.
LEMMA RejectedControl ==
  ASSUME ControlInv, SubscriptionRejected
  PROVE  ControlInv'
<1> USE DEF ControlInv
<1>0. /\ UNCHANGED <<subs, gone, up, server, owed, inbox, failures>>
      /\ down # << >> /\ Head(down) = Error /\ down' = Tail(down)
      /\ pending' = FALSE /\ cleanup' = FALSE /\ waiting' = << >>
      /\ subscribed' = FALSE
      /\ pubs' = pubs \o waiting
  BY DEF SubscriptionRejected
<1>1. /\ down' \in Seq(Nat) /\ NoReply(down') /\ pending /\ up = << >> /\ ~server
      /\ failures # 0
  BY <1>0, ReplyFacts
<1>2. OK \notin Range(down') /\ Error \notin Range(down')
  BY <1>1, Replies DEF NoReply
<1>3. pubs' \in Seq(Nat) /\ Range(pubs') \subseteq Msg
  BY <1>0, WaitersPublish
<1>4. waiting' \in Seq(Nat) /\ Range(waiting') \subseteq Msg
  BY <1>0, EmptyFacts
<1>5. TypeInv'
  BY <1>0, <1>1, <1>3, <1>4 DEF TypeInv
<1>6. LinkInv'
  BY <1>0, <1>1, <1>2 DEF LinkInv, NoReply, OK, Error, Msg
<1>7. NoteInv'
  BY <1>0, <1>1 DEF NoteInv
<1> QED
  BY <1>5, <1>6, <1>7

\* The process that ends leaves nothing.
LEMMA UnhandledControl ==
  ASSUME ControlInv, UnhandledRejection
  PROVE  ControlInv'
<1> USE DEF ControlInv
<1>0. /\ subs' = {} /\ pending' = FALSE /\ subscribed' = FALSE
      /\ up' = << >> /\ down' = << >> /\ pubs' = << >> /\ server' = FALSE
      /\ UNCHANGED <<cleanup, waiting, owed, inbox, failures>>
      /\ ~cleanup /\ waiting = << >>
  BY DEF UnhandledRejection
<1>1. TypeInv'
  BY <1>0, EmptyFacts DEF TypeInv
<1>2. LinkInv'
  BY <1>0, EmptyFacts DEF LinkInv, NoReply
<1>3. NoteInv'
  BY <1>0 DEF NoteInv
<1> QED
  BY <1>1, <1>2, <1>3

\* A message is appended to the inbox of every connected client.
LEMMA MessageFacts ==
  ASSUME ControlInv, HandleRedisMessage
  PROVE  /\ Head(down) \in Msg /\ Head(down) \in Nat
         /\ down' \in Seq(Nat) /\ Range(down) = Range(down') \cup {Head(down)}
         /\ inbox' \in [Clients -> Seq(Nat)]
         /\ \A c \in Clients :
              /\ c \notin subs => inbox'[c] = inbox[c]
              /\ c \in subs =>
                   /\ inbox'[c] = Append(inbox[c], Head(down))
                   /\ Range(inbox'[c]) = Range(inbox[c]) \cup {Head(down)}
<1>0. down # << >> /\ Head(down) \in Msg /\ down' = Tail(down)
  BY DEF HandleRedisMessage, Msg
<1>1. /\ down' \in Seq(Nat) /\ Head(down) \in Nat
      /\ Range(down) = Range(down') \cup {Head(down)}
  BY <1>0, ReplyFacts
<1>2. inbox' = [c \in Clients |-> IF c \in subs THEN Append(inbox[c], Head(down))
                                                ELSE inbox[c]]
  BY DEF HandleRedisMessage
<1>3. PICK n \in Nat : n = Head(down)
  BY <1>1
<1>4. ASSUME NEW c \in Clients
      PROVE  /\ inbox[c] \in Seq(Nat)
             /\ Append(inbox[c], n) \in Seq(Nat)
             /\ Range(Append(inbox[c], n)) = Range(inbox[c]) \cup {n}
  <2>1. inbox[c] \in Seq(Nat)
    BY DEF ControlInv, TypeInv
  <2> QED
    BY <2>1, AppendFacts
<1>5. \A c \in Clients :
        inbox'[c] = IF c \in subs THEN Append(inbox[c], n) ELSE inbox[c]
  BY <1>2, <1>3
<1>6. inbox' \in [Clients -> Seq(Nat)]
  BY <1>2, <1>3, <1>4
<1> QED
  BY <1>0, <1>1, <1>3, <1>4, <1>5, <1>6

\* A message goes to the clients only.
LEMMA MessageControl ==
  ASSUME ControlInv, HandleRedisMessage
  PROVE  ControlInv'
<1> USE DEF ControlInv
<1>0. /\ UNCHANGED <<subs, gone, subscribed, pending, cleanup, waiting, up, server,
                     pubs, owed, failures>>
      /\ down # << >> /\ down' = Tail(down)
  BY DEF HandleRedisMessage
<1>1. /\ Head(down) \in Msg /\ down' \in Seq(Nat)
      /\ Range(down) = Range(down') \cup {Head(down)}
      /\ inbox' \in [Clients -> Seq(Nat)]
  BY MessageFacts
<1>2. /\ NoReply(down) => NoReply(down')
      /\ OneReply(down) => OneReply(down')
  BY <1>0, <1>1, ReplyFacts
<1>3. TypeInv'
  BY <1>0, <1>1 DEF TypeInv
<1>4. LinkInv'
  <2>1. /\ NoReply(down) => NoReply(down)'
        /\ OneReply(down) => OneReply(down)'
    BY <1>2 DEF NoReply, OneReply, Msg, OK, Error
  <2>2. /\ (OK \in Range(down))' => OK \in Range(down)
        /\ (Error \in Range(down))' => Error \in Range(down)
    BY <1>1 DEF OK, Error
  <2> QED
    BY <1>0, <2>1, <2>2 DEF LinkInv
<1>5. NoteInv'
  BY <1>0 DEF NoteInv
<1> QED
  BY <1>3, <1>4, <1>5

\* Every step keeps ControlInv.
LEMMA NextControl == ControlInv /\ [Next]_vars => ControlInv'
<1> SUFFICES ASSUME ControlInv, [Next]_vars PROVE ControlInv'
  OBVIOUS
<1>1. CASE UNCHANGED vars
  BY <1>1 DEF vars, ControlInv, TypeInv, LinkInv, NoteInv, NoReply, OneReply, OK, Error, Msg
<1> QED
  BY <1>1, SubscribeControl, DisconnectControl, EmitControl, RedisSubscribesControl,
     RedisRefusesControl, RedisUnsubscribesControl, RedisPublishesControl,
     FulfilledControl, RejectedControl, UnhandledControl, MessageControl DEF Next

\* ControlInv holds in every reachable state.
LEMMA SpecControl == Spec => []ControlInv
BY InitControl, NextControl, PTL DEF Spec

\* Once Redis has answered, the process is subscribed just when a client is
\* there, however the connections and disconnections overlap with the
\* subscription, its cleanup and its refusal.
THEOREM SubscriptionCorrect == Spec => []SubscriptionMatchesClients
<1>1. ControlInv => SubscriptionMatchesClients
  BY DEF ControlInv, NoteInv, SubscriptionMatchesClients
<1> QED
  BY <1>1, SpecControl, PTL

-----------------------------------------------------------------------------
(***************************************************************************)
(* No notification is missed: DeliveryInv is kept, given ControlInv.       *)
(***************************************************************************)

\* Initially nothing is owed.
LEMMA InitDelivery == Init => DeliveryInv
BY EmptyFacts DEF Init, DeliveryInv, NoNotificationMissed

\* A client that comes is owed nothing that was emitted before.
LEMMA SubscribeDelivery ==
  ASSUME ControlInv, DeliveryInv, NEW c \in Clients, Subscribe(c)
  PROVE  DeliveryInv'
<1>0. /\ UNCHANGED <<gone, waiting, down, pubs, owed, inbox, failures>>
      /\ subs' = subs \cup {c} /\ c \notin subs \cup gone
      /\ pending' => pending \/ (~pending /\ ~subscribed)
  BY DEF Subscribe, ControlInv, TypeInv
<1>1. \A e \in DOMAIN owed : /\ owed[e] \subseteq subs \cup gone
                             /\ owed[e] \cap subs' = owed[e] \cap subs
  BY <1>0 DEF DeliveryInv
<1>2. ASSUME failures = 0, pending', NEW e \in Range(pubs)
      PROVE  owed[e] \cap subs' = {}
  <2>1. e \in DOMAIN owed
    BY DEF DeliveryInv
  <2>2. CASE pending
    BY <1>1, <1>2, <2>1, <2>2 DEF DeliveryInv
  <2>3. CASE ~pending
    <3>1. subs = {}
      BY <1>0, <1>2, <2>3 DEF ControlInv, NoteInv
    <3> QED
      BY <3>1, <1>1, <2>1
  <2> QED
    BY <2>2, <2>3
<1>3. NoNotificationMissed'
  BY <1>0, <1>1 DEF DeliveryInv, NoNotificationMissed
<1> QED
  BY <1>0, <1>1, <1>2, <1>3 DEF DeliveryInv

\* A client that leaves is owed nothing more.
LEMMA DisconnectDelivery ==
  ASSUME ControlInv, DeliveryInv, NEW c \in Clients, Disconnect(c)
  PROVE  DeliveryInv'
<1>0. /\ UNCHANGED <<pending, waiting, down, pubs, owed, inbox, failures>>
      /\ subs' = subs \ {c} /\ gone' = gone \cup {c}
  BY DEF Disconnect
<1>1. subs' \subseteq subs /\ subs' \cup gone' = subs \cup gone \cup {c}
  BY <1>0
<1>2. NoNotificationMissed'
  BY <1>0, <1>1 DEF DeliveryInv, NoNotificationMissed
<1> QED
  BY <1>0, <1>1, <1>2 DEF DeliveryInv

\* A new notification is in a queue.
LEMMA EmitDelivery ==
  ASSUME ControlInv, DeliveryInv, Emit
  PROVE  DeliveryInv'
<1>0. UNCHANGED <<subs, gone, pending, down, inbox, failures>>
  BY DEF Emit
<1>1. PICK n \in Nat : n = Len(owed) + 1
  BY EmitFacts
<1>2. /\ DOMAIN owed' = DOMAIN owed \cup {n} /\ n \notin DOMAIN owed
      /\ owed'[n] = subs /\ \A e \in DOMAIN owed : owed'[e] = owed[e]
  BY <1>1, EmitFacts
<1>3. IF pending THEN waiting' = Append(waiting, n) /\ pubs' = pubs
                 ELSE pubs' = Append(pubs, n) /\ waiting' = waiting
  BY <1>1 DEF Emit
<1>4. \A s \in Seq(Nat) : Range(Append(s, n)) = Range(s) \cup {n}
  BY AppendFacts
<1>5. /\ Range(waiting) \subseteq Range(waiting') /\ Range(waiting') \subseteq Range(waiting) \cup {n}
      /\ Range(pubs) \subseteq Range(pubs') /\ Range(pubs') \subseteq Range(pubs) \cup {n}
      /\ n \in Range(waiting') \cup Range(pubs')
      /\ pending => pubs' = pubs
  BY <1>3, <1>4 DEF ControlInv, TypeInv
<1>6. NoNotificationMissed'
  BY <1>0, <1>2, <1>5 DEF DeliveryInv, NoNotificationMissed
<1>7. \A e \in DOMAIN owed' : owed'[e] \subseteq subs' \cup gone'
  BY <1>0, <1>2 DEF DeliveryInv
<1>8. Range(pubs') \subseteq DOMAIN owed' /\ Range(waiting') \subseteq DOMAIN owed'
  BY <1>2, <1>5 DEF DeliveryInv
<1>9. failures' = 0 /\ pending' => \A e \in Range(pubs') : owed'[e] \cap subs' = {}
  BY <1>0, <1>2, <1>5 DEF DeliveryInv
<1> QED
  BY <1>6, <1>7, <1>8, <1>9 DEF DeliveryInv

\* A reply of Redis is no notification.
LEMMA ReplyDelivery ==
  ASSUME ControlInv, DeliveryInv, RedisSubscribes \/ RedisRefuses \/ RedisUnsubscribes
  PROVE  DeliveryInv'
<1>0. UNCHANGED <<subs, gone, pending, waiting, pubs, owed, inbox>>
  BY DEF RedisSubscribes, RedisRefuses, RedisUnsubscribes
<1>1. failures' = 0 => failures = 0
  BY DEF RedisSubscribes, RedisRefuses, RedisUnsubscribes, ControlInv, TypeInv
<1>2. Range(down) \subseteq Range(down')
  <2>1. down \in Seq(Nat) /\ OK \in Nat /\ Error \in Nat
    BY Replies DEF ControlInv, TypeInv
  <2>2. /\ Range(Append(down, OK)) = Range(down) \cup {OK}
        /\ Range(Append(down, Error)) = Range(down) \cup {Error}
    BY <2>1, AppendFacts
  <2> QED
    BY <2>2 DEF RedisSubscribes, RedisRefuses, RedisUnsubscribes
<1>3. NoNotificationMissed'
  BY <1>0, <1>1, <1>2 DEF DeliveryInv, NoNotificationMissed
<1> QED
  BY <1>0, <1>1, <1>3 DEF DeliveryInv

\* A notification that Redis drops, having no subscription, is owed to nobody.
LEMMA PublishDelivery ==
  ASSUME ControlInv, DeliveryInv, RedisPublishes
  PROVE  DeliveryInv'
<1>0. UNCHANGED <<subs, gone, subscribed, pending, waiting, server, owed, inbox, failures>>
  BY DEF RedisPublishes
<1>1. PICK n \in Nat : n = Head(pubs)
  BY PublishFacts
<1>2. /\ Range(pubs) = Range(pubs') \cup {n}
      /\ server => Range(down') = Range(down) \cup {n}
      /\ ~server => down' = down
  BY <1>1, PublishFacts
<1>3. n \in DOMAIN owed
  BY <1>2 DEF DeliveryInv
<1>4. ASSUME ~server, failures = 0 PROVE owed[n] \cap subs = {}
  <2>1. CASE pending
    BY <2>1, <1>2, <1>4 DEF DeliveryInv
  <2>2. CASE ~pending
    BY <2>2, <1>4 DEF ControlInv, NoteInv
  <2> QED
    BY <2>1, <2>2
<1>5. NoNotificationMissed'
  <2>1. CASE server
    BY <2>1, <1>0, <1>2 DEF DeliveryInv, NoNotificationMissed
  <2>2. CASE ~server
    BY <2>2, <1>0, <1>2, <1>4 DEF DeliveryInv, NoNotificationMissed
  <2> QED
    BY <2>1, <2>2
<1> QED
  BY <1>0, <1>2, <1>5 DEF DeliveryInv

\* The notifications that waited are published.
LEMMA FulfilledDelivery ==
  ASSUME ControlInv, DeliveryInv, SubscriptionFulfilled \/ SubscriptionRejected
  PROVE  DeliveryInv'
<1>0. /\ UNCHANGED <<subs, gone, owed, inbox, failures>>
      /\ down # << >> /\ down' = Tail(down) /\ Head(down) \in {OK, Error}
      /\ Head(down) = Error => failures # 0
      /\ pending' = FALSE /\ waiting' = << >> /\ pubs' = pubs \o waiting
  BY ReplyFacts DEF SubscriptionFulfilled, SubscriptionRejected
<1>1. Range(pubs') = Range(pubs) \cup Range(waiting) /\ Range(waiting') = {}
  BY <1>0, WaitersPublish, EmptyFacts
<1>2. Range(down) = Range(down') \cup {Head(down)}
  BY <1>0, ReplyFacts
<1>3. Head(down) = OK => Head(down) \notin DOMAIN owed
  BY LenProperties DEF OK, ControlInv, TypeInv
<1>4. NoNotificationMissed'
  BY <1>0, <1>1, <1>2, <1>3 DEF DeliveryInv, NoNotificationMissed
<1> QED
  BY <1>0, <1>1, <1>4 DEF DeliveryInv

\* When the process ends, nobody is connected.
LEMMA UnhandledDelivery ==
  ASSUME ControlInv, DeliveryInv, UnhandledRejection
  PROVE  DeliveryInv'
<1>0. /\ subs' = {} /\ gone' = gone \cup subs /\ pending' = FALSE /\ pubs' = << >>
      /\ UNCHANGED <<waiting, owed, inbox, failures>>
  BY DEF UnhandledRejection
<1>1. NoNotificationMissed'
  BY <1>0 DEF NoNotificationMissed
<1> QED
  BY <1>0, <1>1, EmptyFacts DEF DeliveryInv

\* Every connected client receives the message.
LEMMA MessageDelivery ==
  ASSUME ControlInv, DeliveryInv, HandleRedisMessage
  PROVE  DeliveryInv'
<1>0. UNCHANGED <<subs, gone, pending, waiting, pubs, owed, failures>>
  BY DEF HandleRedisMessage
<1>1. PICK n : n = Head(down)
  OBVIOUS
<1>2. /\ Range(down) = Range(down') \cup {n}
      /\ \A c \in Clients : /\ Range(inbox[c]) \subseteq Range(inbox'[c])
                            /\ c \in subs => n \in Range(inbox'[c])
  <2>1. \A c \in Clients :
           /\ c \notin subs => inbox'[c] = inbox[c]
           /\ c \in subs => Range(inbox'[c]) = Range(inbox[c]) \cup {n}
    BY <1>1, MessageFacts
  <2> QED
    BY <2>1, <1>1, MessageFacts
<1>3. subs \subseteq Clients
  BY DEF ControlInv, TypeInv
<1>4. NoNotificationMissed'
  BY <1>0, <1>2, <1>3 DEF DeliveryInv, NoNotificationMissed
<1> QED
  BY <1>0, <1>4 DEF DeliveryInv

\* Every step keeps DeliveryInv.
LEMMA NextDelivery == ControlInv /\ DeliveryInv /\ [Next]_vars => DeliveryInv'
<1> SUFFICES ASSUME ControlInv, DeliveryInv, [Next]_vars PROVE DeliveryInv'
  OBVIOUS
<1>1. CASE UNCHANGED vars
  BY <1>1 DEF vars, DeliveryInv, NoNotificationMissed
<1> QED
  BY <1>1, SubscribeDelivery, DisconnectDelivery, EmitDelivery, ReplyDelivery,
     PublishDelivery, FulfilledDelivery, UnhandledDelivery, MessageDelivery DEF Next

\* DeliveryInv holds in every reachable state.
LEMMA SpecDelivery == Spec => []DeliveryInv
BY InitDelivery, NextDelivery, SpecControl, PTL DEF Spec

\* As long as Redis refuses no subscription, a client that was connected when a
\* notification was emitted has it as soon as it is in no queue any more.
THEOREM DeliveryCorrect == Spec => []NoNotificationMissed
<1>1. DeliveryInv => NoNotificationMissed
  BY DEF DeliveryInv
<1> QED
  BY <1>1, SpecDelivery, PTL

-----------------------------------------------------------------------------
(***************************************************************************)
(* Notifications stay in order: SortedInv is kept, given ControlInv.       *)
(***************************************************************************)

\* Empty queues are sorted.
LEMMA InitSorted == Init => SortedInv
<1> SUFFICES ASSUME Init PROVE SortedInv
  OBVIOUS
<1>1. /\ waiting = << >> /\ pubs = << >> /\ down = << >>
      /\ \A c \in Clients : inbox[c] = << >>
  BY DEF Init
<1> QED
  BY <1>1, EmptyFacts DEF SortedInv, Before, Upto

\* A step that leaves the notifications in the queues alone.
LEMMA QueuesAlone ==
  ASSUME SortedInv, Sorted(down'), Range(down') \cap Msg \subseteq Range(down) \cap Msg,
         UNCHANGED <<waiting, pubs, owed, inbox>>
  PROVE  SortedInv'
<1>1. Sorted(down)'
  BY DEF Sorted, Msg
<1>2. \A s : Before(down, s) => Before(down', s)
  BY DEF Before
<1>3. \A s : Before(s, down) => Before(s, down')
  BY DEF Before
<1>4. \A n : Upto(down, n) => Upto(down', n)
  BY DEF Upto
<1> QED
  BY <1>1, <1>2, <1>3, <1>4 DEF SortedInv, Sorted, Before, Upto, Msg

\* A reply of Redis is no message.
LEMMA ReplySorted ==
  ASSUME ControlInv, SortedInv, RedisSubscribes \/ RedisRefuses \/ RedisUnsubscribes
  PROVE  SortedInv'
<1>0. UNCHANGED <<waiting, pubs, owed, inbox>>
  BY DEF RedisSubscribes, RedisRefuses, RedisUnsubscribes
<1>1. down \in Seq(Nat) /\ OK \in Nat /\ Error \in Nat /\ OK \notin Msg /\ Error \notin Msg
  BY Replies DEF ControlInv, TypeInv
<1>2. Sorted(down)
  BY DEF SortedInv
<1>3. \A x \in Nat : x \notin Msg => /\ Sorted(Append(down, x))
                                     /\ Range(Append(down, x)) = Range(down) \cup {x}
  BY <1>1, <1>2, SortedAppend, AppendFacts
<1>4. down' = down \/ down' = Append(down, OK) \/ down' = Append(down, Error)
  BY DEF RedisSubscribes, RedisRefuses, RedisUnsubscribes
<1>5. Sorted(down') /\ Range(down') \cap Msg \subseteq Range(down) \cap Msg
  BY <1>1, <1>2, <1>3, <1>4
<1> QED
  BY <1>0, <1>5, QueuesAlone

\* A new notification has the highest number, and no earlier one waits unless
\* it waits too.
LEMMA EmitSorted ==
  ASSUME ControlInv, SortedInv, Emit
  PROVE  SortedInv'
<1>0. UNCHANGED <<down, inbox>>
  BY DEF Emit
<1>1. PICK n \in Nat : n = Len(owed) + 1
  BY EmitFacts
<1>2. Len(owed) \in Nat /\ n \in Msg /\ Len(owed') = n
  BY <1>1, EmitFacts
<1>3. IF pending THEN waiting' = Append(waiting, n) /\ pubs' = pubs
                 ELSE pubs' = Append(pubs, n) /\ waiting' = waiting
  BY <1>1 DEF Emit
<1>4. Msg \subseteq Nat
  BY DEF Msg
<1>5. \A s : Upto(s, Len(owed)) => /\ Upto(s, n)
                                   /\ \A y \in Range(s) \cap Msg : y < n
  <2>1. \A y \in Msg : y <= Len(owed) => y <= n /\ y < n
    BY <1>1, <1>2, <1>4
  <2> QED
    BY <2>1 DEF Upto
<1>6. \A s \in Seq(Nat) : Sorted(s) /\ Upto(s, Len(owed)) =>
                            /\ Sorted(Append(s, n))
                            /\ Range(Append(s, n)) = Range(s) \cup {n}
                            /\ Upto(Append(s, n), n)
  <2> TAKE s \in Seq(Nat)
  <2> HAVE Sorted(s) /\ Upto(s, Len(owed))
  <2>1. Range(Append(s, n)) = Range(s) \cup {n}
    BY AppendFacts
  <2>2. Sorted(Append(s, n))
    BY <1>5, SortedAppend
  <2>3. Upto(Append(s, n), n)
    BY <1>5, <2>1 DEF Upto
  <2> QED
    BY <2>1, <2>2, <2>3
<1>7. /\ waiting \in Seq(Nat) /\ pubs \in Seq(Nat) /\ pending \in BOOLEAN
      /\ ~pending => waiting = << >> /\ Range(waiting) = {}
  BY EmptyFacts DEF ControlInv, TypeInv, NoteInv
<1>8. /\ Sorted(waiting') /\ Sorted(pubs') /\ Upto(waiting', n) /\ Upto(pubs', n)
      /\ Range(waiting') \subseteq Range(waiting) \cup {n}
      /\ Range(pubs') \subseteq Range(pubs) \cup {n}
      /\ Range(waiting') = {} \/ pubs' = pubs
  BY <1>3, <1>5, <1>6, <1>7 DEF SortedInv
<1>9. \A s : Upto(s, Len(owed)) =>
               /\ Before(s, waiting) => Before(s, waiting')
               /\ Before(s, pubs) => Before(s, pubs')
  BY <1>5, <1>8 DEF Before
<1>10. Before(pubs', waiting')
  <2>1. CASE Range(waiting') = {}
    BY <2>1 DEF Before
  <2>2. CASE pubs' = pubs
    BY <2>2, <1>9 DEF SortedInv
  <2> QED
    BY <2>1, <2>2, <1>8
<1>11. /\ Sorted(waiting') /\ Sorted(pubs') /\ Sorted(down')
       /\ Before(pubs', waiting') /\ Before(down', waiting') /\ Before(down', pubs')
       /\ Upto(waiting', Len(owed')) /\ Upto(pubs', Len(owed')) /\ Upto(down', Len(owed'))
  BY <1>0, <1>2, <1>5, <1>8, <1>9, <1>10 DEF SortedInv
<1>12. \A c \in Clients :
         /\ Sorted(inbox'[c]) /\ Range(inbox'[c]) \subseteq Msg
         /\ Upto(inbox'[c], Len(owed'))
         /\ Before(inbox'[c], down') /\ Before(inbox'[c], pubs')
         /\ Before(inbox'[c], waiting')
  BY <1>0, <1>2, <1>5, <1>9 DEF SortedInv
<1> QED
  BY <1>11, <1>12 DEF SortedInv, Sorted, Before, Upto, Msg

\* The first of the published goes behind the messages on the way.
LEMMA PublishSorted ==
  ASSUME ControlInv, SortedInv, RedisPublishes
  PROVE  SortedInv'
<1>0. UNCHANGED <<waiting, owed, inbox, server>>
  BY DEF RedisPublishes
<1>1. PICK n \in Nat : n = Head(pubs)
  BY PublishFacts
<1>2. /\ Range(pubs) = Range(pubs') \cup {n} /\ n \in Msg
      /\ server => down' = Append(down, n) /\ Range(down') = Range(down) \cup {n}
      /\ ~server => down' = down
  BY <1>1, PublishFacts
<1>3. Sorted(pubs') /\ \A y \in Range(pubs') \cap Msg : n < y
  <2>1. pubs \in Seq(Nat) /\ pubs # << >> /\ Sorted(pubs) /\ pubs' = Tail(pubs)
    BY DEF ControlInv, TypeInv, RedisPublishes, SortedInv
  <2> QED
    BY <2>1, <1>1, <1>2, SortedTail
<1>4. Sorted(down')
  <2>1. down \in Seq(Nat) /\ Sorted(down)
    BY DEF ControlInv, TypeInv, SortedInv
  <2>2. \A y \in Range(down) \cap Msg : y < n
    BY <1>2 DEF SortedInv, Before
  <2>3. Sorted(Append(down, n))
    BY <2>1, <2>2, SortedAppend
  <2> QED
    BY <2>1, <2>3, <1>2 DEF ControlInv, TypeInv
<1>5. Range(down') \subseteq Range(down) \cup {n}
  BY <1>2 DEF ControlInv, TypeInv
<1>6. Before(down', waiting) /\ Before(down', pubs') /\ Upto(down', Len(owed))
  BY <1>2, <1>3, <1>5 DEF SortedInv, Before, Upto
<1>7. Before(pubs', waiting) /\ Upto(pubs', Len(owed))
  BY <1>2 DEF SortedInv, Before, Upto
<1>8. \A c \in Clients : Before(inbox[c], down') /\ Before(inbox[c], pubs')
  BY <1>2, <1>5 DEF SortedInv, Before
<1>9. /\ Sorted(waiting') /\ Sorted(pubs') /\ Sorted(down')
      /\ Before(pubs', waiting') /\ Before(down', waiting') /\ Before(down', pubs')
      /\ Upto(waiting', Len(owed')) /\ Upto(pubs', Len(owed')) /\ Upto(down', Len(owed'))
  BY <1>0, <1>3, <1>4, <1>6, <1>7 DEF SortedInv
<1>10. \A c \in Clients :
         /\ Sorted(inbox'[c]) /\ Range(inbox'[c]) \subseteq Msg
         /\ Upto(inbox'[c], Len(owed'))
         /\ Before(inbox'[c], down') /\ Before(inbox'[c], pubs')
         /\ Before(inbox'[c], waiting')
  BY <1>0, <1>8 DEF SortedInv
<1> QED
  BY <1>9, <1>10 DEF SortedInv, Sorted, Before, Upto, Msg

\* The notifications that waited go behind the published.
LEMMA FulfilledSorted ==
  ASSUME ControlInv, SortedInv, SubscriptionFulfilled \/ SubscriptionRejected
  PROVE  SortedInv'
<1>0. /\ UNCHANGED <<owed, inbox>>
      /\ down # << >> /\ down' = Tail(down)
      /\ waiting' = << >> /\ pubs' = pubs \o waiting
  BY DEF SubscriptionFulfilled, SubscriptionRejected
<1>1. Range(pubs') = Range(pubs) \cup Range(waiting) /\ Range(waiting') = {} /\ Sorted(waiting')
  BY <1>0, WaitersPublish, EmptyFacts
<1>2. Range(down') \subseteq Range(down)
  BY <1>0, ReplyFacts
<1>3. Sorted(down')
  BY <1>0, SortedTail DEF ControlInv, TypeInv, SortedInv
<1>4. Sorted(pubs')
  BY <1>0, ConcatFacts DEF ControlInv, TypeInv, SortedInv
<1>5. \A s : Before(s, pubs) /\ Before(s, waiting) => Before(s, pubs')
  BY <1>1 DEF Before
<1>6. \A s : Before(s, waiting')
  BY <1>1 DEF Before
<1>7. Before(down', pubs') /\ Upto(down', Len(owed))
  BY <1>1, <1>2 DEF SortedInv, Before, Upto
<1>8. Upto(pubs', Len(owed)) /\ Upto(waiting', Len(owed))
  BY <1>1 DEF SortedInv, Upto
<1>9. \A c \in Clients : Before(inbox[c], down')
  BY <1>2 DEF SortedInv, Before
<1>10. /\ Sorted(waiting') /\ Sorted(pubs') /\ Sorted(down')
       /\ Before(pubs', waiting') /\ Before(down', waiting') /\ Before(down', pubs')
       /\ Upto(waiting', Len(owed')) /\ Upto(pubs', Len(owed')) /\ Upto(down', Len(owed'))
  BY <1>0, <1>1, <1>3, <1>4, <1>6, <1>7, <1>8
<1>11. \A c \in Clients :
         /\ Sorted(inbox'[c]) /\ Range(inbox'[c]) \subseteq Msg
         /\ Upto(inbox'[c], Len(owed'))
         /\ Before(inbox'[c], down') /\ Before(inbox'[c], pubs')
         /\ Before(inbox'[c], waiting')
  BY <1>0, <1>5, <1>6, <1>9 DEF SortedInv
<1> QED
  BY <1>10, <1>11 DEF SortedInv, Sorted, Before, Upto, Msg

\* Empty queues are sorted again.
LEMMA UnhandledSorted ==
  ASSUME ControlInv, SortedInv, UnhandledRejection
  PROVE  SortedInv'
<1>0. /\ down' = << >> /\ pubs' = << >> /\ waiting' = << >>
      /\ UNCHANGED <<owed, inbox>>
  BY DEF UnhandledRejection
<1>1. \A s, n : Before(s, << >>) /\ Before(<< >>, s) /\ Upto(<< >>, n)
  BY EmptyFacts DEF Before, Upto
<1>2. /\ Sorted(waiting') /\ Sorted(pubs') /\ Sorted(down')
      /\ Before(pubs', waiting') /\ Before(down', waiting') /\ Before(down', pubs')
      /\ Upto(waiting', Len(owed')) /\ Upto(pubs', Len(owed')) /\ Upto(down', Len(owed'))
  BY <1>0, <1>1, EmptyFacts
<1>3. \A c \in Clients :
         /\ Sorted(inbox'[c]) /\ Range(inbox'[c]) \subseteq Msg
         /\ Upto(inbox'[c], Len(owed'))
         /\ Before(inbox'[c], down') /\ Before(inbox'[c], pubs')
         /\ Before(inbox'[c], waiting')
  BY <1>0, <1>1 DEF SortedInv
<1> QED
  BY <1>2, <1>3 DEF SortedInv, Sorted, Before, Upto, Msg

\* The first message goes behind what the client has.
LEMMA MessageSorted ==
  ASSUME ControlInv, SortedInv, HandleRedisMessage
  PROVE  SortedInv'
<1>0. UNCHANGED <<waiting, pubs, owed>> /\ down # << >> /\ down' = Tail(down)
  BY DEF HandleRedisMessage
<1>1. PICK n \in Nat : n = Head(down)
  BY MessageFacts
<1>2. /\ Range(down) = Range(down') \cup {n} /\ n \in Msg
      /\ \A c \in Clients :
           \/ inbox'[c] = inbox[c]
           \/ inbox'[c] = Append(inbox[c], n) /\ Range(inbox'[c]) = Range(inbox[c]) \cup {n}
  BY <1>1, MessageFacts
<1>3. Sorted(down') /\ \A y \in Range(down') \cap Msg : n < y
  <2>1. down \in Seq(Nat) /\ Sorted(down)
    BY DEF ControlInv, TypeInv, SortedInv
  <2> QED
    BY <2>1, <1>0, <1>1, <1>2, SortedTail
<1>4. Before(down', waiting) /\ Before(down', pubs) /\ Upto(down', Len(owed))
  BY <1>2 DEF SortedInv, Before, Upto
<1>5. ASSUME NEW c \in Clients
      PROVE  /\ Sorted(inbox'[c]) /\ Range(inbox'[c]) \subseteq Msg
             /\ Upto(inbox'[c], Len(owed))
             /\ Before(inbox'[c], down') /\ Before(inbox'[c], pubs)
             /\ Before(inbox'[c], waiting)
  <2>1. /\ Sorted(inbox[c]) /\ Range(inbox[c]) \subseteq Msg
        /\ Upto(inbox[c], Len(owed))
        /\ Before(inbox[c], down) /\ Before(inbox[c], pubs)
        /\ Before(inbox[c], waiting)
    BY DEF SortedInv
  <2>2. Range(inbox'[c]) \subseteq Range(inbox[c]) \cup {n}
    BY <1>2
  <2>3. /\ Before(down, pubs) /\ Before(down, waiting) /\ Upto(down, Len(owed))
    BY DEF SortedInv
  <2>4. Before(inbox'[c], down')
    BY <2>1, <2>2, <1>2, <1>3 DEF Before
  <2>5. Before(inbox'[c], pubs) /\ Before(inbox'[c], waiting) /\ Upto(inbox'[c], Len(owed))
    BY <2>1, <2>2, <2>3, <1>2 DEF Before, Upto
  <2>6. Sorted(inbox'[c])
    <3>1. inbox[c] \in Seq(Nat)
      BY DEF ControlInv, TypeInv
    <3>2. \A y \in Range(inbox[c]) \cap Msg : y < n
      BY <2>1, <1>2 DEF Before
    <3>3. Sorted(Append(inbox[c], n))
      BY <2>1, <3>1, <3>2, SortedAppend
    <3> QED
      BY <2>1, <3>3, <1>2
  <2> QED
    BY <2>1, <2>2, <2>4, <2>5, <2>6, <1>2
<1>6. /\ Sorted(waiting') /\ Sorted(pubs') /\ Sorted(down')
      /\ Before(pubs', waiting') /\ Before(down', waiting') /\ Before(down', pubs')
      /\ Upto(waiting', Len(owed')) /\ Upto(pubs', Len(owed')) /\ Upto(down', Len(owed'))
  BY <1>0, <1>3, <1>4 DEF SortedInv
<1>7. \A c \in Clients :
         /\ Sorted(inbox'[c]) /\ Range(inbox'[c]) \subseteq Msg
         /\ Upto(inbox'[c], Len(owed'))
         /\ Before(inbox'[c], down') /\ Before(inbox'[c], pubs')
         /\ Before(inbox'[c], waiting')
  BY <1>0, <1>5
<1> QED
  BY <1>6, <1>7 DEF SortedInv, Sorted, Before, Upto, Msg

\* Every step keeps SortedInv.
LEMMA NextSorted == ControlInv /\ SortedInv /\ [Next]_vars => SortedInv'
<1> SUFFICES ASSUME ControlInv, SortedInv, [Next]_vars PROVE SortedInv'
  OBVIOUS
<1>1. Sorted(down)
  BY DEF SortedInv
<1>2. CASE UNCHANGED vars
  BY <1>1, <1>2, QueuesAlone DEF vars
<1>3. ASSUME NEW c \in Clients, Subscribe(c) \/ Disconnect(c) PROVE SortedInv'
  BY <1>1, <1>3, QueuesAlone DEF Subscribe, Disconnect
<1> QED
  BY <1>2, <1>3, EmitSorted, ReplySorted, PublishSorted, FulfilledSorted,
     UnhandledSorted, MessageSorted DEF Next

\* SortedInv holds in every reachable state.
LEMMA SpecSorted == Spec => []SortedInv
BY InitSorted, NextSorted, SpecControl, PTL DEF Spec

\* Every client receives notifications at most once and in the order of the
\* emits, whichever of them waited for a subscription.
THEOREM InOrderCorrect == Spec => []NotificationsInOrder
<1>1. ControlInv /\ SortedInv => NotificationsInOrder
  <2> SUFFICES ASSUME SortedInv, NEW c \in Clients,
                      NEW i \in DOMAIN inbox[c], NEW j \in DOMAIN inbox[c], i < j
               PROVE  inbox[c][i] < inbox[c][j]
    BY DEF NotificationsInOrder
  <2>1. inbox[c][i] \in Msg /\ inbox[c][j] \in Msg
    BY DEF SortedInv, Range
  <2> QED
    BY <2>1 DEF SortedInv, Sorted
<1> QED
  BY <1>1, SpecControl, SpecSorted, PTL
=============================================================================
