----------------------------- MODULE OrderProofs -----------------------------
(***************************************************************************)
(* InOrderOnce of Chat: a connected device receives what one instance      *)
(* emits in the order of emission and once.                                *)
(***************************************************************************)
EXTENDS ChatProofs

-----------------------------------------------------------------------------
\* The inductive invariant.

\* Event e was emitted before event f, if by the same instance.
Follows(e, f, log) == log[e.uid].home = log[f.uid].home => e.uid < f.uid
\* They are the two events of a message to oneself.
Twin(e, f, log) == e.uid = f.uid /\ log[e.uid].job.by = log[e.uid].job.to
\* Whatever instance i still has on its channel comes after event e.
Sent(e, i, log, ch) == log[e.uid].home = i => \A k \in DOMAIN ch[i] : e.uid < ch[i][k]

ChannelOrder ==
    \A i \in Instances : \A k, l \in DOMAIN channel[i] :
        /\ jobLog[channel[i][k]].home = i
        /\ k < l => channel[i][k] < channel[i][l]
SentOrder ==
    \A i \in Instances :
        /\ \A x \in Instances : \A k \in DOMAIN inbox[x] : Sent(inbox[x][k], i, jobLog, channel)
        /\ \A d \in Devices : \A k \in DOMAIN got[d] : Sent(got[d][k], i, jobLog, channel)
InboxOrder ==
    \A i \in Instances : \A k, l \in DOMAIN inbox[i] :
        k < l /\ inbox[i][k].user = inbox[i][l].user =>
            \/ Follows(inbox[i][k], inbox[i][l], jobLog)
            \/ Twin(inbox[i][k], inbox[i][l], jobLog) /\ l = k + 1
GotOrder ==
    \A d \in Devices : \A k, l \in DOMAIN got[d] :
        k < l => \/ Follows(got[d][k], got[d][l], jobLog)
                 \/ Twin(got[d][k], got[d][l], jobLog) /\ l = k + 1
\* What a device has received comes before what its instance has for its user.
MeetOrder ==
    \A d \in Devices, i \in Instances : at[d] = i =>
        \A k \in DOMAIN got[d], l \in DOMAIN inbox[i] : inbox[i][l].user = UserOf[d] =>
            \/ Follows(got[d][k], inbox[i][l], jobLog)
            \/ Twin(got[d][k], inbox[i][l], jobLog) /\ k = Len(got[d]) /\ l = 1
OrderInv == ChannelOrder /\ SentOrder /\ InboxOrder /\ GotOrder /\ MeetOrder

-----------------------------------------------------------------------------
\* What the steps have in common.

\* What is known of the variables that the invariant speaks of.
Shape ==
    /\ DOMAIN jobLog = 1 .. Len(jobLog) /\ Len(jobLog) \in Nat
    /\ \A i \in Instances : /\ channel[i] \in Seq(Nat) /\ Len(channel[i]) \in Nat
                            /\ DOMAIN channel[i] = 1 .. Len(channel[i])
                            /\ \A k \in DOMAIN channel[i] : channel[i][k] \in DOMAIN jobLog
    /\ \A i \in Instances : /\ inbox[i] \in Seq(EventType) /\ Len(inbox[i]) \in Nat
                            /\ DOMAIN inbox[i] = 1 .. Len(inbox[i])
                            /\ \A k \in DOMAIN inbox[i] : inbox[i][k].uid \in DOMAIN jobLog
    /\ \A d \in Devices : /\ got[d] \in Seq(EventType) /\ Len(got[d]) \in Nat
                          /\ DOMAIN got[d] = 1 .. Len(got[d])
                          /\ \A k \in DOMAIN got[d] : got[d][k].uid \in DOMAIN jobLog
    /\ channel \in [Instances -> Seq(Nat)] /\ inbox \in [Instances -> Seq(EventType)]
    /\ got \in [Devices -> Seq(EventType)]

\* It follows from the invariant of ChatProofs.
LEMMA ShapeOf == ASSUME IInv PROVE Shape
<1>1. TypeInv /\ EventInv
  BY DEF IInv
<1>2. DOMAIN jobLog = 1 .. Len(jobLog) /\ Len(jobLog) \in Nat
  BY <1>1, LenProperties DEF TypeInv
<1>3. ASSUME NEW i \in Instances
      PROVE  /\ channel[i] \in Seq(Nat) /\ Len(channel[i]) \in Nat
             /\ DOMAIN channel[i] = 1 .. Len(channel[i])
             /\ \A k \in DOMAIN channel[i] : channel[i][k] \in DOMAIN jobLog
             /\ inbox[i] \in Seq(EventType) /\ Len(inbox[i]) \in Nat
             /\ DOMAIN inbox[i] = 1 .. Len(inbox[i])
             /\ \A k \in DOMAIN inbox[i] : inbox[i][k].uid \in DOMAIN jobLog
  <2>1. channel[i] \in Seq(Nat) /\ inbox[i] \in Seq(EventType)
    BY <1>1 DEF TypeInv
  <2> QED
    BY <1>1, <2>1, LenProperties DEF EventInv, GoodEvent
<1>4. ASSUME NEW d \in Devices
      PROVE  /\ got[d] \in Seq(EventType) /\ Len(got[d]) \in Nat
             /\ DOMAIN got[d] = 1 .. Len(got[d])
             /\ \A k \in DOMAIN got[d] : got[d][k].uid \in DOMAIN jobLog
  <2>1. got[d] \in Seq(EventType)
    BY <1>1 DEF TypeInv
  <2> QED
    BY <1>1, <2>1, LenProperties DEF EventInv, GoodEvent
<1>5. channel \in [Instances -> Seq(Nat)] /\ inbox \in [Instances -> Seq(EventType)]
      /\ got \in [Devices -> Seq(EventType)]
  BY <1>1 DEF TypeInv
<1> QED
  BY <1>2, <1>3, <1>4, <1>5 DEF Shape

\* The log keeps who emitted a job and for whom.
LEMMA OrderStays ==
  ASSUME LogGrows, NEW e, NEW f, e.uid \in DOMAIN jobLog, f.uid \in DOMAIN jobLog
  PROVE  /\ Follows(e, f, jobLog') <=> Follows(e, f, jobLog)
         /\ Twin(e, f, jobLog') <=> Twin(e, f, jobLog)
BY DEF LogGrows, Follows, Twin

\* What is left alone keeps its order.
LEMMA OldOrder ==
  ASSUME IInv, OrderInv, LogGrows
  PROVE  /\ \A i \in Instances : \A k, l \in DOMAIN inbox[i] :
               k < l /\ inbox[i][k].user = inbox[i][l].user =>
                  \/ Follows(inbox[i][k], inbox[i][l], jobLog')
                  \/ Twin(inbox[i][k], inbox[i][l], jobLog') /\ l = k + 1
         /\ \A d \in Devices : \A k, l \in DOMAIN got[d] :
               k < l => \/ Follows(got[d][k], got[d][l], jobLog')
                        \/ Twin(got[d][k], got[d][l], jobLog') /\ l = k + 1
         /\ \A d \in Devices, i \in Instances : at[d] = i =>
               \A k \in DOMAIN got[d], l \in DOMAIN inbox[i] : inbox[i][l].user = UserOf[d] =>
                  \/ Follows(got[d][k], inbox[i][l], jobLog')
                  \/ Twin(got[d][k], inbox[i][l], jobLog') /\ k = Len(got[d]) /\ l = 1
<1>1. Shape
  BY ShapeOf
<1>2. ASSUME NEW i \in Instances, NEW k \in DOMAIN inbox[i], NEW l \in DOMAIN inbox[i],
             k < l, inbox[i][k].user = inbox[i][l].user
      PROVE  \/ Follows(inbox[i][k], inbox[i][l], jobLog')
             \/ Twin(inbox[i][k], inbox[i][l], jobLog') /\ l = k + 1
  <2>1. inbox[i][k].uid \in DOMAIN jobLog /\ inbox[i][l].uid \in DOMAIN jobLog
    BY <1>1 DEF Shape
  <2>2. \/ Follows(inbox[i][k], inbox[i][l], jobLog)
        \/ Twin(inbox[i][k], inbox[i][l], jobLog) /\ l = k + 1
    BY <1>2 DEF OrderInv, InboxOrder
  <2> QED
    BY <2>1, <2>2, OrderStays
<1>3. ASSUME NEW d \in Devices, NEW k \in DOMAIN got[d], NEW l \in DOMAIN got[d], k < l
      PROVE  \/ Follows(got[d][k], got[d][l], jobLog')
             \/ Twin(got[d][k], got[d][l], jobLog') /\ l = k + 1
  <2>1. got[d][k].uid \in DOMAIN jobLog /\ got[d][l].uid \in DOMAIN jobLog
    BY <1>1 DEF Shape
  <2>2. \/ Follows(got[d][k], got[d][l], jobLog)
        \/ Twin(got[d][k], got[d][l], jobLog) /\ l = k + 1
    BY <1>3 DEF OrderInv, GotOrder
  <2> QED
    BY <2>1, <2>2, OrderStays
<1>4. ASSUME NEW d \in Devices, NEW i \in Instances, at[d] = i,
             NEW k \in DOMAIN got[d], NEW l \in DOMAIN inbox[i], inbox[i][l].user = UserOf[d]
      PROVE  \/ Follows(got[d][k], inbox[i][l], jobLog')
             \/ Twin(got[d][k], inbox[i][l], jobLog') /\ k = Len(got[d]) /\ l = 1
  <2>1. got[d][k].uid \in DOMAIN jobLog /\ inbox[i][l].uid \in DOMAIN jobLog
    BY <1>1 DEF Shape
  <2>2. \/ Follows(got[d][k], inbox[i][l], jobLog)
        \/ Twin(got[d][k], inbox[i][l], jobLog) /\ k = Len(got[d]) /\ l = 1
    BY <1>4 DEF OrderInv, MeetOrder
  <2> QED
    BY <2>1, <2>2, OrderStays
<1> QED
  BY <1>2, <1>3, <1>4

-----------------------------------------------------------------------------
\* The steps.

\* A job is emitted; a device may come, with nothing received, or go.
LEMMA EmitOrder ==
  ASSUME IInv, OrderInv, LogGrows, NEW i \in Instances, NEW j \in JobType, ExecuteJob(i, j),
         inbox' = inbox,
         \A d \in Devices : \/ got'[d] = got[d] /\ (at'[d] = at[d] \/ at'[d] = Offline)
                            \/ got'[d] = <<>>
  PROVE  OrderInv'
<1>1. Shape /\ TypeInv
  BY ShapeOf DEF IInv
<1> DEFINE n == Len(jobLog) + 1
<1>2. /\ \A u \in DOMAIN jobLog : u \in Nat /\ u < n
      /\ jobLog'[n].home = i /\ n \in Nat
      /\ channel'[i] = Append(channel[i], n)
      /\ \A x \in Instances \ {i} : channel'[x] = channel[x]
  BY <1>1, Emits DEF Shape
<1>3. /\ DOMAIN channel'[i] = 1 .. Len(channel[i]) + 1
      /\ \A k \in 1 .. Len(channel[i]) : channel'[i][k] = channel[i][k]
      /\ channel'[i][Len(channel[i]) + 1] = n
  <2> HIDE DEF n
  <2>1. channel[i] \in Seq(Nat)
    BY <1>1 DEF Shape
  <2> QED
    BY <1>2, <2>1, Appended
<1> HIDE DEF n
<1>4. \A u \in DOMAIN jobLog : jobLog'[u].home = jobLog[u].home
  BY DEF LogGrows
<1>5. \A k \in DOMAIN channel'[i] : \/ k \in DOMAIN channel[i] /\ channel'[i][k] = channel[i][k]
                                    \/ k = Len(channel[i]) + 1 /\ channel'[i][k] = n
  BY <1>1, <1>3 DEF Shape
<1>6. ChannelOrder'
  <2>1. ASSUME NEW x \in Instances, NEW k \in DOMAIN channel'[x], NEW l \in DOMAIN channel'[x]
        PROVE  /\ jobLog'[channel'[x][k]].home = x
               /\ k < l => channel'[x][k] < channel'[x][l]
    <3>1. CASE x # i
      <4>1. channel'[x] = channel[x]
        BY <1>2, <3>1
      <4>2. /\ channel[x][k] \in DOMAIN jobLog /\ jobLog[channel[x][k]].home = x
            /\ k < l => channel[x][k] < channel[x][l]
        BY <1>1, <2>1, <4>1 DEF OrderInv, ChannelOrder, Shape
      <4> QED
        BY <1>4, <4>1, <4>2
    <3>2. CASE x = i
      <4>1. \A m \in DOMAIN channel[i] : /\ channel[i][m] \in DOMAIN jobLog
                                         /\ m \in Nat /\ m < Len(channel[i]) + 1
        BY <1>1 DEF Shape
      <4>2. jobLog'[channel'[i][k]].home = i
        BY <1>2, <1>4, <1>5, <2>1, <3>2, <4>1 DEF OrderInv, ChannelOrder
      <4>3. ASSUME k < l PROVE channel'[i][k] < channel'[i][l]
        <5>1. k \in DOMAIN channel[i] /\ channel'[i][k] = channel[i][k]
          <6>1. Len(channel[i]) \in Nat
            BY <1>1 DEF Shape
          <6>2. k \in 1 .. Len(channel[i]) + 1 /\ l \in 1 .. Len(channel[i]) + 1
            BY <1>3, <2>1, <3>2
          <6>3. k # Len(channel[i]) + 1
            BY <4>3, <6>1, <6>2
          <6> QED
            BY <1>5, <2>1, <3>2, <6>3
        <5>2. CASE l \in DOMAIN channel[i] /\ channel'[i][l] = channel[i][l]
          BY <4>3, <5>1, <5>2 DEF OrderInv, ChannelOrder
        <5>3. CASE channel'[i][l] = n
          BY <1>2, <4>1, <5>1, <5>3
        <5> QED
          BY <1>5, <2>1, <3>2, <5>2, <5>3
      <4> QED
        BY <3>2, <4>2, <4>3
    <3> QED
      BY <3>1, <3>2
  <2> QED
    BY <2>1 DEF ChannelOrder
<1>7. ASSUME NEW e, e.uid \in DOMAIN jobLog, NEW x \in Instances, Sent(e, x, jobLog, channel)
      PROVE  Sent(e, x, jobLog', channel')
  BY <1>2, <1>4, <1>5, <1>7 DEF Sent
<1>8. DOMAIN <<>> = {}
  OBVIOUS
<1>9. SentOrder'
  <2>1. ASSUME NEW x \in Instances, NEW y \in Instances, NEW k \in DOMAIN inbox[y]
        PROVE  Sent(inbox[y][k], x, jobLog', channel')
    BY <1>1, <1>7 DEF OrderInv, SentOrder, Shape
  <2>2. ASSUME NEW x \in Instances, NEW d \in Devices, NEW k \in DOMAIN got'[d]
        PROVE  Sent(got'[d][k], x, jobLog', channel')
    <3>1. got'[d] = got[d]
      BY <1>8, <2>2
    <3> QED
      BY <1>1, <1>7, <2>2, <3>1 DEF OrderInv, SentOrder, Shape
  <2> QED
    BY <2>1, <2>2 DEF SentOrder
<1>10. InboxOrder' /\ GotOrder' /\ MeetOrder'
  <2>1. InboxOrder'
    BY OldOrder DEF InboxOrder
  <2>2. GotOrder'
    BY <1>8, OldOrder DEF GotOrder
  <2>3. MeetOrder'
    <3>1. ASSUME NEW d \in Devices, NEW x \in Instances, at'[d] = x,
                 NEW k \in DOMAIN got'[d], NEW l \in DOMAIN inbox[x], inbox[x][l].user = UserOf[d]
          PROVE  \/ Follows(got'[d][k], inbox[x][l], jobLog')
                 \/ Twin(got'[d][k], inbox[x][l], jobLog') /\ k = Len(got'[d]) /\ l = 1
      <4>1. got'[d] = got[d] /\ at[d] = x
        BY <1>8, <3>1, DevicesAssumption
      <4> QED
        BY <3>1, <4>1, OldOrder
    <3> QED
      BY <3>1 DEF MeetOrder
  <2> QED
    BY <2>1, <2>2, <2>3
<1> QED
  BY <1>6, <1>9, <1>10 DEF OrderInv

\* An instance dies.
LEMMA CrashOrder ==
  ASSUME IInv, OrderInv, LogGrows, NEW i \in Instances, Crash(i)
  PROVE  OrderInv'
<1>1. /\ \A x \in Instances : inbox'[x] = inbox[x] \/ inbox'[x] = <<>>
      /\ \A x \in Instances : /\ DOMAIN channel'[x] \subseteq DOMAIN channel[x]
                              /\ \A k \in DOMAIN channel'[x] : channel'[x][k] = channel[x][k]
      /\ \A d \in Devices : at'[d] = at[d] \/ at'[d] = Offline
  BY CrashType DEF IInv
<1>2. got' = got /\ jobLog' = jobLog
  BY DEF Crash, StopInstance
<1>3. DOMAIN <<>> = {}
  OBVIOUS
<1>4. ChannelOrder'
  BY <1>1, <1>2 DEF OrderInv, ChannelOrder
<1>5. \A e : \A x \in Instances : Sent(e, x, jobLog, channel) => Sent(e, x, jobLog', channel')
  BY <1>1, <1>2 DEF Sent
<1>6. SentOrder'
  BY <1>1, <1>2, <1>3, <1>5 DEF OrderInv, SentOrder
<1>7. InboxOrder' /\ GotOrder'
  BY <1>1, <1>2, <1>3 DEF OrderInv, InboxOrder, GotOrder
<1>8. MeetOrder'
  BY <1>1, <1>2, <1>3, DevicesAssumption DEF OrderInv, MeetOrder
<1> QED
  BY <1>4, <1>6, <1>7, <1>8 DEF OrderInv

\* An instance receives an event and hands it to its sockets of that user.
LEMMA ConsumeOrder ==
  ASSUME IInv, OrderInv, LogGrows, NEW i \in Instances, Consume(i)
  PROVE  OrderInv'
<1>1. Shape /\ TypeInv
  BY ShapeOf DEF IInv
<1> DEFINE e == Head(inbox[i])
<1>2. jobLog' = jobLog /\ channel' = channel /\ at' = at
  BY DEF Consume, ConsumeSendEvent, jobVars
<1>3. /\ inbox[i] # <<>> /\ inbox' = [inbox EXCEPT ![i] = Tail(inbox[i])]
      /\ \A d \in Devices : \/ got'[d] = got[d] /\ ~(at[d] = i /\ UserOf[d] = e.user)
                            \/ got'[d] = Append(got[d], e) /\ at[d] = i /\ UserOf[d] = e.user
  BY <1>1, ConsumeType
<1>4. /\ e = inbox[i][1] /\ 1 \in DOMAIN inbox[i] /\ e \in EventType
      /\ inbox'[i] = Tail(inbox[i]) /\ \A x \in Instances \ {i} : inbox'[x] = inbox[x]
      /\ \A k \in DOMAIN inbox'[i] : /\ k \in Nat \ {0} /\ k + 1 \in DOMAIN inbox[i]
                                     /\ inbox'[i][k] = inbox[i][k + 1]
  <2>1. inbox[i] \in Seq(EventType) /\ inbox \in [Instances -> Seq(EventType)]
    BY <1>1 DEF Shape
  <2>2. /\ Tail(inbox[i]) \in Seq(EventType) /\ Len(Tail(inbox[i])) = Len(inbox[i]) - 1
        /\ Len(inbox[i]) \in Nat \ {0} /\ DOMAIN inbox[i] = 1 .. Len(inbox[i])
        /\ Head(inbox[i]) = inbox[i][1] /\ Head(inbox[i]) \in EventType
        /\ \A k \in 1 .. Len(Tail(inbox[i])) : Tail(inbox[i])[k] = inbox[i][k + 1]
    BY <1>3, <2>1, HeadTailProperties, LenProperties, EmptySeq
  <2>3. DOMAIN Tail(inbox[i]) = 1 .. Len(inbox[i]) - 1
    BY <2>2, LenProperties
  <2>4. inbox'[i] = Tail(inbox[i]) /\ \A x \in Instances \ {i} : inbox'[x] = inbox[x]
    BY <1>3, <2>1
  <2>5. \A k \in DOMAIN Tail(inbox[i]) : k \in Nat \ {0} /\ k + 1 \in DOMAIN inbox[i]
    BY <2>2, <2>3
  <2> QED
    BY <2>2, <2>3, <2>4, <2>5
<1> HIDE DEF e
<1>5. ASSUME NEW d \in Devices, got'[d] = Append(got[d], e)
      PROVE  /\ Len(got'[d]) = Len(got[d]) + 1
             /\ \A k \in DOMAIN got'[d] :
                   \/ k \in DOMAIN got[d] /\ got'[d][k] = got[d][k] /\ k < Len(got[d]) + 1
                   \/ k = Len(got[d]) + 1 /\ got'[d][k] = e
  <2>1. got[d] \in Seq(EventType) /\ Len(got[d]) \in Nat /\ DOMAIN got[d] = 1 .. Len(got[d])
    BY <1>1 DEF Shape
  <2>2. /\ Len(got'[d]) = Len(got[d]) + 1
        /\ DOMAIN got'[d] = 1 .. Len(got[d]) + 1
        /\ \A k \in 1 .. Len(got[d]) : got'[d][k] = got[d][k]
        /\ got'[d][Len(got[d]) + 1] = e
    BY <1>4, <1>5, <2>1, Appended
  <2> QED
    BY <2>1, <2>2
<1>6. ChannelOrder'
  BY <1>2 DEF OrderInv, ChannelOrder
<1>7. SentOrder'
  <2>1. ASSUME NEW x \in Instances, NEW y \in Instances, NEW k \in DOMAIN inbox'[y]
        PROVE  Sent(inbox'[y][k], x, jobLog, channel)
    BY <1>4, <2>1 DEF OrderInv, SentOrder
  <2>2. ASSUME NEW x \in Instances, NEW d \in Devices, NEW k \in DOMAIN got'[d]
        PROVE  Sent(got'[d][k], x, jobLog, channel)
    BY <1>3, <1>4, <1>5, <2>2 DEF OrderInv, SentOrder
  <2> QED
    BY <1>2, <2>1, <2>2 DEF SentOrder
<1>8. InboxOrder'
  <2>1. ASSUME NEW x \in Instances, NEW k \in DOMAIN inbox'[x], NEW l \in DOMAIN inbox'[x],
               k < l, inbox'[x][k].user = inbox'[x][l].user
        PROVE  \/ Follows(inbox'[x][k], inbox'[x][l], jobLog)
               \/ Twin(inbox'[x][k], inbox'[x][l], jobLog) /\ l = k + 1
    <3>1. CASE x # i
      BY <1>4, <2>1, <3>1 DEF OrderInv, InboxOrder
    <3>2. CASE x = i
      <4>1. /\ k + 1 \in DOMAIN inbox[i] /\ inbox'[i][k] = inbox[i][k + 1] /\ k \in Nat
            /\ l + 1 \in DOMAIN inbox[i] /\ inbox'[i][l] = inbox[i][l + 1] /\ l \in Nat
        BY <1>4, <2>1, <3>2
      <4>2. k + 1 < l + 1 /\ (l + 1 = (k + 1) + 1 => l = k + 1)
        BY <2>1, <4>1
      <4> QED
        BY <2>1, <3>2, <4>1, <4>2 DEF OrderInv, InboxOrder
    <3> QED
      BY <3>1, <3>2
  <2> QED
    BY <1>2, <2>1 DEF InboxOrder
<1>9. GotOrder'
  <2>1. ASSUME NEW d \in Devices, NEW k \in DOMAIN got'[d], NEW l \in DOMAIN got'[d], k < l
        PROVE  \/ Follows(got'[d][k], got'[d][l], jobLog)
               \/ Twin(got'[d][k], got'[d][l], jobLog) /\ l = k + 1
    <3>1. CASE got'[d] = got[d]
      BY <2>1, <3>1 DEF OrderInv, GotOrder
    <3>2. CASE got'[d] = Append(got[d], e) /\ at[d] = i /\ UserOf[d] = e.user
      <4>1. Len(got[d]) \in Nat /\ DOMAIN got[d] = 1 .. Len(got[d])
        BY <1>1 DEF Shape
      <4>2. k \in DOMAIN got[d] /\ got'[d][k] = got[d][k]
        <5>1. \A m \in DOMAIN got'[d] : m <= Len(got[d]) + 1 /\ m \in Nat
          BY <1>5, <3>2, <4>1
        <5>2. k # Len(got[d]) + 1
          BY <2>1, <4>1, <5>1
        <5> QED
          BY <1>5, <2>1, <3>2, <5>2
      <4>3. CASE l \in DOMAIN got[d] /\ got'[d][l] = got[d][l]
        BY <2>1, <4>2, <4>3 DEF OrderInv, GotOrder
      <4>4. CASE l = Len(got[d]) + 1 /\ got'[d][l] = e
        <5>1. \/ Follows(got[d][k], e, jobLog)
              \/ Twin(got[d][k], e, jobLog) /\ k = Len(got[d])
          BY <1>4, <3>2, <4>2 DEF OrderInv, MeetOrder
        <5> QED
          BY <4>2, <4>4, <5>1
      <4> QED
        BY <1>5, <2>1, <3>2, <4>3, <4>4
    <3> QED
      BY <1>3, <3>1, <3>2
  <2> QED
    BY <1>2, <2>1 DEF GotOrder
<1>10. MeetOrder'
  <2>1. ASSUME NEW d \in Devices, NEW x \in Instances, at[d] = x,
               NEW k \in DOMAIN got'[d], NEW l \in DOMAIN inbox'[x], inbox'[x][l].user = UserOf[d]
        PROVE  \/ Follows(got'[d][k], inbox'[x][l], jobLog)
               \/ Twin(got'[d][k], inbox'[x][l], jobLog) /\ k = Len(got'[d]) /\ l = 1
    <3>1. CASE x # i
      <4>1. got'[d] = got[d] /\ inbox'[x] = inbox[x]
        BY <1>3, <1>4, <2>1, <3>1
      <4> QED
        BY <2>1, <4>1 DEF OrderInv, MeetOrder
    <3>2. CASE x = i
      <4>1. /\ l \in Nat \ {0} /\ l + 1 \in DOMAIN inbox[i] /\ inbox'[i][l] = inbox[i][l + 1]
            /\ inbox[i][l + 1].user = UserOf[d] /\ l + 1 # 1
        <5>1. /\ l \in Nat \ {0} /\ l + 1 \in DOMAIN inbox[i]
              /\ inbox'[i][l] = inbox[i][l + 1]
          BY <1>4, <2>1, <3>2
        <5>2. l + 1 # 1
          BY <5>1
        <5>3. inbox'[i][l].user = UserOf[d]
          BY <2>1, <3>2
        <5> QED
          BY <5>1, <5>2, <5>3
      <4>2. k \in DOMAIN got[d] /\ got'[d][k] = got[d][k] => Follows(got'[d][k], inbox'[x][l], jobLog)
        BY <2>1, <3>2, <4>1 DEF OrderInv, MeetOrder
      <4>3. CASE got'[d] = got[d]
        BY <2>1, <4>2, <4>3
      <4>4. CASE got'[d] = Append(got[d], e) /\ UserOf[d] = e.user
        <5>1. CASE k = Len(got[d]) + 1 /\ got'[d][k] = e
          <6>1. 1 < l + 1 /\ (l + 1 = 1 + 1 => l = 1)
            BY <4>1
          <6>2. \/ Follows(e, inbox[i][l + 1], jobLog)
                \/ Twin(e, inbox[i][l + 1], jobLog) /\ l + 1 = 1 + 1
            <7>1. \A m \in DOMAIN inbox[i] : 1 < m /\ e.user = inbox[i][m].user =>
                     \/ Follows(e, inbox[i][m], jobLog)
                     \/ Twin(e, inbox[i][m], jobLog) /\ m = 1 + 1
              BY <1>4 DEF OrderInv, InboxOrder
            <7> QED
              BY <4>1, <4>4, <6>1, <7>1
          <6>3. Len(got'[d]) = Len(got[d]) + 1
            BY <1>5, <4>4
          <6> QED
            BY <3>2, <4>1, <5>1, <6>1, <6>2, <6>3
        <5> QED
          BY <1>5, <2>1, <4>2, <4>4, <5>1
      <4> QED
        BY <1>3, <4>3, <4>4
    <3> QED
      BY <3>1, <3>2
  <2> QED
    BY <1>2, <2>1 DEF MeetOrder
<1> QED
  BY <1>6, <1>7, <1>8, <1>9, <1>10 DEF OrderInv

\* The events of a job with the same addressee are those of a message to oneself.
LEMMA EventsTwins ==
  ASSUME NEW uid, NEW k \in DOMAIN EventsOf(uid), NEW l \in DOMAIN EventsOf(uid), k < l,
         EventsOf(uid)[k].user = EventsOf(uid)[l].user
  PROVE  l = k + 1 /\ jobLog[uid].job.by = jobLog[uid].job.to
<1> DEFINE j == jobLog[uid].job
<1>1. EventsOf(uid) \in {<<Event(j.to, uid, {}), Event(j.by, uid, {})>>, <<Event(j.to, uid, {})>>,
                         <<Event(j.by, uid, GetOnlineUserIds(Primary))>>, <<>>}
  BY DEF EventsOf
<1>2. \A u, o : Event(u, uid, o).user = u
  BY DEF Event
<1> HIDE DEF j
<1>3. CASE EventsOf(uid) = <<Event(j.to, uid, {}), Event(j.by, uid, {})>>
  <2>1. k = 1 /\ l = 2
    BY <1>3
  <2>2. EventsOf(uid)[1].user = j.to /\ EventsOf(uid)[2].user = j.by
    BY <1>2, <1>3
  <2> QED
    BY <2>1, <2>2 DEF j
<1>4. CASE EventsOf(uid) = <<Event(j.to, uid, {})>>
  BY <1>4
<1>5. CASE EventsOf(uid) = <<Event(j.by, uid, GetOnlineUserIds(Primary))>>
  BY <1>5
<1>6. CASE EventsOf(uid) = <<>>
  BY <1>6
<1> QED
  BY <1>1, <1>3, <1>4, <1>5, <1>6

\* The primary takes the first job of a channel and publishes its events.
LEMMA HandleOrder ==
  ASSUME IInv, OrderInv, LogGrows, NEW i \in Instances, Job(i) \/ JobDoneFails(i)
  PROVE  OrderInv'
<1>1. Shape /\ TypeInv /\ EventInv /\ JobsInv
  BY ShapeOf DEF IInv
<1> DEFINE uid == Head(channel[i])
           ev == EventsOf(uid)
<1>2. PICK logged \in BOOLEAN : HandleJob(i, logged)
  BY DEF Job, JobDoneFails
<1>3. /\ DOMAIN jobLog' = DOMAIN jobLog
      /\ \A n \in DOMAIN jobLog : /\ jobLog'[n].job = jobLog[n].job
                                  /\ jobLog'[n].home = jobLog[n].home
      /\ channel[i] # <<>> /\ channel' = [channel EXCEPT ![i] = Tail(channel[i])]
      /\ uid \in DOMAIN jobLog
      /\ at' = at /\ got' = got
      /\ \A x \in Instances : inbox'[x] = inbox[x] \/ inbox'[x] = inbox[x] \o ev
  BY <1>1, <1>2, Handles
<1>4. /\ ev \in Seq(EventType)
      /\ \A k \in DOMAIN ev : ev[k].uid = uid
  BY <1>1, <1>3, EventsType
<1>5. \A k, l \in DOMAIN ev : k < l /\ ev[k].user = ev[l].user =>
         l = k + 1 /\ jobLog[uid].job.by = jobLog[uid].job.to
  BY EventsTwins
<1>6. /\ uid = channel[i][1] /\ 1 \in DOMAIN channel[i]
      /\ channel'[i] = Tail(channel[i]) /\ \A x \in Instances \ {i} : channel'[x] = channel[x]
      /\ \A k \in DOMAIN channel'[i] : /\ k \in Nat \ {0} /\ k + 1 \in DOMAIN channel[i]
                                       /\ channel'[i][k] = channel[i][k + 1]
  <2>1. channel[i] \in Seq(Nat) /\ channel \in [Instances -> Seq(Nat)]
    BY <1>1 DEF Shape
  <2>2. /\ Tail(channel[i]) \in Seq(Nat) /\ Len(Tail(channel[i])) = Len(channel[i]) - 1
        /\ Len(channel[i]) \in Nat \ {0} /\ DOMAIN channel[i] = 1 .. Len(channel[i])
        /\ Head(channel[i]) = channel[i][1]
        /\ \A k \in 1 .. Len(Tail(channel[i])) : Tail(channel[i])[k] = channel[i][k + 1]
    BY <1>3, <2>1, HeadTailProperties, LenProperties, EmptySeq
  <2>3. DOMAIN Tail(channel[i]) = 1 .. Len(channel[i]) - 1
    BY <2>2, LenProperties
  <2>4. channel'[i] = Tail(channel[i]) /\ \A x \in Instances \ {i} : channel'[x] = channel[x]
    BY <1>3, <2>1
  <2>5. \A k \in DOMAIN Tail(channel[i]) : k \in Nat \ {0} /\ k + 1 \in DOMAIN channel[i]
    BY <2>2, <2>3
  <2> QED
    BY <2>2, <2>3, <2>4, <2>5
<1> HIDE DEF uid, ev
\* The uid comes before what is left on the channel, and after what was received.
<1>7. jobLog[uid].home = i
  BY <1>6 DEF OrderInv, ChannelOrder
<1>8. \A k \in DOMAIN channel'[i] : uid < channel'[i][k]
  <2>1. ASSUME NEW k \in DOMAIN channel'[i] PROVE uid < channel'[i][k]
    <3>1. k + 1 \in DOMAIN channel[i] /\ 1 < k + 1 /\ channel'[i][k] = channel[i][k + 1]
      BY <1>6
    <3> QED
      BY <1>6, <3>1 DEF OrderInv, ChannelOrder
  <2> QED
    BY <2>1
<1>9. ASSUME NEW e, Sent(e, i, jobLog, channel), NEW f, f.uid = uid
      PROVE  Follows(e, f, jobLog)
  BY <1>6, <1>7, <1>9 DEF Sent, Follows
<1>10. ASSUME NEW e, e.uid \in DOMAIN jobLog, NEW x \in Instances, Sent(e, x, jobLog, channel)
       PROVE  Sent(e, x, jobLog', channel')
  BY <1>3, <1>6, <1>10 DEF Sent
<1>11. ASSUME NEW e, e.uid = uid, NEW x \in Instances PROVE Sent(e, x, jobLog', channel')
  BY <1>3, <1>7, <1>8, <1>11 DEF Sent
\* What is new in an inbox.
<1>12. ASSUME NEW x \in Instances, NEW k \in DOMAIN inbox'[x]
       PROVE  \/ k \in DOMAIN inbox[x] /\ inbox'[x][k] = inbox[x][k]
              \/ /\ k - Len(inbox[x]) \in DOMAIN ev /\ inbox'[x][k] = ev[k - Len(inbox[x])]
                 /\ inbox'[x] = inbox[x] \o ev /\ k \in Nat /\ k > Len(inbox[x])
  <2>1. CASE inbox'[x] = inbox[x]
    BY <1>12, <2>1
  <2>2. CASE inbox'[x] = inbox[x] \o ev
    <3> DEFINE n == Len(inbox[x])
               m == Len(ev)
    <3>1. inbox[x] \in Seq(EventType) /\ n \in Nat /\ DOMAIN inbox[x] = 1 .. n
      BY <1>1 DEF Shape
    <3>2. m \in Nat /\ DOMAIN ev = 1 .. m
      BY <1>4, LenProperties
    <3>3. /\ inbox[x] \o ev \in Seq(EventType) /\ Len(inbox[x] \o ev) = n + m
          /\ \A l \in 1 .. n + m : (inbox[x] \o ev)[l] = IF l <= n THEN inbox[x][l] ELSE ev[l - n]
      BY <1>4, <3>1, ConcatProperties
    <3>4. k \in 1 .. n + m
      BY <1>12, <2>2, <3>3, LenProperties
    <3> HIDE DEF n, m
    <3>5. CASE k <= n
      <4>1. k \in DOMAIN inbox[x]
        BY <3>1, <3>4, <3>5
      <4> QED
        BY <2>2, <3>3, <3>4, <3>5, <4>1
    <3>6. CASE ~(k <= n)
      <4>1. k - n \in DOMAIN ev /\ k \in Nat /\ k > n
        BY <3>1, <3>2, <3>4, <3>6
      <4> QED
        BY <2>2, <3>3, <3>4, <3>6, <4>1 DEF n
    <3> QED
      BY <3>5, <3>6
  <2> QED
    BY <1>3, <2>1, <2>2
<1>13. ChannelOrder'
  <2>1. ASSUME NEW x \in Instances, NEW k \in DOMAIN channel'[x], NEW l \in DOMAIN channel'[x]
        PROVE  /\ jobLog'[channel'[x][k]].home = x
               /\ k < l => channel'[x][k] < channel'[x][l]
    <3>1. CASE x # i
      <4>1. channel'[x] = channel[x]
        BY <1>6, <3>1
      <4>2. /\ channel[x][k] \in DOMAIN jobLog /\ jobLog[channel[x][k]].home = x
            /\ k < l => channel[x][k] < channel[x][l]
        BY <1>1, <2>1, <4>1 DEF OrderInv, ChannelOrder, Shape
      <4> QED
        BY <1>3, <4>1, <4>2
    <3>2. CASE x = i
      <4>1. /\ k + 1 \in DOMAIN channel[i] /\ channel'[i][k] = channel[i][k + 1] /\ k \in Nat
            /\ l + 1 \in DOMAIN channel[i] /\ channel'[i][l] = channel[i][l + 1] /\ l \in Nat
        BY <1>6, <2>1, <3>2
      <4>2. k < l => k + 1 < l + 1
        BY <4>1
      <4>3. /\ channel[i][k + 1] \in DOMAIN jobLog /\ jobLog[channel[i][k + 1]].home = i
            /\ k + 1 < l + 1 => channel[i][k + 1] < channel[i][l + 1]
        BY <1>1, <4>1 DEF OrderInv, ChannelOrder, Shape
      <4> QED
        BY <1>3, <3>2, <4>1, <4>2, <4>3
    <3> QED
      BY <3>1, <3>2
  <2> QED
    BY <2>1 DEF ChannelOrder
<1>14. SentOrder'
  <2>1. ASSUME NEW x \in Instances, NEW y \in Instances, NEW k \in DOMAIN inbox'[y]
        PROVE  Sent(inbox'[y][k], x, jobLog', channel')
    <3>1. CASE k \in DOMAIN inbox[y] /\ inbox'[y][k] = inbox[y][k]
      <4>1. inbox[y][k].uid \in DOMAIN jobLog /\ Sent(inbox[y][k], x, jobLog, channel)
        BY <1>1, <3>1 DEF OrderInv, SentOrder, Shape
      <4> QED
        BY <1>10, <3>1, <4>1
    <3>2. CASE k - Len(inbox[y]) \in DOMAIN ev /\ inbox'[y][k] = ev[k - Len(inbox[y])]
      BY <1>4, <1>11, <3>2
    <3> QED
      BY <1>12, <2>1, <3>1, <3>2
  <2>2. ASSUME NEW x \in Instances, NEW d \in Devices, NEW k \in DOMAIN got[d]
        PROVE  Sent(got[d][k], x, jobLog', channel')
    BY <1>1, <1>10 DEF OrderInv, SentOrder, Shape
  <2> QED
    BY <1>3, <2>1, <2>2 DEF SentOrder
<1>15. InboxOrder'
  <2>1. ASSUME NEW x \in Instances, NEW k \in DOMAIN inbox'[x], NEW l \in DOMAIN inbox'[x],
               k < l, inbox'[x][k].user = inbox'[x][l].user
        PROVE  \/ Follows(inbox'[x][k], inbox'[x][l], jobLog')
               \/ Twin(inbox'[x][k], inbox'[x][l], jobLog') /\ l = k + 1
    <3> DEFINE n == Len(inbox[x])
    <3>1. n \in Nat /\ DOMAIN inbox[x] = 1 .. n
      BY <1>1 DEF Shape
    <3>2. CASE /\ k \in DOMAIN inbox[x] /\ inbox'[x][k] = inbox[x][k]
               /\ l \in DOMAIN inbox[x] /\ inbox'[x][l] = inbox[x][l]
      BY <2>1, <3>2, OldOrder
    <3>3. CASE /\ k \in DOMAIN inbox[x] /\ inbox'[x][k] = inbox[x][k]
               /\ l - n \in DOMAIN ev /\ inbox'[x][l] = ev[l - n]
      <4>1. /\ inbox[x][k].uid \in DOMAIN jobLog /\ Sent(inbox[x][k], i, jobLog, channel)
            /\ ev[l - n].uid = uid
        BY <1>1, <1>4, <3>3 DEF OrderInv, SentOrder, Shape
      <4>2. Follows(inbox[x][k], ev[l - n], jobLog)
        BY <1>9, <4>1
      <4> QED
        BY <1>3, <3>3, <4>1, <4>2, OrderStays
    <3>4. CASE k - n \in DOMAIN ev /\ inbox'[x][k] = ev[k - n] /\ k \in Nat /\ k > n
      <4>1. l - n \in DOMAIN ev /\ inbox'[x][l] = ev[l - n] /\ l \in Nat
        <5>1. ~(l \in DOMAIN inbox[x])
          BY <2>1, <3>1, <3>4
        <5> QED
          BY <1>12, <2>1, <5>1
      <4>2. k - n < l - n /\ (l - n = (k - n) + 1 => l = k + 1)
        BY <2>1, <3>1, <3>4, <4>1
      <4> HIDE DEF n
      <4>3. l - n = (k - n) + 1 /\ jobLog[uid].job.by = jobLog[uid].job.to
        BY <1>5, <2>1, <3>4, <4>1, <4>2
      <4>4. ev[k - n].uid = uid /\ ev[l - n].uid = uid
        BY <1>4, <3>4, <4>1
      <4> QED
        BY <1>3, <3>4, <4>1, <4>2, <4>3, <4>4 DEF Twin
    <3> QED
      BY <1>12, <2>1, <3>2, <3>3, <3>4
  <2> QED
    BY <2>1 DEF InboxOrder
<1>16. GotOrder'
  BY <1>3, OldOrder DEF GotOrder
<1>17. MeetOrder'
  <2>1. ASSUME NEW d \in Devices, NEW x \in Instances, at[d] = x,
               NEW k \in DOMAIN got[d], NEW l \in DOMAIN inbox'[x], inbox'[x][l].user = UserOf[d]
        PROVE  \/ Follows(got[d][k], inbox'[x][l], jobLog')
               \/ Twin(got[d][k], inbox'[x][l], jobLog') /\ k = Len(got[d]) /\ l = 1
    <3>1. CASE l \in DOMAIN inbox[x] /\ inbox'[x][l] = inbox[x][l]
      BY <2>1, <3>1, OldOrder
    <3>2. CASE l - Len(inbox[x]) \in DOMAIN ev /\ inbox'[x][l] = ev[l - Len(inbox[x])]
      <4>1. /\ got[d][k].uid \in DOMAIN jobLog /\ Sent(got[d][k], i, jobLog, channel)
            /\ inbox'[x][l].uid = uid
        BY <1>1, <1>4, <3>2 DEF OrderInv, SentOrder, Shape
      <4>2. Follows(got[d][k], inbox'[x][l], jobLog)
        BY <1>9, <4>1
      <4> QED
        BY <1>3, <4>1, <4>2 DEF Follows
    <3> QED
      BY <1>12, <2>1, <3>1, <3>2
  <2> QED
    BY <1>3, <2>1 DEF MeetOrder
<1> QED
  BY <1>13, <1>14, <1>15, <1>16, <1>17 DEF OrderInv

-----------------------------------------------------------------------------
\* The theorem.

\* The order invariant holds at first.
LEMMA InitOrder == ASSUME Init PROVE OrderInv
<1>1. DOMAIN <<>> = {}
  OBVIOUS
<1> QED
  BY <1>1 DEF Init, OrderInv, ChannelOrder, SentOrder, InboxOrder, GotOrder, MeetOrder

\* Every step keeps it.
LEMMA NextOrder == ASSUME IInv, OrderInv, [Next]_vars PROVE OrderInv'
<1>1. LogGrows /\ TypeInv /\ TaskInv
  BY GrowStep DEF IInv
<1>2. ASSUME UNCHANGED <<jobVars, socketVars>> PROVE OrderInv'
  BY <1>2 DEF OrderInv, ChannelOrder, SentOrder, InboxOrder, GotOrder, MeetOrder,
              jobVars, socketVars
<1>3. ASSUME NEW p \in Procs, Execute(p) PROVE OrderInv'
  <2>1. Head(task[p].jobs) \in JobType /\ Home[p] \in Instances
    BY <1>1, <1>3, NextJobType, HomeAssumption DEF Execute
  <2>2. ExecuteJob(Home[p], Head(task[p].jobs)) /\ UNCHANGED socketVars
    BY <1>3 DEF Execute
  <2> QED
    BY <1>1, <2>1, <2>2, EmitOrder DEF socketVars
<1>4. CASE SocketMessage \/ Come \/ Go
  <2>1. PICK i \in Instances, j \in JobType : ExecuteJob(i, j)
    BY <1>1, <1>4, SocketEmits
  <2>2. inbox' = inbox
    BY <1>4 DEF SocketMessage, Come, Go, HandleMessageEvent, HandleTypingEvent,
                HandleGetOnlineUsers, Connect, Disconnect, socketVars
  <2>3. \A d \in Devices : \/ got'[d] = got[d] /\ (at'[d] = at[d] \/ at'[d] = Offline)
                           \/ got'[d] = <<>>
    <3>1. at \in [Devices -> up \cup {Offline}] /\ got \in [Devices -> Seq(EventType)]
      BY <1>1 DEF TypeInv
    <3>2. CASE SocketMessage
      BY <3>2 DEF SocketMessage, HandleMessageEvent, HandleTypingEvent, HandleGetOnlineUsers,
                  socketVars
    <3>3. CASE Come
      BY <3>1, <3>3 DEF Come, Connect
    <3>4. CASE Go
      BY <3>1, <3>4 DEF Go, Disconnect
    <3> QED
      BY <1>4, <3>2, <3>3, <3>4
  <2> QED
    BY <1>1, <2>1, <2>2, <2>3, EmitOrder
<1>5. ASSUME NEW p \in Procs,
             StartSend(p) \/ StartRead(p) \/ FindChat(p) \/ CreateChat(p) \/ StoreMessage(p)
                \/ MarkRead(p) \/ CallFails(p)
      PROVE  OrderInv'
  BY <1>2, <1>5 DEF StartSend, StartRead, FindChat, CreateChat, StoreMessage, MarkRead, CallFails
<1>6. ASSUME NEW i \in Instances,
             Job(i) \/ JobDoneFails(i) \/ Consume(i) \/ Crash(i)
      PROVE  OrderInv'
  BY <1>1, <1>6, HandleOrder, ConsumeOrder, CrashOrder
<1>7. ASSUME NEW i \in Instances, Restart(i) PROVE OrderInv'
  BY <1>2, <1>7 DEF Restart
<1>8. CASE UNCHANGED vars
  BY <1>2, <1>8 DEF vars
<1> QED
  BY <1>3, <1>4, <1>5, <1>6, <1>7, <1>8 DEF Next, RequestStep

\* As long as a device stays connected, it receives what one instance emits in
\* order and once, a message to oneself twice (executeJob, propagateEvent,
\* consumeSendEvent).
THEOREM OrderCorrect == Spec => []InOrderOnce
<1>1. Init => IInv /\ OrderInv
  BY InitInv, InitOrder
<1>2. (IInv /\ OrderInv) /\ [Next]_vars => (IInv /\ OrderInv)'
  BY NextInv, NextOrder
<1>3. ASSUME IInv, OrderInv PROVE InOrderOnce
  <2> SUFFICES ASSUME NEW d \in Devices, NEW l \in DOMAIN got[d], NEW k \in 1 .. l - 1,
                      jobLog[got[d][k].uid].home = jobLog[got[d][l].uid].home
               PROVE  \/ got[d][k].uid < got[d][l].uid
                      \/ /\ got[d][k].uid = got[d][l].uid
                         /\ JobOf(got[d][k]).by = JobOf(got[d][k]).to /\ l = k + 1
    BY DEF InOrderOnce
  <2>1. DOMAIN got[d] = 1 .. Len(got[d]) /\ Len(got[d]) \in Nat
    BY <1>3, ShapeOf DEF Shape
  <2>2. k \in DOMAIN got[d] /\ k < l
    BY <2>1
  <2>3. \/ Follows(got[d][k], got[d][l], jobLog)
        \/ Twin(got[d][k], got[d][l], jobLog) /\ l = k + 1
    BY <1>3, <2>2 DEF OrderInv, GotOrder
  <2> QED
    BY <2>3 DEF Follows, Twin, JobOf
<1> QED
  BY <1>1, <1>2, <1>3, PTL DEF Spec
=============================================================================
