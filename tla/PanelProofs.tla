------------------------------ MODULE PanelProofs ------------------------------
(***************************************************************************)
(* Proofs about Panel, for any volumes, files and threads.                 *)
(*                                                                         *)
(* Inv holds however deep handlers run inside one another: it says what a  *)
(* handler that waits may still count on, whatever the inner ones did to   *)
(* its volume (FrameOK), that two volume_opens never work on one volume    *)
(* (Apart), and that an open volume is complete (VolumesOK).  TypeCorrect  *)
(* follows from it.                                                        *)
(*                                                                         *)
(* Alone holds in addition as long as no handler runs inside another.      *)
(* It ties the FUSE thread to the current volume and keeps it away from a  *)
(* volume that is being opened or closed; the properties of sessions, keys *)
(* and saved tables follow from it, and are false without that condition.  *)
(***************************************************************************)
EXTENDS Panel, SequenceTheorems, TLAPS

LOCAL INSTANCE SequencesExt

------------------------------------------------------------------------------
(* The inductive invariant *)

\* A handler that dispatches events: another one may have begun inside it.
Yields(f) ==
    \/ f.pc \in {"creating", "preparing", "reading", "unlocked", "caching", "read"}
    \/ f.h = "close" /\ f.pc \in {"flushing", "destroying"}

\* A handler that is about to work on the current volume, which is open.
Steady == {"detach", "joining", "closing", "choosing"}

\* volume_open and volume_close at work on the volume they were given.
Opening(f) == f.pc \in {"reading", "unlocked", "caching", "read"}
Closing(f) == f.pc \in {"flushing", "destroying"}

\* What a handler may count on, however often others ran inside it, unless its
\* volume was freed meanwhile.
FrameOK(f, V, c) ==
    /\ f.h = "open" => f.path # None
    /\ Opening(f) \/ Closing(f) => f.vol \in Vol /\ V[f.vol].state # "unallocated"
    /\ Opening(f) =>
          /\ V[f.vol].is_open => c = f.vol
          /\ V[f.vol].state = "allocated" =>
                /\ V[f.vol].path # None
                /\ f.pc # "reading" => V[f.vol].keys
                /\ f.pc \in {"caching", "read"} => V[f.vol].cache
    /\ Closing(f) /\ V[f.vol].state = "allocated" => V[f.vol].is_open /\ c = f.vol

\* volume_open never works on a volume another volume_open works on, or will.
Apart(s, c) ==
    \A i, j \in 1..Len(s) : i < j /\ Opening(s[i]) =>
       /\ Opening(s[j]) => s[i].vol # s[j].vol
       /\ s[j].pc = "preparing" => s[i].vol # c

StackOK(s, V, c) ==
    /\ \A i \in 1..Len(s) : FrameOK(s[i], V, c)
    /\ \A i \in 1..(Len(s) - 1) : Yields(s[i])
    /\ s # <<>> /\ s[Len(s)].pc \in Steady => c # None /\ V[c].is_open
    /\ Apart(s, c)

\* The volumes: what is open is complete and in use, what is mounted is open.
VolumesOK(V) ==
    /\ V \in [Vol -> Context]
    /\ \A v \in Vol :
          /\ V[v].is_open => /\ V[v].state = "allocated" /\ V[v].keys /\ V[v].cache
                             /\ V[v].path # None
          /\ V[v].is_mounted => V[v].is_open

\* The rest of the state is of its type.
RestOK == /\ window \in BOOLEAN
          /\ current \in Vol \cup {None}
          /\ current # None => vol[current].state = "allocated"
          /\ stack \in Seq(Frame) /\ Len(stack) <= MaxDepth
          /\ g_vol \in Vol \cup {None}
          /\ g_fuse \in Thread \cup {None}
          /\ session \in [Thread -> Session]
          /\ file \in [Path -> Table \cup {Mixed, Unreadable}]

Inv == RestOK /\ VolumesOK(vol) /\ StackOK(stack, vol, current)

USE EmptyAssumption, TableAssumption, NoneAssumption, DepthAssumption, FailureAssumption

------------------------------------------------------------------------------
(* The stack *)

LEMMA Pushed ==
    ASSUME NEW s \in Seq(Frame), NEW f \in Frame
    PROVE  /\ Append(s, f) \in Seq(Frame) /\ Append(s, f) # <<>>
           /\ Len(Append(s, f)) = Len(s) + 1 /\ Append(s, f)[Len(s) + 1] = f
           /\ \A i \in 1..Len(s) : Append(s, f)[i] = s[i]
BY AppendProperties

LEMMA Replaced ==
    ASSUME NEW s \in Seq(Frame), s # <<>>, NEW g \in Frame
    PROVE  LET t == [s EXCEPT ![Len(s)] = g]
           IN  /\ Len(s) \in Nat \ {0}
               /\ t \in Seq(Frame) /\ t # <<>> /\ Len(t) = Len(s) /\ t[Len(s)] = g
               /\ \A i \in 1..(Len(s) - 1) : t[i] = s[i]
<1>1. Len(s) \in Nat \ {0} /\ Len(s) \in 1..Len(s)
  BY EmptySeq
<1> DEFINE t == [s EXCEPT ![Len(s)] = g]
<1>2. /\ t \in Seq(Frame) /\ Len(t) = Len(s)
      /\ \A i \in 1..Len(s) : t[i] = IF i = Len(s) THEN g ELSE s[i]
  BY <1>1, ExceptSeq
<1>3. t # <<>>
  BY <1>1, <1>2, EmptySeq
<1>4. \A i \in 1..(Len(s) - 1) : i \in 1..Len(s) /\ i # Len(s)
  BY <1>1
<1> HIDE DEF t
<1>5. t[Len(s)] = g /\ \A i \in 1..(Len(s) - 1) : t[i] = s[i]
  BY <1>1, <1>2, <1>4
<1> QED
  BY <1>1, <1>2, <1>3, <1>5 DEF t

LEMMA TopIsFrame ==
    ASSUME NEW s \in Seq(Frame), s # <<>>
    PROVE  Len(s) \in Nat \ {0} /\ s[Len(s)] \in Frame
BY EmptySeq, ElementOfSeq

LEMMA Left ==
    ASSUME NEW s \in Seq(Frame), s # <<>>
    PROVE  LET t == SubSeq(s, 1, Len(s) - 1)
           IN  /\ Len(s) \in Nat \ {0}
               /\ t \in Seq(Frame) /\ Len(t) = Len(s) - 1
               /\ \A i \in 1..(Len(s) - 1) : t[i] = s[i]
<1>1. Len(s) \in Nat \ {0} /\ \A i \in 1..(Len(s) - 1) : s[i] \in Frame
  BY EmptySeq, ElementOfSeq
<1> DEFINE n == Len(s) - 1
<1>2. n \in Nat /\ \A i \in 1..n : s[i] \in Frame
  BY <1>1
<1> HIDE DEF n
<1>3. /\ SubSeq(s, 1, n) \in Seq(Frame)
      /\ Len(SubSeq(s, 1, n)) = IF 1 <= n THEN n - 1 + 1 ELSE 0
      /\ \A i \in 1..(n - 1 + 1) : SubSeq(s, 1, n)[i] = s[1 + i - 1]
  BY <1>2, SubSeqProperties
<1>4. Len(SubSeq(s, 1, n)) = n /\ \A i \in 1..n : SubSeq(s, 1, n)[i] = s[i]
  BY <1>2, <1>3
<1> QED
  BY <1>1, <1>3, <1>4 DEF n

------------------------------------------------------------------------------
(* What a step may do to the stack *)

\* A handler begins inside the innermost one.
LEMMA TopPushed ==
    ASSUME NEW s \in Seq(Frame), NEW t \in Seq(Frame), NEW V, NEW c, NEW W, NEW d,
           StackOK(s, V, c), s # <<>> => Yields(s[Len(s)]),
           Len(t) = Len(s) + 1,
           \A i \in 1..Len(s) :
              /\ t[i] = s[i] /\ FrameOK(s[i], W, d)
              /\ Opening(s[i]) =>
                    /\ d = c \/ d # s[i].vol
                    /\ Opening(t[Len(s) + 1]) => s[i].vol # t[Len(s) + 1].vol
                    /\ t[Len(s) + 1].pc = "preparing" => s[i].vol # d,
           FrameOK(t[Len(s) + 1], W, d),
           t[Len(s) + 1].pc \in Steady => d # None /\ W[d].is_open
    PROVE  StackOK(t, W, d)
<1> DEFINE n == Len(s)
<1>0. n \in Nat
  BY EmptySeq
<1>1. \A i \in 1..Len(t) : FrameOK(t[i], W, d)
  <2> SUFFICES ASSUME NEW i \in 1..Len(t)
               PROVE  FrameOK(t[i], W, d)
    OBVIOUS
  <2>1. i \in 1..n \/ i = n + 1
    OBVIOUS
  <2> QED
    BY <2>1
<1>2. \A i \in 1..(Len(t) - 1) : Yields(t[i])
  <2> SUFFICES ASSUME NEW i \in 1..n
               PROVE  Yields(s[i])
    OBVIOUS
  <2>1. CASE i = n
    BY <2>1, EmptySeq
  <2>2. CASE i # n
    <3>1. i \in 1..(Len(s) - 1)
      BY <2>2
    <3> QED
      BY <3>1 DEF StackOK
  <2> QED
    BY <2>1, <2>2
<1>3. Apart(t, d)
  <2> SUFFICES ASSUME NEW i \in 1..Len(t), NEW j \in 1..Len(t), i < j, Opening(t[i])
               PROVE  /\ Opening(t[j]) => t[i].vol # t[j].vol
                      /\ t[j].pc = "preparing" => t[i].vol # d
    BY DEF Apart
  <2>1. t[i] = s[i] /\ i \in 1..n /\ (j \in 1..n \/ j = n + 1)
    OBVIOUS
  <2>2. CASE j \in 1..n
    <3>1. t[j] = s[j] /\ i \in 1..Len(s) /\ j \in 1..Len(s)
      BY <2>1, <2>2
    <3>2. /\ Opening(s[j]) => s[i].vol # s[j].vol
          /\ s[j].pc = "preparing" => s[i].vol # c
      BY <2>1, <3>1 DEF StackOK, Apart
    <3> QED
      BY <2>1, <3>1, <3>2
  <2> QED
    BY <2>1, <2>2
<1>4. t # <<>> /\ t[Len(t)].pc \in Steady => d # None /\ W[d].is_open
  OBVIOUS
<1> QED
  BY <1>1, <1>2, <1>3, <1>4 DEF StackOK

\* It goes on.
LEMMA TopReplaced ==
    ASSUME NEW s \in Seq(Frame), NEW t \in Seq(Frame), NEW V, NEW c, NEW W, NEW d,
           s # <<>>, StackOK(s, V, c), Len(t) = Len(s),
           \A i \in 1..(Len(s) - 1) :
              /\ t[i] = s[i] /\ FrameOK(s[i], W, d)
              /\ Opening(s[i]) =>
                    /\ d = c \/ d # s[i].vol
                    /\ Opening(t[Len(s)]) => s[i].vol # t[Len(s)].vol
                    /\ t[Len(s)].pc = "preparing" => s[i].vol # d,
           FrameOK(t[Len(s)], W, d),
           t[Len(s)].pc \in Steady => d # None /\ W[d].is_open
    PROVE  StackOK(t, W, d)
<1>1. Len(s) \in Nat \ {0}
  BY EmptySeq
<1>2. \A i \in 1..Len(t) : FrameOK(t[i], W, d)
  <2> SUFFICES ASSUME NEW i \in 1..Len(t)
               PROVE  FrameOK(t[i], W, d)
    OBVIOUS
  <2>1. i \in 1..(Len(s) - 1) \/ i = Len(s)
    BY <1>1
  <2> QED
    BY <2>1
<1>3. \A i \in 1..(Len(t) - 1) : Yields(t[i])
  BY DEF StackOK
<1>4. Apart(t, d)
  <2> SUFFICES ASSUME NEW i \in 1..Len(t), NEW j \in 1..Len(t), i < j, Opening(t[i])
               PROVE  /\ Opening(t[j]) => t[i].vol # t[j].vol
                      /\ t[j].pc = "preparing" => t[i].vol # d
    BY DEF Apart
  <2>1. /\ t[i] = s[i] /\ i \in 1..(Len(s) - 1)
        /\ j \in 1..(Len(s) - 1) \/ j = Len(s)
    BY <1>1
  <2>2. CASE j \in 1..(Len(s) - 1)
    <3>1. t[j] = s[j] /\ i \in 1..Len(s) /\ j \in 1..Len(s)
      BY <2>1, <2>2
    <3>2. /\ Opening(s[j]) => s[i].vol # s[j].vol
          /\ s[j].pc = "preparing" => s[i].vol # c
      BY <2>1, <3>1 DEF StackOK, Apart
    <3> QED
      BY <2>1, <3>1, <3>2
  <2> QED
    BY <2>1, <2>2
<1>5. t[Len(t)].pc \in Steady => d # None /\ W[d].is_open
  OBVIOUS
<1> QED
  BY <1>2, <1>3, <1>4, <1>5 DEF StackOK

\* It returns.
LEMMA TopLeft ==
    ASSUME NEW s \in Seq(Frame), NEW t \in Seq(Frame), NEW V, NEW c, NEW W, NEW d,
           s # <<>>, StackOK(s, V, c), Len(t) = Len(s) - 1,
           \A i \in 1..(Len(s) - 1) :
              /\ t[i] = s[i] /\ FrameOK(s[i], W, d)
              /\ Opening(s[i]) => d = c \/ d # s[i].vol
    PROVE  StackOK(t, W, d)
<1>1. Len(s) \in Nat \ {0} /\ Len(t) \in Nat /\ (t # <<>> => Len(t) \in 1..(Len(s) - 1))
  BY EmptySeq
<1>2. \A i \in 1..Len(t) : FrameOK(t[i], W, d)
  BY <1>1
<1>3. \A i \in 1..Len(t) : Yields(t[i]) /\ t[i].pc \notin Steady
  <2> SUFFICES ASSUME NEW i \in 1..Len(t)
               PROVE  Yields(t[i]) /\ t[i].pc \notin Steady
    OBVIOUS
  <2>1. Yields(s[i]) /\ t[i] = s[i]
    BY <1>1 DEF StackOK
  <2> QED
    BY <2>1 DEF Yields, Steady
<1>4. Apart(t, d)
  <2> SUFFICES ASSUME NEW i \in 1..Len(t), NEW j \in 1..Len(t), i < j, Opening(t[i])
               PROVE  /\ Opening(t[j]) => t[i].vol # t[j].vol
                      /\ t[j].pc = "preparing" => t[i].vol # d
    BY DEF Apart
  <2>1. /\ t[i] = s[i] /\ t[j] = s[j] /\ i \in 1..Len(s) /\ j \in 1..Len(s)
        /\ d = c \/ d # s[i].vol
    BY <1>1
  <2>2. /\ Opening(s[j]) => s[i].vol # s[j].vol
        /\ s[j].pc = "preparing" => s[i].vol # c
    BY <2>1 DEF StackOK, Apart
  <2> QED
    BY <2>1, <2>2
<1> QED
  BY <1>1, <1>2, <1>3, <1>4 DEF StackOK

------------------------------------------------------------------------------
(* What a step may do to the volumes *)

\* Nothing the handlers that wait count on.
Quiet(V, W) ==
    \A v \in Vol : /\ W[v].state = V[v].state /\ W[v].is_open = V[v].is_open
                   /\ W[v].keys = V[v].keys /\ W[v].cache = V[v].cache /\ W[v].path = V[v].path

LEMMA QuietKeeps ==
    ASSUME NEW f, NEW V, NEW W, NEW c, FrameOK(f, V, c), Quiet(V, W)
    PROVE  FrameOK(f, W, c)
BY DEF FrameOK, Quiet

\* ... and so the handlers below the innermost one keep it.
LEMMA BelowKeeps ==
    ASSUME NEW s \in Seq(Frame), NEW V, NEW c, NEW W, StackOK(s, V, c), Quiet(V, W)
    PROVE  \A i \in 1..Len(s) : FrameOK(s[i], W, c)
BY QuietKeeps DEF StackOK

\* The current volume is freed, after something was done to the volume of the
\* handler, and another one may be allocated.
Freeing(s, V, c, X) ==
    LET u == s[Len(s)].vol
    IN  \/ X = V
        \/ /\ Opening(s[Len(s)]) \/ Closing(s[Len(s)])
           /\ V[u].state = "allocated"
           /\ \A v \in Vol \ {u} : X[v] = V[v]
           /\ X[u].state = "allocated"
           /\ X[u].is_open => V[u].is_open
           /\ X[u].is_mounted => V[u].is_mounted

Reallocated(X, c, w) == [Freed(X, c) EXCEPT ![w] = Zeroed("allocated")]

LEMMA FreedType ==
    ASSUME NEW X \in [Vol -> Context], NEW c \in Vol \cup {None}
    PROVE  /\ Freed(X, c) \in [Vol -> Context]
           /\ \A v \in Vol \ {c} : Freed(X, c)[v] = X[v]
           /\ c \in Vol => /\ Freed(X, c)[c].state = "freed"
                          /\ ~Freed(X, c)[c].is_open /\ ~Freed(X, c)[c].is_mounted
BY DEF Freed, Zeroed, Context

LEMMA FreeingKeeps ==
    ASSUME NEW s \in Seq(Frame), s # <<>>, NEW V, NEW c \in Vol \cup {None},
           VolumesOK(V), StackOK(s, V, c),
           NEW X \in [Vol -> Context], Freeing(s, V, c, X)
    PROVE  /\ VolumesOK(Freed(X, c))
           /\ \A i \in 1..(Len(s) - 1) : FrameOK(s[i], Freed(X, c), None)
           /\ \A w \in Vol : V[w].state = "unallocated" =>
                 /\ VolumesOK(Reallocated(X, c, w))
                 /\ \A i \in 1..(Len(s) - 1) : /\ FrameOK(s[i], Reallocated(X, c, w), w)
                                               /\ Opening(s[i]) => s[i].vol # w
<1> DEFINE u == s[Len(s)].vol
           top == s[Len(s)]
           W == Freed(X, c)
<1>1. Len(s) \in Nat \ {0} /\ Len(s) \in 1..Len(s) /\ FrameOK(top, V, c)
  BY EmptySeq DEF StackOK
<1>2. /\ W \in [Vol -> Context]
      /\ \A v \in Vol \ {c} : W[v] = X[v]
      /\ c \in Vol => W[c].state = "freed" /\ ~W[c].is_open /\ ~W[c].is_mounted
  BY FreedType
<1>3. X # V => u \in Vol
  BY <1>1 DEF Freeing, FrameOK
<1>4. \A v \in Vol \ {c} : W[v] = V[v] \/ (v = u /\ X # V /\ ~V[u].is_open /\ ~W[u].is_open
                                          /\ ~W[u].is_mounted)
  <2> SUFFICES ASSUME NEW v \in Vol \ {c}, X # V, v = u
               PROVE  ~V[u].is_open /\ ~W[u].is_open /\ ~W[u].is_mounted
    BY <1>2 DEF Freeing
  <2>1. ~V[u].is_open
    BY <1>1 DEF Freeing, FrameOK
  <2> QED
    BY <1>2, <2>1 DEF Freeing, VolumesOK, Context
<1>5. VolumesOK(W)
  BY <1>2, <1>4 DEF VolumesOK
<1>6. \A i \in 1..(Len(s) - 1) : Opening(s[i]) \/ Closing(s[i]) =>
         /\ s[i].vol \in Vol /\ V[s[i].vol].state # "unallocated"
         /\ s[i].vol # c => W[s[i].vol] = V[s[i].vol] /\ ~V[s[i].vol].is_open
  <2> SUFFICES ASSUME NEW i \in 1..(Len(s) - 1), Opening(s[i]) \/ Closing(s[i])
               PROVE  /\ s[i].vol \in Vol /\ V[s[i].vol].state # "unallocated"
                      /\ s[i].vol # c => W[s[i].vol] = V[s[i].vol] /\ ~V[s[i].vol].is_open
    OBVIOUS
  <2>1. i \in 1..Len(s) /\ i < Len(s) /\ FrameOK(s[i], V, c)
    BY <1>1 DEF StackOK
  <2>2. s[i].vol \in Vol /\ V[s[i].vol].state # "unallocated"
    BY <2>1 DEF FrameOK
  <2>3. s[i].vol # c => ~V[s[i].vol].is_open
    BY <2>1, <2>2 DEF FrameOK, VolumesOK
  <2>4. CASE s[i].vol # c /\ s[i].vol = u /\ X # V
    <3>1. V[u].state = "allocated" /\ (Opening(top) \/ Closing(top))
      BY <2>4 DEF Freeing
    <3>2. ~Closing(top) /\ ~Closing(s[i])
      BY <1>1, <2>1, <2>4, <3>1 DEF FrameOK
    <3> QED
      BY <1>1, <2>1, <2>4, <3>1, <3>2 DEF StackOK, Apart
  <2> QED
    BY <1>4, <2>2, <2>3, <2>4
<1>7. \A i \in 1..(Len(s) - 1) : FrameOK(s[i], V, c)
  BY <1>1 DEF StackOK
<1>8. \A i \in 1..(Len(s) - 1) : FrameOK(s[i], W, None)
  BY <1>2, <1>6, <1>7 DEF FrameOK
<1>9. ASSUME NEW w \in Vol, V[w].state = "unallocated"
      PROVE  /\ VolumesOK(Reallocated(X, c, w))
             /\ \A i \in 1..(Len(s) - 1) : /\ FrameOK(s[i], Reallocated(X, c, w), w)
                                           /\ Opening(s[i]) => s[i].vol # w
  <2> DEFINE Y == Reallocated(X, c, w)
  <2>1. /\ Y \in [Vol -> Context] /\ Y[w].state = "allocated" /\ ~Y[w].is_open
        /\ ~Y[w].is_mounted /\ \A v \in Vol \ {w} : Y[v] = W[v]
    BY <1>2 DEF Reallocated, Zeroed, Context
  <2>2. VolumesOK(Y)
    BY <1>5, <2>1 DEF VolumesOK
  <2>3. \A i \in 1..(Len(s) - 1) : Opening(s[i]) \/ Closing(s[i]) => s[i].vol # w
    BY <1>6, <1>9
  <2> HIDE DEF Y, W
  <2>4. ASSUME NEW i \in 1..(Len(s) - 1) PROVE FrameOK(s[i], Y, w)
    <3>1. FrameOK(s[i], W, None)
      BY <1>8
    <3>2. Opening(s[i]) \/ Closing(s[i]) => Y[s[i].vol] = W[s[i].vol] /\ s[i].vol \in Vol
      BY <1>6, <2>1, <2>3
    <3> QED
      BY <3>1, <3>2 DEF FrameOK
  <2> QED
    BY <2>2, <2>3, <2>4 DEF Y
<1> QED
  BY <1>5, <1>8, <1>9

------------------------------------------------------------------------------
(* What the steps of the handlers do to the stack *)

LEMMA InvFromParts ==
    RestOK' /\ VolumesOK(vol') /\ StackOK(stack', vol', current') => Inv'
BY DEF Inv, VolumesOK, StackOK

LEMMA Begun ==
    ASSUME Inv, NEW h \in Handler, NEW pc \in PC, NEW p \in Path \cup {None}, Begin(h, pc, p)
    PROVE  /\ stack' \in Seq(Frame) /\ stack \in Seq(Frame) /\ Len(stack) \in Nat
           /\ Len(stack') = Len(stack) + 1 /\ Len(stack') <= MaxDepth
           /\ stack'[Len(stack) + 1] = [h |-> h, pc |-> pc, vol |-> None, path |-> p]
           /\ \A i \in 1..Len(stack) : stack'[i] = stack[i]
           /\ stack # <<>> => Yields(stack[Len(stack)])
<1> DEFINE f == [h |-> h, pc |-> pc, vol |-> None, path |-> p]
<1>1. stack \in Seq(Frame) /\ Len(stack) \in Nat /\ Len(stack) < MaxDepth /\ f \in Frame
  BY LenProperties DEF Inv, RestOK, Begin, Frame
<1>2. stack' = Append(stack, f)
  BY DEF Begin
<1>3. stack # <<>> => Yields(stack[Len(stack)])
  BY DEF Begin, Dispatching, Top, Yields
<1> HIDE DEF f
<1>4. /\ stack' \in Seq(Frame) /\ Len(stack') = Len(stack) + 1 /\ stack'[Len(stack) + 1] = f
      /\ \A i \in 1..Len(stack) : stack'[i] = stack[i]
  BY <1>1, <1>2, Pushed
<1> QED
  BY <1>1, <1>3, <1>4 DEF f

LEMMA Returned ==
    ASSUME Inv, stack # <<>>, Return
    PROVE  /\ stack' \in Seq(Frame) /\ stack \in Seq(Frame) /\ Len(stack) \in Nat \ {0}
           /\ Len(stack') = Len(stack) - 1 /\ Len(stack') <= MaxDepth
           /\ \A i \in 1..(Len(stack) - 1) : stack'[i] = stack[i]
<1>1. stack \in Seq(Frame) /\ Len(stack) <= MaxDepth
  BY DEF Inv, RestOK
<1>2. stack' = SubSeq(stack, 1, Len(stack) - 1)
  BY DEF Return, Front
<1> QED
  BY <1>1, <1>2, Left

LEMMA Went ==
    ASSUME Inv, stack # <<>>, NEW pc \in PC,
           NEW v, \/ v = Top.vol /\ Goto(pc)
                  \/ /\ v = current
                     /\ stack' = [stack EXCEPT ![Len(stack)].vol = current,
                                               ![Len(stack)].pc = pc]
    PROVE  /\ stack' \in Seq(Frame) /\ stack \in Seq(Frame) /\ Len(stack) \in Nat \ {0}
           /\ Len(stack') = Len(stack) /\ Len(stack') <= MaxDepth
           /\ stack'[Len(stack)] = [Top EXCEPT !.vol = v, !.pc = pc]
           /\ \A i \in 1..(Len(stack) - 1) : stack'[i] = stack[i]
           /\ Top \in Frame
<1>1. /\ stack \in Seq(Frame) /\ Len(stack) <= MaxDepth /\ Top \in Frame
      /\ current \in Vol \cup {None}
  BY TopIsFrame DEF Inv, RestOK, Top
<1> DEFINE g == [Top EXCEPT !.vol = v, !.pc = pc]
<1>2. g \in Frame
  BY <1>1 DEF Frame
<1>3. stack' = [stack EXCEPT ![Len(stack)] = g]
  <2>1. CASE v = Top.vol /\ Goto(pc)
    <3>1. g = [Top EXCEPT !.pc = pc]
      BY <1>1, <2>1 DEF Frame
    <3>2. stack' = [stack EXCEPT ![Len(stack)] = [stack[Len(stack)] EXCEPT !.pc = pc]]
      BY <2>1 DEF Goto
    <3> QED
      BY <3>1, <3>2 DEF Top
  <2>2. CASE /\ v = current
             /\ stack' = [stack EXCEPT ![Len(stack)].vol = current, ![Len(stack)].pc = pc]
    BY <2>2 DEF Top
  <2> QED
    BY <2>1, <2>2
<1> HIDE DEF g
<1>4. /\ stack' \in Seq(Frame) /\ Len(stack') = Len(stack) /\ stack'[Len(stack)] = g
      /\ \A i \in 1..(Len(stack) - 1) : stack'[i] = stack[i]
  BY <1>1, <1>2, <1>3, Replaced
<1> QED
  BY <1>1, <1>4, TopIsFrame DEF g

------------------------------------------------------------------------------
(* A handler begins *)

\* A handler that begins with the volumes as they are.
LEMMA BeginKeeps ==
    ASSUME Inv, NEW h \in Handler, NEW pc \in PC, NEW p \in Path \cup {None}, Begin(h, pc, p),
           h = "open" => p # None, pc \in Steady => IsOpen, pc \in Steady \cup {"creating"},
           vol' \in [Vol -> Context], Quiet(vol, vol'),
           \A v \in Vol : vol'[v].is_mounted = vol[v].is_mounted,
           window' \in BOOLEAN, UNCHANGED <<current, g_vol, g_fuse, session>>,
           file' \in [Path -> Table \cup {Mixed, Unreadable}]
    PROVE  Inv'
<1>1. /\ stack' \in Seq(Frame) /\ stack \in Seq(Frame) /\ Len(stack) \in Nat
      /\ Len(stack') = Len(stack) + 1 /\ Len(stack') <= MaxDepth
      /\ stack'[Len(stack) + 1] = [h |-> h, pc |-> pc, vol |-> None, path |-> p]
      /\ \A i \in 1..Len(stack) : stack'[i] = stack[i]
      /\ stack # <<>> => Yields(stack[Len(stack)])
  BY Begun
<1>2. current' \in Vol \cup {None} /\ current' = current
  BY DEF Inv, RestOK
<1>3. RestOK'
  BY <1>1, <1>2 DEF Inv, RestOK, Quiet
<1>4. VolumesOK(vol')
  BY DEF Inv, VolumesOK, Quiet
<1>5. FrameOK(stack'[Len(stack) + 1], vol', current)
  BY <1>1 DEF FrameOK, Opening, Closing, Steady
<1>6. /\ stack'[Len(stack) + 1].pc \in Steady => current # None /\ vol'[current].is_open
      /\ stack # <<>> => Yields(stack[Len(stack)])
      /\ ~Opening(stack'[Len(stack) + 1]) /\ stack'[Len(stack) + 1].pc # "preparing"
  BY <1>1, <1>2 DEF Opening, Steady, IsOpen, Quiet, Inv, RestOK
<1>7. StackOK(stack', vol', current)
  <2>1. StackOK(stack, vol, current)
    BY DEF Inv
  <2>2. \A i \in 1..Len(stack) : stack'[i] = stack[i] /\ FrameOK(stack[i], vol', current)
    BY <1>1, <2>1, BelowKeeps
  <2> QED
    BY <1>1, <1>5, <1>6, <2>1, <2>2, TopPushed
<1> QED
  BY <1>2, <1>3, <1>4, <1>7, InvFromParts

LEMMA CreateKeeps ==
    ASSUME Inv, NEW p \in Path, on_create_volume_clicked(p)
    PROVE  Inv'
<1>1. /\ vol' \in [Vol -> Context] /\ Quiet(vol, vol')
      /\ \A v \in Vol : vol'[v].is_mounted = vol[v].is_mounted
  BY DEF on_create_volume_clicked, Inv, VolumesOK, Quiet, Context
<1>2. window' \in BOOLEAN /\ file' \in [Path -> Table \cup {Mixed, Unreadable}]
  BY DEF on_create_volume_clicked, Inv, RestOK
<1>3. "create" \in Handler /\ "creating" \in PC /\ "creating" \notin Steady
  BY DEF Handler, PC, Steady
<1>4. Begin("create", "creating", p) /\ UNCHANGED <<current, g_vol, g_fuse, session>>
  BY DEF on_create_volume_clicked
<1> QED
  BY <1>1, <1>2, <1>3, <1>4, BeginKeeps

\* A handler that works on the volume that is open.
LEMMA SteadyKeeps ==
    ASSUME Inv, NEW h \in Handler, NEW pc \in Steady, NEW p \in Path \cup {None}, Begin(h, pc, p),
           h = "open" => p # None, IsOpen,
           UNCHANGED <<window, current, vol, g_vol, g_fuse, session, file>>
    PROVE  Inv'
<1>1. /\ vol' \in [Vol -> Context] /\ Quiet(vol, vol')
      /\ \A v \in Vol : vol'[v].is_mounted = vol[v].is_mounted
  BY DEF Inv, VolumesOK, Quiet
<1>2. window' \in BOOLEAN /\ file' \in [Path -> Table \cup {Mixed, Unreadable}]
  BY DEF Inv, RestOK
<1>3. pc \in PC
  BY DEF PC, Steady
<1> QED
  BY <1>1, <1>2, <1>3, BeginKeeps

LEMMA OpenKeeps ==
    ASSUME Inv, NEW p \in Path, on_open_volume_clicked(p)
    PROVE  Inv'
<1>1. "open" \in Handler /\ p # None /\ {"detach", "closing"} \subseteq Steady /\ "preparing" \in PC
  BY DEF Handler, PC, Steady
<1>2. CASE IsOpen
  BY <1>1, <1>2, SteadyKeeps DEF on_open_volume_clicked
<1>3. CASE ~IsOpen
  <2>1. PICK v \in Vol : /\ vol[v].state = "unallocated" /\ Begin("open", "preparing", p)
                         /\ vol' = [vol EXCEPT ![v] = Zeroed("allocated")]
                         /\ current' = v
    BY <1>3 DEF on_open_volume_clicked, Unallocated
  <2> DEFINE f == [h |-> "open", pc |-> "preparing", vol |-> None, path |-> p]
  <2>2. /\ stack' \in Seq(Frame) /\ stack \in Seq(Frame) /\ Len(stack) \in Nat
        /\ Len(stack') = Len(stack) + 1 /\ Len(stack') <= MaxDepth
        /\ stack'[Len(stack) + 1] = f
        /\ \A i \in 1..Len(stack) : stack'[i] = stack[i]
        /\ stack # <<>> => Yields(stack[Len(stack)])
    BY <1>1, <2>1, Begun
  <2>3. /\ vol' \in [Vol -> Context] /\ vol'[v].state = "allocated" /\ ~vol'[v].is_open
        /\ ~vol'[v].is_mounted /\ \A x \in Vol \ {v} : vol'[x] = vol[x]
    BY <2>1 DEF Inv, VolumesOK, Zeroed, Context
  <2>4. RestOK'
    BY <2>1, <2>2, <2>3 DEF Inv, RestOK, on_open_volume_clicked
  <2>5. VolumesOK(vol')
    BY <2>3 DEF Inv, VolumesOK
  <2>6. StackOK(stack', vol', v)
    <3>1. ASSUME NEW i \in 1..Len(stack)
          PROVE  FrameOK(stack[i], vol', v) /\ (Opening(stack[i]) => stack[i].vol # v)
      <4>1. FrameOK(stack[i], vol, current)
        BY DEF Inv, StackOK
      <4>2. Opening(stack[i]) \/ Closing(stack[i]) =>
               /\ stack[i].vol \in Vol \ {v}
               /\ vol'[stack[i].vol] = vol[stack[i].vol]
               /\ ~vol[stack[i].vol].is_open
        BY <1>3, <2>1, <2>3, <4>1 DEF FrameOK, IsOpen, Inv, VolumesOK
      <4> QED
        BY <4>1, <4>2 DEF FrameOK
    <3>2. /\ FrameOK(f, vol', v) /\ f.pc \notin Steady /\ ~Opening(f)
      BY <1>1 DEF FrameOK, Opening, Closing, Steady
    <3>3. StackOK(stack, vol, current)
      BY DEF Inv
    <3> HIDE DEF f
    <3>4. \A i \in 1..Len(stack) :
             /\ stack'[i] = stack[i] /\ FrameOK(stack[i], vol', v)
             /\ Opening(stack[i]) => stack[i].vol # v
      BY <2>2, <3>1
    <3> QED
      BY <2>2, <3>2, <3>3, <3>4, TopPushed
  <2> QED
    BY <2>1, <2>4, <2>5, <2>6, InvFromParts
<1> QED
  BY <1>2, <1>3

LEMMA OthersBegin ==
    ASSUME Inv,
           \/ on_close_volume_clicked \/ on_mount_volume_clicked \/ on_unmount_volume_clicked
           \/ on_quit_clicked \/ close_window
    PROVE  Inv'
<1>1. /\ Handler = {"create", "open", "close", "mount", "unmount", "quit"}
      /\ {"detach", "closing", "choosing"} \subseteq Steady /\ None \in Path \cup {None}
  BY DEF Handler, Steady
<1>2. IsMounted => IsOpen
  BY DEF IsMounted, IsOpen, Inv, VolumesOK, RestOK
<1>3. CASE on_close_volume_clicked
  BY <1>1, <1>3, SteadyKeeps DEF on_close_volume_clicked
<1>4. CASE on_mount_volume_clicked
  BY <1>1, <1>4, SteadyKeeps DEF on_mount_volume_clicked
<1>5. CASE on_unmount_volume_clicked
  BY <1>1, <1>2, <1>5, SteadyKeeps DEF on_unmount_volume_clicked
<1>6. CASE window' = FALSE /\ UNCHANGED <<current, stack, vol, g_vol, g_fuse, session, file>>
  BY <1>6 DEF Inv, RestOK, VolumesOK, StackOK
<1>7. CASE on_quit_clicked
  BY <1>1, <1>6, <1>7, SteadyKeeps DEF on_quit_clicked
<1> QED
  BY <1>3, <1>4, <1>5, <1>6, <1>7 DEF close_window

------------------------------------------------------------------------------
(* A handler goes on, or returns *)

\* The state but for the stack and the volumes.
Outside == /\ window' \in BOOLEAN
           /\ g_vol' \in Vol \cup {None}
           /\ g_fuse' \in Thread \cup {None}
           /\ session' \in [Thread -> Session]
           /\ file' \in [Path -> Table \cup {Mixed, Unreadable}]

\* What keeps the parts of a volume the handlers that wait count on.
QuietVolumes == /\ vol' \in [Vol -> Context] /\ Quiet(vol, vol')
                /\ \A v \in Vol : vol'[v].is_mounted => vol[v].is_mounted \/ vol[v].is_open

LEMMA MountedIsQuiet ==
    ASSUME NEW V \in [Vol -> Context], NEW v \in Vol, NEW b \in BOOLEAN
    PROVE  LET W == [V EXCEPT ![v].is_mounted = b]
           IN  /\ W \in [Vol -> Context] /\ Quiet(V, W)
               /\ \A x \in Vol : W[x].is_mounted = IF x = v THEN b ELSE V[x].is_mounted
<1> DEFINE c == [V[v] EXCEPT !.is_mounted = b]
           W == [V EXCEPT ![v] = c]
<1>1. /\ c \in Context /\ c.is_mounted = b /\ c.is_open = V[v].is_open /\ c.state = V[v].state
      /\ c.keys = V[v].keys /\ c.cache = V[v].cache /\ c.path = V[v].path
  BY DEF Context
<1> HIDE DEF c
<1>2. /\ W \in [Vol -> Context] /\ W[v] = c /\ \A x \in Vol \ {v} : W[x] = V[x]
  BY <1>1
<1>3. Quiet(V, W) /\ \A x \in Vol : W[x].is_mounted = IF x = v THEN b ELSE V[x].is_mounted
  BY <1>1, <1>2 DEF Quiet
<1> QED
  BY <1>2, <1>3 DEF c

LEMMA QuietVolumesOK ==
    ASSUME Inv, QuietVolumes, UNCHANGED current
    PROVE  /\ VolumesOK(vol') /\ current' = current /\ current \in Vol \cup {None}
           /\ current' # None => vol'[current'].state = "allocated"
BY DEF Inv, RestOK, VolumesOK, QuietVolumes, Quiet

LEMMA PopKeeps ==
    ASSUME Inv, stack # <<>>, Return, UNCHANGED current, QuietVolumes, Outside
    PROVE  Inv'
<1>1. /\ stack' \in Seq(Frame) /\ stack \in Seq(Frame) /\ Len(stack) \in Nat \ {0}
      /\ Len(stack') = Len(stack) - 1 /\ Len(stack') <= MaxDepth
      /\ \A i \in 1..(Len(stack) - 1) : stack'[i] = stack[i]
  BY Returned
<1>2. /\ VolumesOK(vol') /\ current' = current /\ current \in Vol \cup {None}
      /\ current' # None => vol'[current'].state = "allocated"
  BY QuietVolumesOK
<1>3. RestOK'
  BY <1>1, <1>2 DEF Inv, RestOK, Outside
<1>4. StackOK(stack', vol', current)
  <2>1. StackOK(stack, vol, current) /\ Quiet(vol, vol')
    BY DEF Inv, QuietVolumes
  <2>2. \A i \in 1..(Len(stack) - 1) : stack'[i] = stack[i] /\ FrameOK(stack[i], vol', current)
    BY SMTT(20), <1>1, <2>1, BelowKeeps
  <2> QED
    BY <1>1, <2>1, <2>2, TopLeft
<1> QED
  BY <1>2, <1>3, <1>4, InvFromParts

LEMMA GoKeeps ==
    ASSUME Inv, stack # <<>>, UNCHANGED current, QuietVolumes, Outside,
           NEW pc \in PC \ {"preparing", "reading", "unlocked", "caching", "read"},
           NEW v, \/ v = Top.vol /\ Goto(pc)
                  \/ /\ v = current
                     /\ stack' = [stack EXCEPT ![Len(stack)].vol = current,
                                               ![Len(stack)].pc = pc],
           pc \in Steady => current # None /\ vol[current].is_open,
           pc \in {"flushing", "destroying"} =>
              /\ v \in Vol /\ vol[v].state # "unallocated"
              /\ vol[v].state = "allocated" => vol[v].is_open /\ current = v
    PROVE  Inv'
<1> DEFINE g == [Top EXCEPT !.vol = v, !.pc = pc]
<1>1. /\ stack' \in Seq(Frame) /\ stack \in Seq(Frame) /\ Len(stack) \in Nat \ {0}
      /\ Len(stack') = Len(stack) /\ Len(stack') <= MaxDepth
      /\ stack'[Len(stack)] = g /\ Top \in Frame
      /\ \A i \in 1..(Len(stack) - 1) : stack'[i] = stack[i]
  BY Went
<1>2. /\ VolumesOK(vol') /\ current' = current /\ current \in Vol \cup {None}
      /\ current' # None => vol'[current'].state = "allocated"
  BY QuietVolumesOK
<1>3. RestOK'
  BY <1>1, <1>2 DEF Inv, RestOK, Outside
<1>4. StackOK(stack, vol, current) /\ Quiet(vol, vol') /\ Len(stack) \in 1..Len(stack)
  BY <1>1 DEF Inv, QuietVolumes
<1>5. FrameOK(Top, vol, current)
  BY <1>4 DEF StackOK, Top
<1>6. g.h = Top.h /\ g.path = Top.path /\ g.vol = v /\ g.pc = pc
  BY <1>1 DEF Frame
<1>7. FrameOK(g, vol', current) /\ ~Opening(g) /\ g.pc # "preparing"
  BY <1>4, <1>5, <1>6 DEF FrameOK, Opening, Closing, Quiet
<1>8. g.pc \in Steady => current # None /\ vol'[current].is_open
  BY <1>2, <1>4, <1>6 DEF Quiet
<1>9. StackOK(stack', vol', current)
  <2>1. \A i \in 1..(Len(stack) - 1) : stack'[i] = stack[i] /\ FrameOK(stack[i], vol', current)
    BY <1>1, <1>4, BelowKeeps
  <2> HIDE DEF g
  <2> QED
    BY <1>1, <1>4, <1>7, <1>8, <2>1, TopReplaced
<1> QED
  BY <1>2, <1>3, <1>9, InvFromParts

LEMMA CreatedKeeps ==
    ASSUME Inv, volume_created
    PROVE  Inv'
<1>1. QuietVolumes
  BY DEF Inv, VolumesOK, QuietVolumes, Quiet, volume_created
<1>2. Outside
  BY DEF Inv, RestOK, Outside, volume_created
<1> QED
  BY <1>1, <1>2, PopKeeps DEF volume_created, At

LEMMA StopKeeps ==
    ASSUME Inv, stop_fuse_mount
    PROVE  Inv'
<1>1. QuietVolumes /\ UNCHANGED current
  BY DEF Inv, VolumesOK, QuietVolumes, Quiet, stop_fuse_mount
<1>2. Outside
  BY DEF Inv, RestOK, Outside, stop_fuse_mount, Stopped, Refused, Session
<1>3. stack # <<>> /\ Top.pc \in Steady /\ "joining" \in PC \cap Steady /\ Goto("joining")
  BY DEF stop_fuse_mount, Steady, PC
<1>4. current # None /\ vol[current].is_open
  BY <1>3 DEF Inv, StackOK, Top
<1> QED
  BY <1>1, <1>2, <1>3, <1>4, GoKeeps

LEMMA UnmountKeeps ==
    ASSUME Inv, volume_unmount
    PROVE  Inv'
<1>1. stack # <<>> /\ Top.pc \in Steady /\ {"choosing", "closing"} \subseteq PC \cap Steady
  BY DEF volume_unmount, Steady, PC
<1>2. current # None /\ vol[current].is_open
  BY <1>1 DEF Inv, StackOK, Top
<1>3. QuietVolumes /\ UNCHANGED current
  <2>1. vol \in [Vol -> Context] /\ current \in Vol
    BY <1>2 DEF Inv, RestOK, VolumesOK
  <2> QED
    BY <2>1, MountedIsQuiet DEF QuietVolumes, volume_unmount
<1>4. Outside
  BY DEF Inv, RestOK, Outside, volume_unmount
<1>5. CASE Return
  BY <1>1, <1>3, <1>4, <1>5, PopKeeps
<1>6. ASSUME NEW pc \in {"choosing", "closing"}, Goto(pc)
      PROVE  Inv'
  <2>1. pc \in PC \ {"preparing", "reading", "unlocked", "caching", "read"}
    BY DEF PC
  <2>2. pc \notin {"flushing", "destroying"}
    OBVIOUS
  <2> QED
    BY <1>1, <1>2, <1>3, <1>4, <1>6, <2>1, <2>2, GoKeeps
<1> QED
  BY <1>5, <1>6 DEF volume_unmount

LEMMA WriteBackKeeps ==
    ASSUME Inv, write_back_table
    PROVE  Inv'
<1>1. stack # <<>> /\ Top.pc \in Steady /\ "flushing" \in PC \ Steady
  BY DEF write_back_table, At, Steady, PC
<1>2. /\ current \in Vol /\ vol[current].is_open /\ vol[current].state = "allocated"
  BY <1>1 DEF Inv, StackOK, RestOK, Top
<1>3. QuietVolumes /\ UNCHANGED current
  BY <1>2 DEF Inv, RestOK, VolumesOK, Context, QuietVolumes, Quiet, write_back_table
<1>4. Outside
  BY DEF Inv, RestOK, Outside, write_back_table
<1>5. stack' = [stack EXCEPT ![Len(stack)].vol = current, ![Len(stack)].pc = "flushing"]
  BY DEF write_back_table
<1> QED
  BY <1>1, <1>2, <1>3, <1>4, <1>5, GoKeeps

LEMMA StartKeeps ==
    ASSUME Inv, start_fuse_mount
    PROVE  Inv'
<1>1. stack # <<>> /\ Top.pc \in Steady /\ Return /\ UNCHANGED current
  BY DEF start_fuse_mount, At, Steady
<1>2. current \in Vol /\ vol[current].is_open
  BY <1>1 DEF Inv, StackOK, RestOK, Top
<1>3. QuietVolumes
  <2>1. vol \in [Vol -> Context]
    BY DEF Inv, VolumesOK
  <2>2. UNCHANGED vol \/ vol' = [vol EXCEPT ![current].is_mounted = TRUE]
    BY DEF start_fuse_mount
  <2>3. CASE UNCHANGED vol
    BY <2>1, <2>3 DEF QuietVolumes, Quiet
  <2>4. CASE vol' = [vol EXCEPT ![current].is_mounted = TRUE]
    BY <1>2, <2>1, <2>4, MountedIsQuiet DEF QuietVolumes
  <2> QED
    BY <2>2, <2>3, <2>4
<1>4. Outside
  BY <1>2 DEF Inv, RestOK, Outside, start_fuse_mount, Session
<1> QED
  BY <1>1, <1>3, <1>4, PopKeeps

------------------------------------------------------------------------------
(* volume_close returns *)

\* The handler returns after it freed the current volume.
LEMMA GiveUpKeeps ==
    ASSUME Inv, stack # <<>>, Return, Outside,
           NEW X \in [Vol -> Context], Freeing(stack, vol, current, X),
           vol' = Freed(X, current), current' = None
    PROVE  Inv'
<1>1. /\ stack' \in Seq(Frame) /\ stack \in Seq(Frame) /\ Len(stack) \in Nat \ {0}
      /\ Len(stack') = Len(stack) - 1 /\ Len(stack') <= MaxDepth
      /\ \A i \in 1..(Len(stack) - 1) : stack'[i] = stack[i]
  BY Returned
<1>2. current \in Vol \cup {None} /\ VolumesOK(vol) /\ StackOK(stack, vol, current)
  BY DEF Inv, RestOK
<1>3. /\ VolumesOK(vol')
      /\ \A i \in 1..(Len(stack) - 1) : FrameOK(stack[i], vol', None)
  BY <1>1, <1>2, FreeingKeeps
<1>4. RestOK'
  BY <1>1 DEF RestOK, Outside
<1>5. StackOK(stack', vol', None)
  <2>1. \A i \in 1..(Len(stack) - 1) : Opening(stack[i]) => None # stack[i].vol
    BY <1>3 DEF FrameOK
  <2> QED
    BY <1>1, <1>2, <1>3, <2>1, TopLeft
<1> QED
  BY <1>3, <1>4, <1>5, InvFromParts

\* on_open_volume_clicked frees the current volume and allocates the next one.
LEMMA NextOneKeeps ==
    ASSUME Inv, stack # <<>>, Outside,
           NEW X \in [Vol -> Context], Freeing(stack, vol, current, X),
           Allocated(Freed(X, current))
    PROVE  Inv'
<1>1. PICK w \in Vol : /\ vol[w].state = "unallocated"
                       /\ vol' = Reallocated(X, current, w) /\ current' = w
                       /\ Goto("preparing")
  BY DEF Allocated, Unallocated, Reallocated
<1> DEFINE g == [Top EXCEPT !.vol = Top.vol, !.pc = "preparing"]
<1>2. /\ stack' \in Seq(Frame) /\ stack \in Seq(Frame) /\ Len(stack) \in Nat \ {0}
      /\ Len(stack') = Len(stack) /\ Len(stack') <= MaxDepth
      /\ stack'[Len(stack)] = g /\ Top \in Frame
      /\ \A i \in 1..(Len(stack) - 1) : stack'[i] = stack[i]
  <2>1. "preparing" \in PC
    BY DEF PC
  <2> QED
    BY <1>1, <2>1, Went
<1>3. current \in Vol \cup {None} /\ VolumesOK(vol) /\ StackOK(stack, vol, current)
  BY DEF Inv, RestOK
<1>4. /\ VolumesOK(vol')
      /\ \A i \in 1..(Len(stack) - 1) : /\ FrameOK(stack[i], vol', w)
                                        /\ Opening(stack[i]) => stack[i].vol # w
  BY SMTT(20), <1>1, <1>2, <1>3, FreeingKeeps
<1>5. vol'[w].state = "allocated"
  <2>1. Freed(X, current) \in [Vol -> Context]
    BY <1>3, FreedType
  <2> QED
    BY <1>1, <2>1 DEF Reallocated, Zeroed
<1>6. RestOK'
  BY <1>1, <1>2, <1>5 DEF RestOK, Outside
<1>7. FrameOK(g, vol', w) /\ ~Opening(g) /\ g.pc \notin Steady /\ g.pc = "preparing"
  <2>1. Len(stack) \in 1..Len(stack)
    BY <1>2
  <2>2. FrameOK(Top, vol, current)
    BY <1>3, <2>1 DEF StackOK, Top
  <2>3. g.pc = "preparing" /\ g.h = Top.h /\ g.path = Top.path
    BY <1>2 DEF Frame
  <2> QED
    BY <2>2, <2>3 DEF FrameOK, Opening, Closing, Steady
<1>8. StackOK(stack', vol', w)
  <2>1. \A i \in 1..(Len(stack) - 1) :
           /\ stack'[i] = stack[i] /\ FrameOK(stack[i], vol', w)
           /\ Opening(stack[i]) => stack[i].vol # w
    BY <1>2, <1>4
  <2>2. /\ FrameOK(stack'[Len(stack)], vol', w)
        /\ ~Opening(stack'[Len(stack)]) /\ stack'[Len(stack)].pc \notin Steady
    BY <1>2, <1>7
  <2> HIDE DEF g
  <2> QED
    BY <1>2, <1>3, <2>1, <2>2, TopReplaced
<1> QED
  BY <1>1, <1>4, <1>6, <1>8, InvFromParts

LEMMA AfterCloseKeeps ==
    ASSUME Inv, stack # <<>>, Top.h \in {"open", "close", "quit"},
           NEW ok \in BOOLEAN, NEW X \in [Vol -> Context], Freeing(stack, vol, current, X),
           AfterClose(ok, X), ~ok => Quiet(vol, X),
           \A v \in Vol : X[v].is_mounted => vol[v].is_mounted,
           UNCHANGED <<g_vol, g_fuse, session>>,
           file' \in [Path -> Table \cup {Mixed, Unreadable}]
    PROVE  Inv'
<1>1. Outside
  BY DEF Inv, RestOK, Outside, AfterClose
<1>2. CASE Top.h = "open"
  BY <1>1, <1>2, NextOneKeeps DEF AfterClose
<1>3. CASE Top.h = "quit" \/ (Top.h = "close" /\ ok)
  BY <1>1, <1>3, GiveUpKeeps DEF AfterClose
<1>4. CASE Top.h = "close" /\ ~ok
  <2>1. vol' = X /\ UNCHANGED current /\ Return
    BY <1>4 DEF AfterClose
  <2>2. QuietVolumes
    BY <1>4, <2>1 DEF QuietVolumes
  <2> QED
    BY <1>1, <2>1, <2>2, PopKeeps
<1> QED
  BY <1>2, <1>3, <1>4

\* The volume that volume_close was given.
LEMMA ClosingTop ==
    ASSUME Inv, stack # <<>>, Top.pc \in {"flushing", "destroying"}, InUse
    PROVE  /\ Closing(Top) /\ ~Opening(Top) /\ Top.vol \in Vol /\ vol[Top.vol].is_open
           /\ current = Top.vol /\ vol \in [Vol -> Context] /\ vol[Top.vol].path \in Path
           /\ file \in [Path -> Table \cup {Mixed, Unreadable}]
<1>1. Len(stack) \in 1..Len(stack) /\ StackOK(stack, vol, current)
  BY EmptySeq DEF Inv, RestOK
<1>2. FrameOK(Top, vol, current)
  BY <1>1 DEF StackOK, Top
<1>3. vol \in [Vol -> Context] /\ file \in [Path -> Table \cup {Mixed, Unreadable}]
  BY DEF Inv, RestOK, VolumesOK
<1>4. Closing(Top) /\ ~Opening(Top) /\ Top.vol \in Vol /\ vol[Top.vol].is_open /\ current = Top.vol
  BY <1>2 DEF FrameOK, Closing, Opening, InUse
<1>5. vol[Top.vol].path # None /\ vol[Top.vol] \in Context
  BY <1>3, <1>4 DEF Inv, VolumesOK
<1> QED
  BY <1>3, <1>4, <1>5 DEF Context

LEMMA ErredContext ==
    ASSUME NEW c \in Context
    PROVE  LET d == [c EXCEPT !.error = TRUE]
           IN  /\ d \in Context /\ d.state = c.state /\ d.is_open = c.is_open
               /\ d.is_mounted = c.is_mounted /\ d.keys = c.keys /\ d.cache = c.cache
               /\ d.path = c.path
BY DEF Context

LEMMA ClosedContext ==
    ASSUME NEW c \in Context
    PROVE  LET d == [c EXCEPT !.is_mounted = FALSE, !.cache = FALSE,
                              !.is_open = FALSE, !.keys = FALSE]
           IN  /\ d \in Context /\ d.state = c.state /\ ~d.is_open /\ ~d.is_mounted
               /\ ~d.keys /\ d.error = c.error
BY DEF Context

LEMMA FlushKeeps ==
    ASSUME Inv, flush
    PROVE  Inv'
<1> DEFINE v == Top.vol
<1>1. stack # <<>> /\ Top.h \in {"open", "close", "quit"} /\ Top.pc = "flushing" /\ InUse
  BY DEF flush, At
<1>2. /\ Closing(Top) /\ v \in Vol /\ vol[v].is_open /\ current = v
      /\ vol \in [Vol -> Context] /\ vol[v].path \in Path
      /\ file \in [Path -> Table \cup {Mixed, Unreadable}]
  BY <1>1, ClosingTop
<1>3. /\ PartlyFlushedTo(v) \subseteq Table \cup {Mixed, Unreadable}
      /\ FlushedTo(v) \in PartlyFlushedTo(v)
  BY <1>2 DEF PartlyFlushedTo, FlushedTo, Context
<1>4. PICK x \in PartlyFlushedTo(v) : file' = [file EXCEPT ![vol[v].path] = x]
  BY <1>3 DEF flush
<1>5. file' \in [Path -> Table \cup {Mixed, Unreadable}]
  BY <1>2, <1>3, <1>4
<1>6. UNCHANGED <<g_vol, g_fuse, session>>
  BY DEF flush
<1>7. CASE Goto("destroying") /\ UNCHANGED <<window, current, vol>>
  <2>1. QuietVolumes /\ Outside
    BY <1>2, <1>5, <1>6, <1>7 DEF QuietVolumes, Quiet, Outside, Inv, RestOK
  <2>2. "destroying" \in PC \ {"preparing", "reading", "unlocked", "caching", "read"}
        /\ "destroying" \notin Steady
    BY DEF PC, Steady
  <2>3. vol[v].state = "allocated"
    BY <1>1 DEF InUse
  <2> QED
    BY <1>1, <1>2, <1>7, <2>1, <2>2, <2>3, GoKeeps
<1>8. CASE AfterClose(FALSE, [vol EXCEPT ![v].error = TRUE])
  <2> DEFINE X == [vol EXCEPT ![v].error = TRUE]
             c == [vol[v] EXCEPT !.error = TRUE]
  <2>1. /\ c \in Context /\ c.state = vol[v].state /\ c.is_open = vol[v].is_open
        /\ c.is_mounted = vol[v].is_mounted
        /\ c.keys = vol[v].keys /\ c.cache = vol[v].cache /\ c.path = vol[v].path
    <3>1. vol[v] \in Context
      BY <1>2
    <3> QED
      BY <3>1, ErredContext
  <2>2. X = [vol EXCEPT ![v] = c]
    OBVIOUS
  <2> HIDE DEF X, c
  <2>3. X \in [Vol -> Context] /\ X[v] = c /\ \A y \in Vol \ {v} : X[y] = vol[y]
    BY <1>2, <2>1, <2>2
  <2>4. Quiet(vol, X) /\ \A y \in Vol : X[y].is_mounted => vol[y].is_mounted
    BY <2>1, <2>3 DEF Quiet
  <2>5. Freeing(stack, vol, current, X)
    BY <1>1, <1>2, <2>1, <2>3 DEF Freeing, Top, InUse
  <2>6. AfterClose(FALSE, X)
    BY <1>8 DEF X
  <2> QED
    BY <1>1, <1>5, <1>6, <2>3, <2>4, <2>5, <2>6, AfterCloseKeeps
<1> QED
  BY <1>7, <1>8 DEF flush

LEMMA DestroyKeeps ==
    ASSUME Inv, destroy
    PROVE  Inv'
<1> DEFINE v == Top.vol
<1>1. stack # <<>> /\ Top.h \in {"open", "close", "quit"} /\ Top.pc = "destroying" /\ InUse
  BY DEF destroy, At
<1>2. /\ Closing(Top) /\ v \in Vol /\ vol[v].is_open /\ current = v
      /\ vol \in [Vol -> Context]
      /\ file \in [Path -> Table \cup {Mixed, Unreadable}]
  BY <1>1, ClosingTop
<1> DEFINE c == [vol[v] EXCEPT !.is_mounted = FALSE, !.cache = FALSE,
                               !.is_open = FALSE, !.keys = FALSE]
           X == [vol EXCEPT ![Top.vol].is_mounted = FALSE, ![Top.vol].cache = FALSE,
                            ![Top.vol].is_open = FALSE, ![Top.vol].keys = FALSE]
<1>3. c \in Context /\ c.state = vol[v].state /\ ~c.is_open /\ ~c.is_mounted
  <2>1. vol[v] \in Context
    BY <1>2
  <2> QED
    BY <2>1, ClosedContext
<1>4. X = [vol EXCEPT ![v] = c]
  BY <1>2
<1>5. AfterClose(TRUE, X) /\ UNCHANGED <<g_vol, g_fuse, session, file>>
  BY DEF destroy
<1> HIDE DEF X, c
<1>6. X \in [Vol -> Context] /\ X[v] = c /\ \A y \in Vol \ {v} : X[y] = vol[y]
  BY <1>2, <1>3, <1>4
<1>7. \A y \in Vol : X[y].is_mounted => vol[y].is_mounted
  BY <1>3, <1>6
<1>8. Freeing(stack, vol, current, X)
  BY <1>1, <1>2, <1>3, <1>6 DEF Freeing, Top, InUse
<1> QED
  BY <1>1, <1>2, <1>5, <1>6, <1>7, <1>8, AfterCloseKeeps

------------------------------------------------------------------------------
(* volume_open *)

LEMMA OpenFailedKeeps ==
    ASSUME Inv, stack # <<>>, UNCHANGED <<window, g_vol, g_fuse, session, file>>,
           NEW X \in [Vol -> Context], Freeing(stack, vol, current, X), OpenFailed(X)
    PROVE  Inv'
<1>1. Outside
  BY DEF Inv, RestOK, Outside
<1> QED
  BY <1>1, GiveUpKeeps DEF OpenFailed

\* The volume that volume_open was given.
LEMMA OpeningTop ==
    ASSUME Inv, stack # <<>>, Opening(Top), InUse
    PROVE  /\ Top.vol \in Vol /\ vol \in [Vol -> Context] /\ vol[Top.vol] \in Context
           /\ FrameOK(Top, vol, current) /\ vol[Top.vol].state = "allocated"
           /\ vol[Top.vol].path \in Path
           /\ \A i \in 1..(Len(stack) - 1) : Opening(stack[i]) => stack[i].vol # Top.vol
<1>1. Len(stack) \in Nat \ {0} /\ StackOK(stack, vol, current)
  BY EmptySeq DEF Inv, RestOK
<1>2. Len(stack) \in 1..Len(stack)
  BY <1>1
<1>3. FrameOK(Top, vol, current)
  BY <1>1, <1>2 DEF StackOK, Top
<1>4. /\ Top.vol \in Vol /\ vol \in [Vol -> Context] /\ vol[Top.vol].state = "allocated"
      /\ vol[Top.vol].path # None
  BY <1>3 DEF FrameOK, InUse, Inv, VolumesOK
<1>5. vol[Top.vol] \in Context
  BY <1>4
<1>6. ASSUME NEW i \in 1..(Len(stack) - 1), Opening(stack[i])
      PROVE  stack[i].vol # Top.vol
  <2>1. i \in 1..Len(stack) /\ i < Len(stack)
    BY <1>1
  <2> QED
    BY <1>1, <1>2, <1>6, <2>1 DEF StackOK, Apart, Top
<1> QED
  BY <1>3, <1>4, <1>5, <1>6 DEF Context

\* volume_open advances, or fails, on its volume.
LEMMA ProgressOne ==
    ASSUME Inv, stack # <<>>, Opening(Top), InUse,
           NEW c \in Context, c.state = "allocated", vol' = [vol EXCEPT ![Top.vol] = c],
           vol[Top.vol].is_open => c.is_open, c.path = vol[Top.vol].path,
           c.is_open => c.keys /\ c.cache, c.is_mounted => c.is_open, UNCHANGED current
    PROVE  /\ VolumesOK(vol') /\ vol'[Top.vol] = c /\ Top.vol \in Vol
           /\ current' # None => vol'[current'].state = "allocated"
           /\ \A i \in 1..(Len(stack) - 1) : /\ FrameOK(stack[i], vol', current)
                                             /\ Opening(stack[i]) => stack[i].vol # Top.vol
<1>1. /\ Top.vol \in Vol /\ vol \in [Vol -> Context] /\ vol[Top.vol] \in Context
      /\ vol[Top.vol].state = "allocated" /\ vol[Top.vol].path \in Path
  BY OpeningTop
<1>2. vol' \in [Vol -> Context] /\ vol'[Top.vol] = c /\ \A v \in Vol \ {Top.vol} : vol'[v] = vol[v]
  BY <1>1
<1>3. VolumesOK(vol')
  BY <1>1, <1>2 DEF Inv, VolumesOK
<1>4. current' # None => vol'[current'].state = "allocated"
  BY <1>1, <1>2 DEF Inv, RestOK
<1>5. \A i \in 1..(Len(stack) - 1) : /\ FrameOK(stack[i], vol', current)
                                     /\ Opening(stack[i]) => stack[i].vol # Top.vol
  <2> SUFFICES ASSUME NEW i \in 1..(Len(stack) - 1)
               PROVE  /\ FrameOK(stack[i], vol', current)
                      /\ Opening(stack[i]) => stack[i].vol # Top.vol
    OBVIOUS
  <2>1. Len(stack) \in Nat /\ StackOK(stack, vol, current)
    BY EmptySeq DEF Inv, RestOK
  <2>2. i \in 1..Len(stack)
    BY <2>1
  <2>3. FrameOK(stack[i], vol, current) /\ (Opening(stack[i]) => stack[i].vol # Top.vol)
    BY <2>1, <2>2, OpeningTop DEF StackOK
  <2>4. CASE stack[i].vol = Top.vol
    BY <1>1, <1>2, <2>3, <2>4 DEF FrameOK, Closing
  <2>5. CASE stack[i].vol # Top.vol
    BY <1>2, <2>3, <2>5 DEF FrameOK
  <2> QED
    BY <2>3, <2>4, <2>5
<1> QED
  BY <1>1, <1>2, <1>3, <1>4, <1>5

\* A handler takes its volume to the next point of volume_open.
LEMMA AdvanceStack ==
    ASSUME Inv, stack # <<>>, NEW v, NEW pc \in {"reading", "unlocked", "caching", "read"},
           \/ v = Top.vol /\ Goto(pc)
           \/ /\ v = current
              /\ stack' = [stack EXCEPT ![Len(stack)].vol = current, ![Len(stack)].pc = pc],
           v \in Vol, vol'[v].state = "allocated",
           vol'[v].is_open => current = v, vol'[v].path # None,
           pc # "reading" => vol'[v].keys, pc \in {"caching", "read"} => vol'[v].cache,
           \A i \in 1..(Len(stack) - 1) : /\ FrameOK(stack[i], vol', current)
                                          /\ Opening(stack[i]) => stack[i].vol # v
    PROVE  /\ StackOK(stack', vol', current)
           /\ stack' \in Seq(Frame) /\ Len(stack') <= MaxDepth
<1> DEFINE g == [Top EXCEPT !.vol = v, !.pc = pc]
<1>1. /\ stack' \in Seq(Frame) /\ stack \in Seq(Frame) /\ Len(stack) \in Nat \ {0}
      /\ Len(stack') = Len(stack) /\ Len(stack') <= MaxDepth
      /\ stack'[Len(stack)] = g /\ Top \in Frame
      /\ \A i \in 1..(Len(stack) - 1) : stack'[i] = stack[i]
  <2>1. pc \in PC
    BY DEF PC
  <2> QED
    BY <2>1, Went
<1>2. StackOK(stack, vol, current) /\ Len(stack) \in 1..Len(stack)
  BY <1>1 DEF Inv
<1>3. FrameOK(Top, vol, current)
  BY <1>2 DEF StackOK, Top
<1>4. g.h = Top.h /\ g.path = Top.path /\ g.vol = v /\ g.pc = pc
  BY <1>1 DEF Frame
<1>5. FrameOK(g, vol', current) /\ g.pc \notin Steady /\ g.pc # "preparing"
  BY <1>3, <1>4 DEF FrameOK, Opening, Closing, Steady
<1>6. StackOK(stack', vol', current)
  <2>1. \A i \in 1..(Len(stack) - 1) :
           /\ stack'[i] = stack[i] /\ FrameOK(stack[i], vol', current)
           /\ Opening(stack[i]) => stack[i].vol # v
    BY <1>1
  <2>2. /\ FrameOK(stack'[Len(stack)], vol', current) /\ stack'[Len(stack)].vol = v
        /\ stack'[Len(stack)].pc # "preparing" /\ stack'[Len(stack)].pc \notin Steady
    BY <1>1, <1>4, <1>5
  <2> HIDE DEF g
  <2> QED
    BY <1>1, <1>2, <2>1, <2>2, TopReplaced
<1> QED
  BY <1>1, <1>6

LEMMA OpenFileKeeps ==
    ASSUME Inv, open_file
    PROVE  Inv'
<1>1. /\ stack # <<>> /\ Top.h = "open" /\ Top.pc = "preparing" /\ current \in Vol
      /\ vol \in [Vol -> Context] /\ UNCHANGED <<window, g_vol, g_fuse, session, file>>
      /\ stack \in Seq(Frame) /\ StackOK(stack, vol, current) /\ vol[current].state = "allocated"
  BY DEF open_file, At, Inv, RestOK, VolumesOK
<1>2. CASE OpenFailed(vol)
  BY <1>1, <1>2, OpenFailedKeeps DEF Freeing
<1>3. CASE /\ vol' = [vol EXCEPT ![current].path = Top.path]
           /\ stack' = [stack EXCEPT ![Len(stack)].vol = current, ![Len(stack)].pc = "reading"]
           /\ UNCHANGED current
  <2>1. Len(stack) \in Nat \ {0} /\ Top \in Frame
    BY <1>1, TopIsFrame DEF Top
  <2>2. Len(stack) \in 1..Len(stack)
    BY <2>1
  <2>3. FrameOK(Top, vol, current)
    BY <1>1, <2>2 DEF StackOK, Top
  <2>4. Top.path \in Path
    BY <1>1, <2>1, <2>3 DEF FrameOK, Frame
  <2> DEFINE c == [vol[current] EXCEPT !.path = Top.path]
  <2>5. /\ c \in Context /\ c.state = vol[current].state /\ c.is_open = vol[current].is_open
        /\ c.is_mounted = vol[current].is_mounted /\ c.keys = vol[current].keys
        /\ c.cache = vol[current].cache /\ c.path = Top.path
    <3>1. vol[current] \in Context
      BY <1>1
    <3> QED
      BY <2>4, <3>1 DEF Context
  <2>6. vol' = [vol EXCEPT ![current] = c]
    BY <1>3
  <2> HIDE DEF c
  <2>7. /\ vol' \in [Vol -> Context] /\ vol'[current] = c
        /\ \A v \in Vol \ {current} : vol'[v] = vol[v]
    BY <1>1, <2>5, <2>6
  <2>8. VolumesOK(vol')
    BY <2>4, <2>5, <2>7 DEF Inv, VolumesOK
  <2>9. \A i \in 1..(Len(stack) - 1) : /\ FrameOK(stack[i], vol', current)
                                       /\ Opening(stack[i]) => stack[i].vol # current
    <3> SUFFICES ASSUME NEW i \in 1..(Len(stack) - 1)
                 PROVE  /\ FrameOK(stack[i], vol', current)
                        /\ Opening(stack[i]) => stack[i].vol # current
      OBVIOUS
    <3>1. i \in 1..Len(stack) /\ i < Len(stack)
      BY <2>1
    <3>2. FrameOK(stack[i], vol, current) /\ (Opening(stack[i]) => stack[i].vol # current)
      BY <1>1, <2>2, <3>1 DEF StackOK, Apart, Top
    <3>3. CASE stack[i].vol = current
      BY <2>5, <2>7, <3>2, <3>3 DEF FrameOK, Closing
    <3>4. CASE stack[i].vol # current
      BY <2>7, <3>2, <3>4 DEF FrameOK
    <3> QED
      BY <3>2, <3>3, <3>4
  <2>10. StackOK(stack', vol', current) /\ stack' \in Seq(Frame) /\ Len(stack') <= MaxDepth
    <3>1. vol'[current].state = "allocated" /\ vol'[current].path # None
      BY <1>1, <2>4, <2>5, <2>7
    <3> QED
      BY <1>1, <1>3, <2>9, <3>1, AdvanceStack
  <2>11. RestOK'
    BY <1>1, <1>3, <2>5, <2>7, <2>10 DEF Inv, RestOK
  <2> QED
    BY <1>3, <2>8, <2>10, <2>11, InvFromParts
<1> QED
  BY <1>2, <1>3 DEF open_file

\* A step of volume_open that succeeds.
LEMMA AdvanceKeeps ==
    ASSUME Inv, stack # <<>>, Opening(Top), InUse,
           NEW c \in Context, c.state = "allocated", vol' = [vol EXCEPT ![Top.vol] = c],
           c.is_open = vol[Top.vol].is_open, c.path = vol[Top.vol].path,
           c.is_mounted = vol[Top.vol].is_mounted,
           vol[Top.vol].keys => c.keys, vol[Top.vol].cache => c.cache,
           UNCHANGED <<window, current, g_vol, g_fuse, session, file>>,
           NEW pc \in {"reading", "unlocked", "caching", "read"}, Goto(pc),
           c.keys, pc \in {"caching", "read"} => c.cache
    PROVE  Inv'
<1>1. /\ Top.vol \in Vol /\ FrameOK(Top, vol, current) /\ vol[Top.vol].path \in Path
  BY OpeningTop
<1>2. vol[Top.vol].is_open => vol[Top.vol].cache
  BY <1>1 DEF Inv, VolumesOK
<1>3. c.is_mounted => c.is_open
  BY <1>1 DEF Inv, VolumesOK
<1>4. /\ VolumesOK(vol') /\ vol'[Top.vol] = c
      /\ current' # None => vol'[current'].state = "allocated"
      /\ \A i \in 1..(Len(stack) - 1) : /\ FrameOK(stack[i], vol', current)
                                        /\ Opening(stack[i]) => stack[i].vol # Top.vol
  BY <1>2, <1>3, ProgressOne
<1>5. vol'[Top.vol].is_open => current = Top.vol
  BY <1>1, <1>4 DEF FrameOK
<1>6. StackOK(stack', vol', current) /\ stack' \in Seq(Frame) /\ Len(stack') <= MaxDepth
  BY ZenonT(30), <1>1, <1>4, <1>5, AdvanceStack
<1>7. RestOK'
  BY <1>4, <1>6 DEF Inv, RestOK
<1> QED
  BY <1>4, <1>6, <1>7, InvFromParts

\* One that fails.
LEMMA FailureKeeps ==
    ASSUME Inv, stack # <<>>, Opening(Top), InUse,
           NEW c \in Context, c.state = "allocated", c.is_open = vol[Top.vol].is_open,
           c.is_mounted = vol[Top.vol].is_mounted, OpenFailed([vol EXCEPT ![Top.vol] = c]),
           UNCHANGED <<window, g_vol, g_fuse, session, file>>
    PROVE  Inv'
<1> DEFINE X == [vol EXCEPT ![Top.vol] = c]
<1>1. /\ Top.vol \in Vol /\ vol \in [Vol -> Context] /\ vol[Top.vol].state = "allocated"
  BY OpeningTop
<1>2. X \in [Vol -> Context] /\ X[Top.vol] = c /\ \A y \in Vol \ {Top.vol} : X[y] = vol[y]
  BY <1>1
<1>3. OpenFailed(X)
  OBVIOUS
<1> HIDE DEF X
<1>4. Freeing(stack, vol, current, X)
  BY <1>1, <1>2 DEF Freeing, Top
<1> QED
  BY <1>2, <1>3, <1>4, OpenFailedKeeps

LEMMA DeriveKeeps ==
    ASSUME Inv, derive_keys
    PROVE  Inv'
<1> DEFINE v == Top.vol
           c == vol[v]
<1>1. stack # <<>> /\ Top.pc = "reading" /\ Opening(Top) /\ InUse /\ c.state = "allocated"
  BY DEF derive_keys, At, Opening, InUse
<1>2. v \in Vol /\ c \in Context
  BY <1>1, OpeningTop
<1>3. UNCHANGED <<window, g_vol, g_fuse, session, file>>
  BY DEF derive_keys
<1>4. CASE vol' = [vol EXCEPT ![v].keys = TRUE] /\ Goto("unlocked") /\ UNCHANGED current
  <2> DEFINE d == [c EXCEPT !.keys = TRUE]
  <2>1. /\ d \in Context /\ d.state = c.state /\ d.is_open = c.is_open /\ d.path = c.path
        /\ d.is_mounted = c.is_mounted /\ d.keys /\ d.cache = c.cache
    BY <1>2 DEF Context
  <2>2. vol' = [vol EXCEPT ![v] = d]
    BY <1>4
  <2> HIDE DEF d
  <2> QED
    BY <1>1, <1>3, <1>4, <2>1, <2>2, AdvanceKeeps
<1>5. ASSUME NEW d \in {[c EXCEPT !.keys = FALSE], [c EXCEPT !.keys = TRUE, !.error = TRUE]},
             OpenFailed([vol EXCEPT ![v] = d])
      PROVE  Inv'
  <2>1. d \in Context /\ d.state = c.state /\ d.is_open = c.is_open /\ d.is_mounted = c.is_mounted
    BY ZenonT(30), <1>2 DEF Context
  <2> QED
    BY <1>1, <1>3, <1>5, <2>1, FailureKeeps
<1>6. \/ vol' = [vol EXCEPT ![v].keys = TRUE] /\ Goto("unlocked") /\ UNCHANGED current
      \/ OpenFailed([vol EXCEPT ![v] = [c EXCEPT !.keys = FALSE]])
      \/ OpenFailed([vol EXCEPT ![v] = [c EXCEPT !.keys = TRUE, !.error = TRUE]])
  <2>1. [vol EXCEPT ![v].keys = FALSE] = [vol EXCEPT ![v] = [c EXCEPT !.keys = FALSE]]
    OBVIOUS
  <2>2. [vol EXCEPT ![v].keys = TRUE, ![v].error = TRUE] =
           [vol EXCEPT ![v] = [c EXCEPT !.keys = TRUE, !.error = TRUE]]
    BY <1>2 DEF Inv, VolumesOK
  <2>3. \/ vol' = [vol EXCEPT ![v].keys = TRUE] /\ Goto("unlocked") /\ UNCHANGED current
        \/ OpenFailed([vol EXCEPT ![v].keys = FALSE])
        \/ OpenFailed([vol EXCEPT ![v].keys = TRUE, ![v].error = TRUE])
    BY DEF derive_keys
  <2> QED
    BY <2>1, <2>2, <2>3
<1> QED
  BY <1>4, <1>5, <1>6

LEMMA CacheKeeps ==
    ASSUME Inv, init_cache
    PROVE  Inv'
<1> DEFINE v == Top.vol
           c == vol[v]
<1>1. stack # <<>> /\ Top.pc = "unlocked" /\ Opening(Top) /\ InUse /\ c.state = "allocated"
  BY DEF init_cache, At, Opening, InUse
<1>2. v \in Vol /\ c \in Context /\ c.keys
  BY <1>1, OpeningTop DEF FrameOK
<1>3. UNCHANGED <<window, g_vol, g_fuse, session, file>>
  BY DEF init_cache
<1>4. CASE vol' = [vol EXCEPT ![v].cache = TRUE] /\ Goto("caching") /\ UNCHANGED current
  <2> DEFINE d == [c EXCEPT !.cache = TRUE]
  <2>1. /\ d \in Context /\ d.state = c.state /\ d.is_open = c.is_open /\ d.path = c.path
        /\ d.is_mounted = c.is_mounted /\ d.keys = c.keys /\ d.cache
    BY <1>2 DEF Context
  <2>2. vol' = [vol EXCEPT ![v] = d]
    BY <1>4
  <2> HIDE DEF d
  <2> QED
    BY <1>1, <1>2, <1>3, <1>4, <2>1, <2>2, AdvanceKeeps
<1>5. CASE OpenFailed([vol EXCEPT ![v].error = TRUE])
  <2> DEFINE d == [c EXCEPT !.error = TRUE]
  <2>1. d \in Context /\ d.state = c.state /\ d.is_open = c.is_open /\ d.is_mounted = c.is_mounted
    BY <1>2, ErredContext
  <2>2. [vol EXCEPT ![v].error = TRUE] = [vol EXCEPT ![v] = d]
    OBVIOUS
  <2>3. OpenFailed([vol EXCEPT ![v] = d])
    BY <1>5, <2>2
  <2> HIDE DEF d
  <2> QED
    BY <1>1, <1>3, <2>1, <2>3, FailureKeeps
<1> QED
  BY <1>4, <1>5 DEF init_cache

LEMMA LoadKeeps ==
    ASSUME Inv, load_table
    PROVE  Inv'
<1> DEFINE v == Top.vol
           c == vol[v]
           x == file[c.path]
<1>1. stack # <<>> /\ Top.pc = "caching" /\ Opening(Top) /\ InUse /\ c.state = "allocated"
  BY DEF load_table, At, Opening, InUse
<1>2. v \in Vol /\ c \in Context /\ c.keys /\ c.cache /\ c.path \in Path /\ vol \in [Vol -> Context]
  BY <1>1, OpeningTop DEF FrameOK
<1>3. UNCHANGED <<window, g_vol, g_fuse, session, file>>
  BY DEF load_table
<1>4. CASE /\ x # Unreadable /\ vol' = [vol EXCEPT ![v].table = x, ![v].cached = x]
           /\ Goto("read") /\ UNCHANGED current
  <2> DEFINE d == [c EXCEPT !.table = x, !.cached = x]
  <2>1. x \in Table \cup {Mixed}
    BY <1>2, <1>4 DEF Inv, RestOK
  <2>2. /\ d \in Context /\ d.state = c.state /\ d.is_open = c.is_open /\ d.path = c.path
        /\ d.is_mounted = c.is_mounted /\ d.keys = c.keys /\ d.cache = c.cache
    BY <1>2, <2>1 DEF Context
  <2>3. vol' = [vol EXCEPT ![v] = d]
    BY <1>2, <1>4
  <2> HIDE DEF d
  <2> QED
    BY <1>1, <1>2, <1>3, <1>4, <2>2, <2>3, AdvanceKeeps
<1>5. CASE OpenFailed([vol EXCEPT ![v].cache = FALSE, ![v].error = TRUE])
  <2> DEFINE d == [c EXCEPT !.cache = FALSE, !.error = TRUE]
  <2>1. d \in Context /\ d.state = c.state /\ d.is_open = c.is_open /\ d.is_mounted = c.is_mounted
    BY <1>2 DEF Context
  <2>2. [vol EXCEPT ![v].cache = FALSE, ![v].error = TRUE] = [vol EXCEPT ![v] = d]
    BY <1>2
  <2>3. OpenFailed([vol EXCEPT ![v] = d])
    BY <1>5, <2>2
  <2> HIDE DEF d
  <2> QED
    BY <1>1, <1>3, <2>1, <2>3, FailureKeeps
<1> QED
  BY <1>4, <1>5 DEF load_table

LEMMA OpenedKeeps ==
    ASSUME Inv, volume_opened
    PROVE  Inv'
<1> DEFINE v == Top.vol
           c == vol[v]
           d == [c EXCEPT !.is_open = TRUE, !.is_mounted = FALSE]
<1>1. stack # <<>> /\ Top.pc = "read" /\ Opening(Top) /\ InUse /\ c.state = "allocated"
  BY DEF volume_opened, At, Opening, InUse
<1>2. v \in Vol /\ c \in Context /\ c.keys /\ c.cache /\ vol \in [Vol -> Context]
  BY <1>1, OpeningTop DEF FrameOK
<1>3. Return /\ UNCHANGED <<window, current, g_vol, g_fuse, session, file>>
  BY DEF volume_opened
<1>4. /\ d \in Context /\ d.state = "allocated" /\ d.is_open /\ d.path = c.path
      /\ ~d.is_mounted /\ d.keys /\ d.cache
  BY <1>1, <1>2 DEF Context
<1>5. vol' = [vol EXCEPT ![v] = d]
  BY <1>2 DEF volume_opened
<1> HIDE DEF d
<1>6. /\ VolumesOK(vol')
      /\ current' # None => vol'[current'].state = "allocated"
      /\ \A i \in 1..(Len(stack) - 1) : /\ FrameOK(stack[i], vol', current)
                                        /\ Opening(stack[i]) => stack[i].vol # v
  BY <1>1, <1>3, <1>4, <1>5, ProgressOne
<1>7. /\ stack' \in Seq(Frame) /\ stack \in Seq(Frame) /\ Len(stack) \in Nat \ {0}
      /\ Len(stack') = Len(stack) - 1 /\ Len(stack') <= MaxDepth
      /\ \A i \in 1..(Len(stack) - 1) : stack'[i] = stack[i]
  BY <1>1, <1>3, Returned
<1>8. StackOK(stack', vol', current)
  <2>1. StackOK(stack, vol, current)
    BY DEF Inv
  <2> QED
    BY <1>1, <1>6, <1>7, <2>1, TopLeft
<1>9. RestOK'
  BY <1>3, <1>6, <1>7 DEF Inv, RestOK
<1> QED
  BY <1>3, <1>6, <1>8, <1>9, InvFromParts

------------------------------------------------------------------------------
(* The FUSE thread, and the process *)

LEMMA ThreadKeeps ==
    ASSUME Inv, NEW t \in Thread, fuse_mount(t) \/ fuse_loop(t) \/ fuse_unmount(t)
    PROVE  Inv'
<1>1. UNCHANGED <<window, current, stack, g_vol, g_fuse, file>>
  BY DEF fuse_mount, fuse_loop, fuse_unmount
<1>2. QuietVolumes
  <2>1. CASE UNCHANGED vol
    BY <2>1 DEF QuietVolumes, Quiet, Inv, VolumesOK
  <2>2. ASSUME NEW x \in Table, g_vol # None, vol' = [vol EXCEPT ![g_vol].table = x]
        PROVE  QuietVolumes
    <3>1. g_vol \in Vol /\ vol \in [Vol -> Context]
      BY <2>2 DEF Inv, RestOK, VolumesOK
    <3> DEFINE c == [vol[g_vol] EXCEPT !.table = x]
    <3>2. /\ c \in Context /\ c.state = vol[g_vol].state /\ c.is_open = vol[g_vol].is_open
          /\ c.is_mounted = vol[g_vol].is_mounted
          /\ c.keys = vol[g_vol].keys /\ c.cache = vol[g_vol].cache /\ c.path = vol[g_vol].path
      <4>1. vol[g_vol] \in Context
        BY <3>1
      <4> QED
        BY <4>1 DEF Context
    <3>3. vol' = [vol EXCEPT ![g_vol] = c]
      BY <2>2
    <3> HIDE DEF c
    <3>4. /\ vol' \in [Vol -> Context] /\ vol'[g_vol] = c
          /\ \A v \in Vol \ {g_vol} : vol'[v] = vol[v]
      BY <3>1, <3>2, <3>3
    <3> QED
      BY <3>2, <3>4 DEF QuietVolumes, Quiet
  <2> QED
    BY <2>1, <2>2 DEF fuse_mount, fuse_loop, fuse_unmount
<1>3. session' \in [Thread -> Session]
  BY DEF Inv, RestOK, fuse_mount, fuse_loop, fuse_unmount, Session, Ended
<1>4. /\ VolumesOK(vol') /\ current' = current /\ current \in Vol \cup {None}
      /\ current' # None => vol'[current'].state = "allocated"
  BY <1>1, <1>2, QuietVolumesOK
<1>5. RestOK'
  BY <1>1, <1>3, <1>4 DEF Inv, RestOK
<1>6. StackOK(stack', vol', current)
  <2>1. StackOK(stack, vol, current) /\ Quiet(vol, vol')
    BY <1>2 DEF Inv, QuietVolumes
  <2>2. \A i \in 1..Len(stack) : FrameOK(stack[i], vol', current)
    BY <2>1, QuietKeeps DEF StackOK
  <2> QED
    BY <1>1, <1>4, <2>1, <2>2 DEF StackOK, Quiet
<1> QED
  BY <1>4, <1>5, <1>6, InvFromParts

\* The state of a process that was just launched.
LEMMA Fresh ==
    /\ <<>> \in Seq(Frame) /\ Len(<<>>) <= MaxDepth /\ NoSessions \in [Thread -> Session]
    /\ VolumesOK(NoVolumes) /\ StackOK(<<>>, NoVolumes, None)
<1>1. <<>> \in Seq(Frame) /\ Len(<<>>) = 0 /\ Len(<<>>) <= MaxDepth
  BY EmptySeq
<1>2. NoSessions \in [Thread -> Session]
  BY DEF NoSessions, Session, Ended
<1>3. VolumesOK(NoVolumes)
  BY DEF VolumesOK, NoVolumes, Zeroed, Context
<1>4. StackOK(<<>>, NoVolumes, None)
  BY <1>1 DEF StackOK, Apart
<1> QED
  BY <1>1, <1>2, <1>3, <1>4

LEMMA InitInv == Init => Inv
BY Fresh DEF Init, Inv, RestOK

LEMMA RestartKeeps ==
    ASSUME Inv, Exit \/ Crash
    PROVE  Inv'
<1>1. Restart
  BY DEF Exit, Crash
<1>2. file' \in [Path -> Table \cup {Mixed, Unreadable}]
  <2>1. CASE UNCHANGED file
    BY <2>1 DEF Inv, RestOK
  <2>2. ASSUME stack # <<>>, Top.pc = "flushing", InUse, NEW x \in PartlyFlushedTo(Top.vol),
               file' = [file EXCEPT ![vol[Top.vol].path] = x]
        PROVE  file' \in [Path -> Table \cup {Mixed, Unreadable}]
    <3>1. /\ Top.vol \in Vol /\ vol \in [Vol -> Context] /\ vol[Top.vol].path \in Path
          /\ file \in [Path -> Table \cup {Mixed, Unreadable}]
      BY <2>2, ClosingTop
    <3>2. x \in Table \cup {Mixed, Unreadable}
      BY <2>2, <3>1 DEF PartlyFlushedTo, FlushedTo, Context
    <3> QED
      BY <2>2, <3>1, <3>2
  <2> QED
    BY <2>1, <2>2 DEF Exit, Crash
<1>3. RestOK'
  BY <1>1, <1>2, Fresh DEF Restart, RestOK
<1>4. VolumesOK(vol') /\ StackOK(stack', vol', current')
  BY <1>1, Fresh DEF Restart
<1> QED
  BY <1>3, <1>4, InvFromParts

LEMMA StepInv == Inv /\ [Next]_vars => Inv'
<1> SUFFICES ASSUME Inv, [Next]_vars
             PROVE  Inv'
  OBVIOUS
<1>1. CASE UNCHANGED vars
  BY <1>1 DEF Inv, RestOK, VolumesOK, StackOK, vars
<1>2. CASE Click
  BY <1>2, CreateKeeps, OpenKeeps, OthersBegin DEF Click
<1>3. CASE Handle
  BY <1>3, CreatedKeeps, StopKeeps, UnmountKeeps, StartKeeps, WriteBackKeeps, FlushKeeps,
     DestroyKeeps, OpenFileKeeps, DeriveKeeps, CacheKeeps, LoadKeeps, OpenedKeeps DEF Handle
<1>4. CASE \E t \in Thread : fuse_mount(t) \/ fuse_loop(t) \/ fuse_unmount(t)
  BY <1>4, ThreadKeeps
<1>5. CASE Exit \/ Crash
  BY <1>5, RestartKeeps
<1> QED
  BY <1>1, <1>2, <1>3, <1>4, <1>5 DEF Next

\* Whatever the user clicks while a handler dispatches events, however deep: an open
\* volume has its keys, its cache and its file, and only an open one is mounted.
THEOREM TypeCorrect == Spec => []TypeOK
<1>1. Inv => TypeOK
  BY DEF Inv, RestOK, VolumesOK, TypeOK
<1> QED
  BY <1>1, InitInv, StepInv, PTL DEF Spec

------------------------------------------------------------------------------
(* No handler inside another *)

\* What the innermost handler may count on: where it works on a volume, no thread
\* does; the volume it opens has no keys yet; what it closes, it saves.
TopAlone ==
    /\ Top.pc \notin {"creating", "detach", "joining"} => \A t \in Thread : ~Active(t)
    /\ Top.pc = "preparing" => current # None /\ ~vol[current].keys
    /\ Opening(Top) => current = Top.vol /\ ~vol[current].is_open
    /\ Top.pc = "flushing" => vol[Top.vol].cached = vol[Top.vol].table
    /\ Top.pc = "destroying" /\ ~vol[Top.vol].stale =>
          file[vol[Top.vol].path] = vol[Top.vol].table

\* The thread that runs is the one the panel knows, and serves the current volume.
ServesCurrent ==
    \A t \in Thread : Active(t) =>
       /\ t = g_fuse /\ session[t].vol = g_vol /\ g_vol = current
       /\ current # None /\ vol[current].is_open /\ vol[current].is_mounted

Alone == ServesCurrent /\ FreedHoldsNoKeys /\ (stack # <<>> => TopAlone)

Idle == \A t \in Thread : ~Active(t)

LEMMA IdleServes ==
    ASSUME Idle, UNCHANGED session
    PROVE  Idle' /\ ServesCurrent'
BY DEF Idle, Active, ServesCurrent

LEMMA AloneBegun ==
    ASSUME MaxDepth = 1, Inv, NEW h \in Handler, NEW pc \in PC, NEW p \in Path \cup {None},
           Begin(h, pc, p)
    PROVE  stack = <<>> /\ stack' # <<>> /\ Top' = [h |-> h, pc |-> pc, vol |-> None, path |-> p]
<1>1. /\ stack' \in Seq(Frame) /\ stack \in Seq(Frame) /\ Len(stack) \in Nat
      /\ Len(stack') = Len(stack) + 1 /\ Len(stack') <= 1
      /\ stack'[Len(stack) + 1] = [h |-> h, pc |-> pc, vol |-> None, path |-> p]
  BY Begun
<1>2. Len(stack) = 0 /\ Len(stack') = 1
  BY <1>1
<1> QED
  BY <1>1, <1>2, EmptySeq DEF Top

LEMMA AloneReturned ==
    ASSUME MaxDepth = 1, Inv, stack # <<>>, Return
    PROVE  stack' = <<>>
<1>1. /\ stack' \in Seq(Frame) /\ Len(stack) \in Nat \ {0} /\ Len(stack') = Len(stack) - 1
  BY Returned
<1>2. Len(stack) <= 1
  BY DEF Inv, RestOK
<1>3. Len(stack') = 0
  BY <1>1, <1>2
<1> QED
  BY <1>1, <1>3, EmptySeq

LEMMA AloneWent ==
    ASSUME Inv, stack # <<>>, NEW pc \in PC,
           NEW v, \/ v = Top.vol /\ Goto(pc)
                  \/ /\ v = current
                     /\ stack' = [stack EXCEPT ![Len(stack)].vol = current,
                                               ![Len(stack)].pc = pc]
    PROVE  stack' # <<>> /\ Top'.pc = pc /\ Top'.vol = v
<1>1. /\ stack' \in Seq(Frame) /\ Len(stack) \in Nat \ {0} /\ Len(stack') = Len(stack)
      /\ stack'[Len(stack)] = [Top EXCEPT !.vol = v, !.pc = pc] /\ Top \in Frame
  BY Went
<1>2. stack' # <<>>
  BY <1>1, EmptySeq
<1>3. Top' = [Top EXCEPT !.vol = v, !.pc = pc]
  BY <1>1 DEF Top
<1> QED
  BY <1>1, <1>2, <1>3 DEF Frame

\* What a volume is to the threads and to FreedHoldsNoKeys.
SameUse == \A v \in Vol : /\ vol'[v].state = vol[v].state /\ vol'[v].is_open = vol[v].is_open
                          /\ vol'[v].keys = vol[v].keys /\ vol'[v].error = vol[v].error

LEMMA AloneBegin ==
    ASSUME MaxDepth = 1, Inv, Alone,
           NEW h \in Handler, NEW pc \in Steady \cup {"creating"}, NEW p \in Path \cup {None},
           Begin(h, pc, p), pc \in {"choosing", "closing"} => Idle,
           SameUse, \A v \in Vol : vol'[v].is_mounted = vol[v].is_mounted,
           UNCHANGED <<current, g_vol, g_fuse, session>>
    PROVE  Alone'
<1>1. stack' # <<>> /\ Top' = [h |-> h, pc |-> pc, vol |-> None, path |-> p]
  <2>1. pc \in PC
    BY DEF Steady, PC
  <2> QED
    BY <2>1, AloneBegun
<1>2. ServesCurrent'
  BY DEF Alone, ServesCurrent, SameUse, Active, Inv, RestOK
<1>3. FreedHoldsNoKeys'
  BY DEF Alone, FreedHoldsNoKeys, SameUse
<1>4. TopAlone'
  <2>1. /\ Top'.pc = pc /\ pc \in {"detach", "joining", "choosing", "closing", "creating"}
    BY <1>1 DEF Steady
  <2>2. pc \in {"choosing", "closing"} => Idle'
    BY DEF Idle, Active
  <2> QED
    BY <2>1, <2>2 DEF TopAlone, Opening, Idle
<1> QED
  BY <1>2, <1>3, <1>4 DEF Alone

LEMMA AloneSteady ==
    ASSUME MaxDepth = 1, Inv, Alone,
           NEW h \in Handler, NEW p \in Path \cup {None},
           NEW pc \in {"choosing", "closing"},
           IF IsMounted THEN Begin(h, "detach", p) ELSE Begin(h, pc, p),
           UNCHANGED <<window, current, vol, g_vol, g_fuse, session, file>>
    PROVE  Alone'
<1>1. SameUse /\ \A v \in Vol : vol'[v].is_mounted = vol[v].is_mounted
  BY DEF SameUse
<1>2. {"detach", "choosing", "closing"} \subseteq Steady /\ "detach" \notin {"choosing", "closing"}
  BY DEF Steady
<1>3. CASE IsMounted
  BY <1>1, <1>2, <1>3, AloneBegin
<1>4. CASE ~IsMounted
  <2>1. Idle
    BY <1>4 DEF Idle, IsMounted, Alone, ServesCurrent
  <2> QED
    BY <1>1, <1>2, <1>4, <2>1, AloneBegin
<1> QED
  BY <1>3, <1>4

LEMMA AloneClick ==
    ASSUME MaxDepth = 1, Inv, Alone, Click
    PROVE  Alone'
<1>1. Handler = {"create", "open", "close", "mount", "unmount", "quit"} /\ None \in Path \cup {None}
  BY DEF Handler
<1>2. ASSUME NEW p \in Path, on_create_volume_clicked(p)
      PROVE  Alone'
  <2>1. SameUse /\ \A v \in Vol : vol'[v].is_mounted = vol[v].is_mounted
    BY <1>2 DEF on_create_volume_clicked, Inv, VolumesOK, Context, SameUse
  <2>2. /\ Begin("create", "creating", p) /\ UNCHANGED <<current, g_vol, g_fuse, session>>
        /\ "creating" \notin {"choosing", "closing"}
    BY <1>2 DEF on_create_volume_clicked
  <2> QED
    BY <1>1, <2>1, <2>2, AloneBegin
<1>3. ASSUME NEW p \in Path, on_open_volume_clicked(p), IsOpen
      PROVE  Alone'
  <2>1. /\ IF IsMounted THEN Begin("open", "detach", p) ELSE Begin("open", "closing", p)
        /\ UNCHANGED <<window, current, vol, g_vol, g_fuse, session, file>>
    BY <1>3 DEF on_open_volume_clicked
  <2> QED
    BY <1>1, <2>1, AloneSteady
<1>4. ASSUME NEW p \in Path, on_open_volume_clicked(p), ~IsOpen
      PROVE  Alone'
  <2>1. PICK v \in Vol : /\ Begin("open", "preparing", p)
                         /\ vol' = [vol EXCEPT ![v] = Zeroed("allocated")]
                         /\ current' = v
    BY <1>4 DEF on_open_volume_clicked, Unallocated
  <2>2. stack' # <<>> /\ Top'.pc = "preparing"
    <3>1. "preparing" \in PC
      BY DEF PC
    <3> QED
      BY <1>1, <2>1, <3>1, AloneBegun
  <2>3. Idle' /\ ServesCurrent'
    <3>1. Idle
      BY <1>4 DEF Idle, IsOpen, Alone, ServesCurrent
    <3>2. UNCHANGED session
      BY <1>4 DEF on_open_volume_clicked
    <3> QED
      BY <3>1, <3>2, IdleServes
  <2>4. /\ vol'[v].state = "allocated" /\ ~vol'[v].keys
        /\ \A x \in Vol \ {v} : vol'[x] = vol[x]
    BY <2>1 DEF Inv, VolumesOK, Zeroed
  <2>5. FreedHoldsNoKeys'
    BY <2>4 DEF Alone, FreedHoldsNoKeys
  <2>6. TopAlone'
    BY <2>1, <2>2, <2>3, <2>4 DEF TopAlone, Opening, Idle
  <2> QED
    BY <2>3, <2>5, <2>6 DEF Alone
<1>5. CASE on_close_volume_clicked
  BY <1>1, <1>5, AloneSteady DEF on_close_volume_clicked
<1>6. CASE on_mount_volume_clicked
  BY <1>1, <1>6, AloneSteady DEF on_mount_volume_clicked
<1>7. CASE on_unmount_volume_clicked
  BY <1>1, <1>7, AloneSteady DEF on_unmount_volume_clicked
<1>8. CASE UNCHANGED <<current, stack, vol, g_vol, g_fuse, session, file>>
  BY <1>8 DEF Alone, ServesCurrent, FreedHoldsNoKeys, TopAlone, Top, Opening, Active
<1>9. CASE on_quit_clicked
  BY <1>1, <1>8, <1>9, AloneSteady DEF on_quit_clicked
<1> QED
  BY <1>2, <1>3, <1>4, <1>5, <1>6, <1>7, <1>8, <1>9 DEF Click, close_window

\* A handler that returns with the volumes in use as they were.
LEMMA AlonePop ==
    ASSUME MaxDepth = 1, Inv, Alone, stack # <<>>, Return, ServesCurrent', FreedHoldsNoKeys'
    PROVE  Alone'
BY AloneReturned DEF Alone

LEMMA AloneStop ==
    ASSUME MaxDepth = 1, Inv, Alone, stop_fuse_mount
    PROVE  Alone'
<1>1. stack # <<>> /\ Goto("joining") /\ "joining" \in PC
  BY DEF stop_fuse_mount, PC
<1>2. stack' # <<>> /\ Top'.pc = "joining"
  BY <1>1, AloneWent
<1>3. UNCHANGED <<window, current, vol, g_vol, g_fuse, file>>
  BY DEF stop_fuse_mount
<1>4. \A t \in Thread : Active(t)' => Active(t) /\ session'[t].vol = session[t].vol
  BY DEF stop_fuse_mount, Stopped, Refused, Active, Ended, Inv, RestOK, Session
<1>5. ServesCurrent'
  BY <1>3, <1>4 DEF Alone, ServesCurrent
<1>6. FreedHoldsNoKeys' /\ TopAlone'
  BY <1>2, <1>3 DEF Alone, FreedHoldsNoKeys, TopAlone, Opening
<1> QED
  BY <1>5, <1>6 DEF Alone

LEMMA AloneUnmount ==
    ASSUME MaxDepth = 1, Inv, Alone, volume_unmount
    PROVE  Alone'
<1>1. stack # <<>> /\ UNCHANGED <<window, current, g_vol, session, file>>
  BY DEF volume_unmount
<1>2. Idle
  BY DEF volume_unmount, Joined, Idle, Alone, ServesCurrent, Inv, RestOK
<1>3. Idle' /\ ServesCurrent'
  BY <1>1, <1>2, IdleServes
<1>4. \A v \in Vol : /\ vol'[v].state = vol[v].state /\ vol'[v].keys = vol[v].keys
                     /\ vol'[v].error = vol[v].error
  <2>1. vol \in [Vol -> Context] /\ vol' = [vol EXCEPT ![current].is_mounted = FALSE]
    BY DEF Inv, VolumesOK, volume_unmount
  <2> QED
    BY <2>1 DEF Context
<1>5. FreedHoldsNoKeys'
  BY <1>4 DEF Alone, FreedHoldsNoKeys
<1>6. CASE Return
  BY <1>1, <1>3, <1>5, <1>6, AlonePop
<1>7. ASSUME NEW pc \in {"choosing", "closing"}, Goto(pc)
      PROVE  Alone'
  <2>1. stack' # <<>> /\ Top'.pc = pc
    <3>1. pc \in PC
      BY DEF PC
    <3> QED
      BY <1>1, <1>7, <3>1, AloneWent
  <2>2. TopAlone'
    BY <1>3, <2>1 DEF TopAlone, Opening, Idle
  <2> QED
    BY <1>3, <1>5, <2>2 DEF Alone
<1> QED
  BY <1>6, <1>7 DEF volume_unmount

LEMMA AloneStart ==
    ASSUME MaxDepth = 1, Inv, Alone, start_fuse_mount
    PROVE  Alone'
<1>1. stack # <<>> /\ Top.pc = "choosing" /\ Return /\ UNCHANGED <<window, current, file>>
  BY DEF start_fuse_mount, At
<1>2. /\ Idle /\ current \in Vol /\ vol[current].is_open
      /\ vol \in [Vol -> Context] /\ session \in [Thread -> Session]
  BY <1>1 DEF Alone, TopAlone, Idle, Inv, StackOK, RestOK, VolumesOK, Top, Steady
<1>3. CASE UNCHANGED session /\ UNCHANGED vol
  <2>1. ServesCurrent' /\ FreedHoldsNoKeys'
    BY <1>2, <1>3, IdleServes DEF Alone, FreedHoldsNoKeys
  <2> QED
    BY <1>1, <2>1, AlonePop
<1>4. ASSUME g_vol' = current, NEW t \in Thread,
             vol' = [vol EXCEPT ![current].is_mounted = TRUE],
             session' = [session EXCEPT ![t] = [state |-> "starting", vol |-> current]],
             g_fuse' = t
      PROVE  Alone'
  <2>1. \A x \in Thread : session'[x] = IF x = t THEN [state |-> "starting", vol |-> current]
                                                 ELSE session[x]
    BY <1>2, <1>4
  <2>2. Active(t)' /\ session'[t].vol = current /\ \A x \in Thread \ {t} : ~Active(x)'
    BY <1>2, <2>1 DEF Active, Ended, Idle
  <2>3. /\ vol'[current].is_mounted /\ vol'[current].is_open
        /\ \A v \in Vol : /\ vol'[v].state = vol[v].state /\ vol'[v].keys = vol[v].keys
                          /\ vol'[v].error = vol[v].error
    BY <1>2, <1>4 DEF Context
  <2>4. ServesCurrent'
    BY <1>1, <1>2, <1>4, <2>2, <2>3 DEF ServesCurrent
  <2>5. FreedHoldsNoKeys'
    BY <2>3 DEF Alone, FreedHoldsNoKeys
  <2> QED
    BY <1>1, <2>4, <2>5, AlonePop
<1> QED
  BY <1>3, <1>4 DEF start_fuse_mount

LEMMA AloneWriteBack ==
    ASSUME MaxDepth = 1, Inv, Alone, write_back_table
    PROVE  Alone'
<1>1. /\ stack # <<>> /\ Top.pc = "closing"
      /\ UNCHANGED <<window, current, g_vol, g_fuse, session, file>>
      /\ vol' = [vol EXCEPT ![current].cached = vol[current].table]
      /\ stack' = [stack EXCEPT ![Len(stack)].vol = current, ![Len(stack)].pc = "flushing"]
  BY DEF write_back_table, At
<1>2. Idle /\ current \in Vol /\ vol \in [Vol -> Context]
  BY <1>1 DEF Alone, TopAlone, Idle, Inv, StackOK, RestOK, VolumesOK, Top, Steady
<1>3. Idle' /\ ServesCurrent'
  BY <1>1, <1>2, IdleServes
<1>4. stack' # <<>> /\ Top'.pc = "flushing" /\ Top'.vol = current
  <2>1. "flushing" \in PC
    BY DEF PC
  <2> QED
    BY <1>1, <2>1, AloneWent
<1>5. /\ vol'[current].cached = vol'[current].table
      /\ \A v \in Vol : /\ vol'[v].state = vol[v].state /\ vol'[v].keys = vol[v].keys
                        /\ vol'[v].error = vol[v].error
  BY <1>1, <1>2 DEF Context
<1>6. FreedHoldsNoKeys'
  BY <1>5 DEF Alone, FreedHoldsNoKeys
<1>7. TopAlone'
  BY <1>3, <1>4, <1>5 DEF TopAlone, Opening, Idle
<1> QED
  BY <1>3, <1>6, <1>7 DEF Alone

\* A context is given up without its keys, or after an error.
LEMMA AloneFreed ==
    ASSUME Inv, Alone, NEW v \in Vol, v = current, NEW c \in Context, ~c.keys \/ c.error,
           NEW X, X = [vol EXCEPT ![v] = c]
    PROVE  /\ \A x \in Vol : Freed(X, current)[x].state = "freed" /\ Freed(X, current)[x].keys
                                => Freed(X, current)[x].error
           /\ Freed(X, current) \in [Vol -> Context]
<1>1. vol \in [Vol -> Context]
  BY DEF Inv, VolumesOK
<1>2. X \in [Vol -> Context] /\ X[v] = c /\ \A x \in Vol \ {v} : X[x] = vol[x]
  BY <1>1
<1>3. /\ \A x \in Vol \ {v} : Freed(X, current)[x] = vol[x]
      /\ Freed(X, current)[v].keys = c.keys /\ Freed(X, current)[v].error = c.error
  BY <1>2 DEF Freed, Zeroed
<1>4. Freed(X, current) \in [Vol -> Context]
  BY <1>2, FreedType
<1> QED
  BY <1>3, <1>4 DEF Alone, FreedHoldsNoKeys

LEMMA AloneAfterClose ==
    ASSUME MaxDepth = 1, Inv, Alone, stack # <<>>, Idle, Top.h \in {"open", "close", "quit"},
           NEW v \in Vol, v = current, NEW c \in Context, ~c.keys \/ c.error,
           c.state = vol[v].state,
           NEW ok, AfterClose(ok, [vol EXCEPT ![v] = c]), UNCHANGED session
    PROVE  Alone'
<1> DEFINE X == [vol EXCEPT ![v] = c]
<1>1. Idle' /\ ServesCurrent'
  BY IdleServes
<1>2. AfterClose(ok, X) /\ X = [vol EXCEPT ![v] = c]
  OBVIOUS
<1>3. vol \in [Vol -> Context]
  BY DEF Inv, VolumesOK
<1>4. X[v] = c /\ \A x \in Vol \ {v} : X[x] = vol[x]
  BY <1>3
<1> HIDE DEF X
<1>5. /\ \A x \in Vol : Freed(X, current)[x].state = "freed" /\ Freed(X, current)[x].keys
                           => Freed(X, current)[x].error
      /\ Freed(X, current) \in [Vol -> Context]
  BY <1>2, AloneFreed
<1>6. CASE vol' = Freed(X, current) /\ Return
  BY <1>1, <1>5, <1>6, AlonePop DEF FreedHoldsNoKeys
<1>7. CASE vol' = X /\ Return
  BY <1>1, <1>4, <1>7, AlonePop DEF Alone, FreedHoldsNoKeys
<1>8. CASE Allocated(Freed(X, current))
  <2>1. PICK w \in Vol : /\ vol' = [Freed(X, current) EXCEPT ![w] = Zeroed("allocated")]
                         /\ current' = w /\ Goto("preparing")
    BY <1>8 DEF Allocated, Unallocated
  <2>2. /\ vol'[w].state = "allocated" /\ ~vol'[w].keys
        /\ \A x \in Vol \ {w} : vol'[x] = Freed(X, current)[x]
    BY <1>5, <2>1 DEF Zeroed
  <2>3. FreedHoldsNoKeys'
    BY <1>5, <2>2 DEF FreedHoldsNoKeys
  <2>4. stack' # <<>> /\ Top'.pc = "preparing"
    <3>1. "preparing" \in PC
      BY DEF PC
    <3> QED
      BY <2>1, <3>1, AloneWent
  <2>5. TopAlone'
    BY <1>1, <2>1, <2>2, <2>4 DEF TopAlone, Opening, Idle
  <2> QED
    BY <1>1, <2>3, <2>5 DEF Alone
<1> QED
  BY <1>2, <1>6, <1>7, <1>8 DEF AfterClose

LEMMA AloneFlush ==
    ASSUME MaxDepth = 1, Inv, Alone, flush
    PROVE  Alone'
<1> DEFINE v == Top.vol
<1>1. /\ stack # <<>> /\ Top.h \in {"open", "close", "quit"} /\ Top.pc = "flushing" /\ InUse
      /\ UNCHANGED session
  BY DEF flush, At
<1>2. /\ v \in Vol /\ v = current /\ vol \in [Vol -> Context] /\ vol[v].path \in Path
      /\ file \in [Path -> Table \cup {Mixed, Unreadable}]
  BY <1>1, ClosingTop
<1>3. Idle /\ vol[v].cached = vol[v].table
  BY <1>1 DEF Alone, TopAlone, Idle
<1>4. CASE /\ file' = [file EXCEPT ![vol[v].path] = FlushedTo(v)]
           /\ Goto("destroying") /\ UNCHANGED <<window, current, vol>>
  <2>1. stack' # <<>> /\ Top'.pc = "destroying" /\ Top'.vol = v
    <3>1. "destroying" \in PC
      BY DEF PC
    <3> QED
      BY <1>1, <1>4, <3>1, AloneWent
  <2>2. ~vol[v].stale => file'[vol[v].path] = vol[v].table
    BY <1>2, <1>3, <1>4 DEF FlushedTo
  <2>3. Idle' /\ ServesCurrent' /\ FreedHoldsNoKeys'
    BY <1>1, <1>3, <1>4, IdleServes DEF Alone, FreedHoldsNoKeys
  <2>4. TopAlone'
    BY <1>4, <2>1, <2>2, <2>3 DEF TopAlone, Opening, Idle
  <2> QED
    BY <2>3, <2>4 DEF Alone
<1>5. CASE AfterClose(FALSE, [vol EXCEPT ![v].error = TRUE])
  <2> DEFINE c == [vol[v] EXCEPT !.error = TRUE]
  <2>1. vol[v] \in Context
    BY <1>2
  <2>2. c \in Context /\ c.error /\ c.state = vol[v].state
    BY <2>1 DEF Context
  <2>3. AfterClose(FALSE, [vol EXCEPT ![v] = c])
    BY <1>5
  <2> HIDE DEF c
  <2> QED
    BY <1>1, <1>2, <1>3, <2>2, <2>3, AloneAfterClose
<1> QED
  BY <1>4, <1>5 DEF flush

LEMMA AloneDestroy ==
    ASSUME MaxDepth = 1, Inv, Alone, destroy
    PROVE  Alone'
<1> DEFINE v == Top.vol
           c == [vol[v] EXCEPT !.is_mounted = FALSE, !.cache = FALSE,
                               !.is_open = FALSE, !.keys = FALSE]
<1>1. /\ stack # <<>> /\ Top.h \in {"open", "close", "quit"} /\ Top.pc = "destroying" /\ InUse
      /\ UNCHANGED session
  BY DEF destroy, At
<1>2. v \in Vol /\ v = current /\ vol \in [Vol -> Context] /\ vol[v] \in Context
  BY <1>1, ClosingTop
<1>3. Idle
  BY <1>1 DEF Alone, TopAlone, Idle
<1>4. c \in Context /\ ~c.keys /\ c.state = vol[v].state
  BY <1>2, ClosedContext
<1>5. [vol EXCEPT ![Top.vol].is_mounted = FALSE, ![Top.vol].cache = FALSE,
                  ![Top.vol].is_open = FALSE, ![Top.vol].keys = FALSE] = [vol EXCEPT ![v] = c]
  BY <1>2
<1>6. AfterClose(TRUE, [vol EXCEPT ![v] = c])
  BY <1>5 DEF destroy
<1> HIDE DEF c
<1> QED
  BY <1>1, <1>2, <1>3, <1>4, <1>6, AloneAfterClose

LEMMA AloneFailed ==
    ASSUME MaxDepth = 1, Inv, Alone, stack # <<>>, Idle, UNCHANGED session,
           NEW v \in Vol, v = current, NEW c \in Context, ~c.keys \/ c.error,
           OpenFailed([vol EXCEPT ![v] = c])
    PROVE  Alone'
<1> DEFINE X == [vol EXCEPT ![v] = c]
<1>1. OpenFailed(X) /\ X = [vol EXCEPT ![v] = c]
  OBVIOUS
<1> HIDE DEF X
<1>2. FreedHoldsNoKeys'
  BY <1>1, AloneFreed DEF OpenFailed, FreedHoldsNoKeys
<1>3. ServesCurrent' /\ Return
  BY <1>1, IdleServes DEF OpenFailed
<1> QED
  BY <1>2, <1>3, AlonePop

\* The volume volume_open is at work on is the current one, not open yet.
LEMMA AloneOpening ==
    ASSUME Inv, Alone, stack # <<>>, Opening(Top), InUse
    PROVE  /\ Idle /\ Top.vol \in Vol /\ Top.vol = current /\ vol[current].state = "allocated"
           /\ vol[Top.vol] \in Context /\ vol \in [Vol -> Context]
           /\ ~vol[Top.vol].is_open /\ vol[Top.vol].path \in Path
<1>1. /\ Top.vol \in Vol /\ vol[Top.vol] \in Context /\ vol \in [Vol -> Context]
      /\ vol[Top.vol].path \in Path
  BY OpeningTop
<1>2. Idle /\ Top.vol = current /\ ~vol[Top.vol].is_open
  BY DEF Alone, TopAlone, Opening, Idle
<1> QED
  BY <1>1, <1>2 DEF InUse

\* A step of volume_open that succeeds.
LEMMA AloneAdvance ==
    ASSUME Inv, Alone, stack # <<>>, Idle, UNCHANGED <<session, current>>,
           NEW v \in Vol, v = current, NEW c \in Context, c.state = "allocated", ~c.is_open,
           vol' = [vol EXCEPT ![v] = c],
           NEW pc \in {"reading", "unlocked", "caching", "read"},
           \/ v = Top.vol /\ Goto(pc)
           \/ stack' = [stack EXCEPT ![Len(stack)].vol = current, ![Len(stack)].pc = pc]
    PROVE  Alone'
<1>1. Idle' /\ ServesCurrent'
  BY IdleServes
<1>2. stack' # <<>> /\ Top'.pc = pc /\ Top'.vol = v
  <2>1. pc \in PC
    BY DEF PC
  <2> QED
    BY <2>1, AloneWent
<1>3. vol'[v] = c /\ \A x \in Vol \ {v} : vol'[x] = vol[x]
  BY DEF Inv, VolumesOK
<1>4. FreedHoldsNoKeys'
  BY <1>3 DEF Alone, FreedHoldsNoKeys
<1>5. TopAlone'
  BY <1>1, <1>2, <1>3 DEF TopAlone, Opening, Idle
<1> QED
  BY <1>1, <1>4, <1>5 DEF Alone

LEMMA AloneOpenFile ==
    ASSUME MaxDepth = 1, Inv, Alone, open_file
    PROVE  Alone'
<1>1. /\ stack # <<>> /\ Top.pc = "preparing" /\ current # None /\ Top.h = "open"
      /\ UNCHANGED session
  BY DEF open_file, At
<1>2. /\ Idle /\ current \in Vol /\ ~vol[current].keys /\ vol \in [Vol -> Context]
      /\ vol[current].state = "allocated"
  BY <1>1 DEF Alone, TopAlone, Idle, Inv, RestOK, VolumesOK
<1>3. vol[current] \in Context /\ ~vol[current].is_open
  BY <1>2 DEF Inv, VolumesOK
<1>4. CASE OpenFailed(vol)
  <2>1. vol = [vol EXCEPT ![current] = vol[current]]
    BY <1>2
  <2>2. OpenFailed([vol EXCEPT ![current] = vol[current]])
    BY <1>4, <2>1
  <2> QED
    BY <1>1, <1>2, <1>3, <2>2, AloneFailed
<1>5. CASE /\ vol' = [vol EXCEPT ![current].path = Top.path]
           /\ stack' = [stack EXCEPT ![Len(stack)].vol = current, ![Len(stack)].pc = "reading"]
           /\ UNCHANGED current
  <2> DEFINE c == [vol[current] EXCEPT !.path = Top.path]
  <2>1. Top \in Frame
    BY <1>1, TopIsFrame DEF Inv, RestOK, Top
  <2>2. c \in Context /\ c.state = "allocated" /\ ~c.is_open
    BY <1>2, <1>3, <2>1 DEF Frame, Context
  <2>3. vol' = [vol EXCEPT ![current] = c]
    BY <1>5
  <2> HIDE DEF c
  <2> QED
    BY <1>1, <1>2, <1>5, <2>2, <2>3, AloneAdvance
<1> QED
  BY <1>4, <1>5 DEF open_file

LEMMA AloneDerive ==
    ASSUME MaxDepth = 1, Inv, Alone, derive_keys
    PROVE  Alone'
<1> DEFINE v == Top.vol
           c == vol[v]
<1>1. stack # <<>> /\ Opening(Top) /\ InUse /\ UNCHANGED session
  BY DEF derive_keys, At, Opening
<1>2. /\ Idle /\ v \in Vol /\ v = current /\ c.state = "allocated" /\ c \in Context
      /\ vol \in [Vol -> Context] /\ ~c.is_open
  BY <1>1, AloneOpening
<1>3. CASE vol' = [vol EXCEPT ![v].keys = TRUE] /\ Goto("unlocked") /\ UNCHANGED current
  <2> DEFINE d == [c EXCEPT !.keys = TRUE]
  <2>1. d \in Context /\ d.state = "allocated" /\ ~d.is_open
    BY <1>2 DEF Context
  <2>2. vol' = [vol EXCEPT ![v] = d]
    BY <1>3
  <2> HIDE DEF d
  <2> QED
    BY <1>1, <1>2, <1>3, <2>1, <2>2, AloneAdvance
<1>4. ASSUME NEW d \in {[c EXCEPT !.keys = FALSE], [c EXCEPT !.keys = TRUE, !.error = TRUE]},
             OpenFailed([vol EXCEPT ![v] = d])
      PROVE  Alone'
  <2>1. d \in Context /\ (~d.keys \/ d.error)
    <3>1. CASE d = [c EXCEPT !.keys = FALSE]
      BY <1>2, <3>1 DEF Context
    <3>2. CASE d = [c EXCEPT !.keys = TRUE, !.error = TRUE]
      BY <1>2, <3>2 DEF Context
    <3> QED
      BY <1>4, <3>1, <3>2
  <2> QED
    BY <1>1, <1>2, <1>4, <2>1, AloneFailed
<1>5. \/ vol' = [vol EXCEPT ![v].keys = TRUE] /\ Goto("unlocked") /\ UNCHANGED current
      \/ OpenFailed([vol EXCEPT ![v] = [c EXCEPT !.keys = FALSE]])
      \/ OpenFailed([vol EXCEPT ![v] = [c EXCEPT !.keys = TRUE, !.error = TRUE]])
  <2>1. [vol EXCEPT ![v].keys = TRUE, ![v].error = TRUE] =
           [vol EXCEPT ![v] = [c EXCEPT !.keys = TRUE, !.error = TRUE]]
    BY <1>2
  <2>2. \/ vol' = [vol EXCEPT ![v].keys = TRUE] /\ Goto("unlocked") /\ UNCHANGED current
        \/ OpenFailed([vol EXCEPT ![v].keys = FALSE])
        \/ OpenFailed([vol EXCEPT ![v].keys = TRUE, ![v].error = TRUE])
    BY DEF derive_keys
  <2> QED
    BY <2>1, <2>2
<1> QED
  BY <1>3, <1>4, <1>5

LEMMA AloneCache ==
    ASSUME MaxDepth = 1, Inv, Alone, init_cache
    PROVE  Alone'
<1> DEFINE v == Top.vol
           c == vol[v]
<1>1. stack # <<>> /\ Opening(Top) /\ InUse /\ UNCHANGED session
  BY DEF init_cache, At, Opening
<1>2. /\ Idle /\ v \in Vol /\ v = current /\ c.state = "allocated" /\ c \in Context
      /\ vol \in [Vol -> Context] /\ ~c.is_open
  BY <1>1, AloneOpening
<1>3. CASE vol' = [vol EXCEPT ![v].cache = TRUE] /\ Goto("caching") /\ UNCHANGED current
  <2> DEFINE d == [c EXCEPT !.cache = TRUE]
  <2>1. d \in Context /\ d.state = "allocated" /\ ~d.is_open
    BY <1>2 DEF Context
  <2>2. vol' = [vol EXCEPT ![v] = d]
    BY <1>3
  <2> HIDE DEF d
  <2> QED
    BY <1>1, <1>2, <1>3, <2>1, <2>2, AloneAdvance
<1>4. CASE OpenFailed([vol EXCEPT ![v].error = TRUE])
  <2> DEFINE d == [c EXCEPT !.error = TRUE]
  <2>1. d \in Context /\ d.error
    BY <1>2 DEF Context
  <2>2. OpenFailed([vol EXCEPT ![v] = d])
    BY <1>4
  <2> HIDE DEF d
  <2> QED
    BY <1>1, <1>2, <2>1, <2>2, AloneFailed
<1> QED
  BY <1>3, <1>4 DEF init_cache

LEMMA AloneLoad ==
    ASSUME MaxDepth = 1, Inv, Alone, load_table
    PROVE  Alone'
<1> DEFINE v == Top.vol
           c == vol[v]
           x == file[c.path]
<1>1. stack # <<>> /\ Opening(Top) /\ InUse /\ UNCHANGED session
  BY DEF load_table, At, Opening
<1>2. /\ Idle /\ v \in Vol /\ v = current /\ c.state = "allocated" /\ c \in Context
      /\ vol \in [Vol -> Context] /\ ~c.is_open /\ c.path \in Path
  BY <1>1, AloneOpening
<1>3. CASE /\ x # Unreadable /\ vol' = [vol EXCEPT ![v].table = x, ![v].cached = x]
           /\ Goto("read") /\ UNCHANGED current
  <2> DEFINE d == [c EXCEPT !.table = x, !.cached = x]
  <2>1. x \in Table \cup {Mixed}
    BY <1>2, <1>3 DEF Inv, RestOK
  <2>2. d \in Context /\ d.state = "allocated" /\ ~d.is_open
    BY <1>2, <2>1 DEF Context
  <2>3. vol' = [vol EXCEPT ![v] = d]
    BY <1>2, <1>3
  <2> HIDE DEF d
  <2> QED
    BY <1>1, <1>2, <1>3, <2>2, <2>3, AloneAdvance
<1>4. CASE OpenFailed([vol EXCEPT ![v].cache = FALSE, ![v].error = TRUE])
  <2> DEFINE d == [c EXCEPT !.cache = FALSE, !.error = TRUE]
  <2>1. d \in Context /\ d.error
    BY <1>2 DEF Context
  <2>2. [vol EXCEPT ![v].cache = FALSE, ![v].error = TRUE] = [vol EXCEPT ![v] = d]
    BY <1>2
  <2>3. OpenFailed([vol EXCEPT ![v] = d])
    BY <1>4, <2>2
  <2> HIDE DEF d
  <2> QED
    BY <1>1, <1>2, <2>1, <2>3, AloneFailed
<1> QED
  BY <1>3, <1>4 DEF load_table

LEMMA AloneOpened ==
    ASSUME MaxDepth = 1, Inv, Alone, volume_opened
    PROVE  Alone'
<1>1. stack # <<>> /\ Opening(Top) /\ InUse /\ Return /\ UNCHANGED session
  BY DEF volume_opened, At, Opening
<1>2. Idle /\ Top.vol \in Vol /\ vol[Top.vol].state = "allocated" /\ vol \in [Vol -> Context]
  BY <1>1, AloneOpening
<1>3. \A v \in Vol : /\ vol'[v].state = vol[v].state /\ vol'[v].keys = vol[v].keys
                     /\ vol'[v].error = vol[v].error
  BY <1>2 DEF volume_opened, Context
<1>4. ServesCurrent' /\ FreedHoldsNoKeys'
  BY <1>1, <1>2, <1>3, IdleServes DEF Alone, FreedHoldsNoKeys
<1> QED
  BY <1>1, <1>4, AlonePop

LEMMA AloneThread ==
    ASSUME Inv, Alone, NEW t \in Thread, fuse_mount(t) \/ fuse_loop(t) \/ fuse_unmount(t)
    PROVE  Alone'
<1>1. UNCHANGED <<window, current, stack, g_vol, g_fuse, file>>
  BY DEF fuse_mount, fuse_loop, fuse_unmount
<1>2. \A x \in Thread : Active(x)' => Active(x) /\ session'[x].vol = session[x].vol
  <2>1. session \in [Thread -> Session] /\ Ended.vol = None
    BY DEF Inv, RestOK, Ended
  <2>2. \/ session[t].state = "starting" /\ session' = [session EXCEPT ![t].state = "serving"]
        \/ session' = [session EXCEPT ![t] = Ended]
        \/ UNCHANGED session
    BY <2>1 DEF fuse_mount, fuse_loop, fuse_unmount
  <2>3. session[t].state = "starting" => Active(t)
    BY DEF Active, Ended
  <2> QED
    BY <2>1, <2>2, <2>3 DEF Active, Session
<1>3. CASE UNCHANGED vol
  <2>1. ServesCurrent' /\ FreedHoldsNoKeys'
    BY <1>1, <1>2, <1>3 DEF Alone, ServesCurrent, FreedHoldsNoKeys
  <2>2. stack' # <<>> => TopAlone'
    BY <1>1, <1>2, <1>3 DEF Alone, TopAlone, Top, Opening
  <2> QED
    BY <2>1, <2>2 DEF Alone
<1>4. ASSUME Serves(t), g_vol # None, NEW x \in Table, vol' = [vol EXCEPT ![g_vol].table = x]
      PROVE  Alone'
  <2>1. Active(t)
    BY <1>4 DEF Serves, Active, Ended
  <2>2. stack # <<>> => Top.pc \in {"creating", "detach", "joining"}
    BY <2>1 DEF Alone, TopAlone
  <2>3. \A v \in Vol : /\ vol'[v].state = vol[v].state /\ vol'[v].keys = vol[v].keys
                       /\ vol'[v].error = vol[v].error /\ vol'[v].is_open = vol[v].is_open
                       /\ vol'[v].is_mounted = vol[v].is_mounted
    BY <1>4 DEF Inv, VolumesOK, Context
  <2>4. ServesCurrent' /\ FreedHoldsNoKeys'
    BY <1>1, <1>2, <2>3 DEF Alone, ServesCurrent, FreedHoldsNoKeys, Inv, RestOK
  <2>5. stack' # <<>> => TopAlone'
    BY <1>1, <2>2 DEF TopAlone, Top, Opening
  <2> QED
    BY <2>4, <2>5 DEF Alone
<1> QED
  BY <1>3, <1>4 DEF fuse_mount, fuse_loop, fuse_unmount

LEMMA AloneFresh ==
    ASSUME stack = <<>>, vol = NoVolumes, session = NoSessions
    PROVE  Alone
BY DEF Alone, ServesCurrent, FreedHoldsNoKeys, NoVolumes, NoSessions, Zeroed, Active

LEMMA AloneRestart ==
    ASSUME Exit \/ Crash
    PROVE  Alone'
BY DEF Exit, Crash, Restart, Alone, ServesCurrent, FreedHoldsNoKeys, NoVolumes, NoSessions,
       Zeroed, Active

LEMMA AloneStep ==
    ASSUME MaxDepth = 1, Inv, Alone, [Next]_vars
    PROVE  Alone'
<1>1. CASE UNCHANGED vars
  BY <1>1 DEF Alone, ServesCurrent, FreedHoldsNoKeys, TopAlone, Top, Opening, Active, vars
<1>2. CASE Click
  BY <1>2, AloneClick
<1>3. CASE volume_created
  <2>1. ServesCurrent' /\ FreedHoldsNoKeys' /\ stack # <<>> /\ Return
    BY <1>3 DEF volume_created, At, Alone, ServesCurrent, FreedHoldsNoKeys, Active
  <2> QED
    BY <2>1, AlonePop
<1>4. CASE Handle
  BY <1>3, <1>4, AloneStop, AloneUnmount, AloneStart, AloneWriteBack, AloneFlush,
     AloneDestroy, AloneOpenFile, AloneDerive, AloneCache, AloneLoad, AloneOpened DEF Handle
<1>5. CASE \E t \in Thread : fuse_mount(t) \/ fuse_loop(t) \/ fuse_unmount(t)
  BY <1>5, AloneThread
<1>6. CASE Exit \/ Crash
  BY <1>6, AloneRestart
<1> QED
  BY <1>1, <1>2, <1>4, <1>5, <1>6 DEF Next

LEMMA AloneAlways ==
    ASSUME MaxDepth = 1
    PROVE  Spec => [](Inv /\ Alone)
<1>1. Init => Alone
  BY AloneFresh DEF Init
<1>2. Inv /\ Alone /\ [Next]_vars => Alone'
  BY AloneStep
<1> QED
  BY <1>1, <1>2, InitInv, StepInv, PTL DEF Spec

\* As long as no handler runs inside another, the FUSE thread works on the volume it
\* was started for, which is open, mounted, and has its keys and its cache.
THEOREM AloneServesOpenVolume ==
    ASSUME MaxDepth = 1
    PROVE  Spec => []ServesOpenVolume
<1>1. Inv /\ Alone => ServesOpenVolume
  BY DEF Inv, RestOK, VolumesOK, Alone, ServesCurrent, ServesOpenVolume
<1> QED
  BY <1>1, AloneAlways, PTL

\* As long as no handler runs inside another, no key stays in memory that was freed,
\* unless something failed.
THEOREM AloneFreedHoldsNoKeys ==
    ASSUME MaxDepth = 1
    PROVE  Spec => []FreedHoldsNoKeys
<1>1. Inv /\ Alone => FreedHoldsNoKeys
  BY DEF Alone
<1> QED
  BY <1>1, AloneAlways, PTL

\* As long as no handler runs inside another, volume_close returns 0 only when the
\* volume file holds the table as it is.
THEOREM AloneSavedOnClose ==
    ASSUME MaxDepth = 1
    PROVE  Spec => SavedOnClose
<1>1. Inv /\ Alone /\ [Next]_vars =>
         [destroy /\ ~vol[Top.vol].stale => file[vol[Top.vol].path] = vol[Top.vol].table]_vars
  BY DEF destroy, At, Alone, TopAlone
<1> QED
  BY <1>1, AloneAlways, PTL DEF Spec, SavedOnClose

\* As long as no handler runs inside another, a cache is destroyed only after its volume
\* was unmounted.  A handler inside another one can break this.
THEOREM AloneDestroyedAfterUnmount ==
    ASSUME MaxDepth = 1
    PROVE  Spec => DestroyedAfterUnmount
<1> DEFINE A == \A v \in Vol, t \in Thread :
                   vol[v].cache /\ ~vol'[v].cache /\ vol'[v].state # "unallocated"
                      => ~(Serves(t) /\ session[t].vol = v)
<1>1. ASSUME Inv, Alone, Next
      PROVE  A
  <2> SUFFICES ASSUME NEW v \in Vol, NEW t \in Thread, Serves(t), vol[v].cache,
                      vol'[v].state # "unallocated"
               PROVE  vol'[v].cache
    OBVIOUS
  <2>1. Active(t) /\ vol \in [Vol -> Context]
    BY <1>1 DEF Serves, Active, Ended, Inv, VolumesOK
  <2>2. stack # <<>> => Top.pc \in {"creating", "detach", "joining"}
    BY <1>1, <2>1 DEF Alone, TopAlone
  <2>3. IsOpen
    BY <1>1, <2>1 DEF Alone, ServesCurrent, IsOpen
  <2>4. CASE Click
    <3>1. CASE \E p \in Path : on_create_volume_clicked(p)
      BY <2>1, <3>1 DEF on_create_volume_clicked, Context
    <3>2. CASE UNCHANGED vol
      BY <3>2
    <3> QED
      BY <2>3, <2>4, <3>1, <3>2 DEF Click, on_open_volume_clicked, on_close_volume_clicked,
         on_mount_volume_clicked, on_unmount_volume_clicked, on_quit_clicked, close_window
  <2>5. CASE Handle
    BY ZenonT(30), <2>1, <2>2, <2>5 DEF Handle, volume_created, stop_fuse_mount, volume_unmount,
       start_fuse_mount, write_back_table, flush, destroy, open_file, derive_keys, init_cache,
       load_table, volume_opened, At, Context
  <2>6. CASE \E x \in Thread : fuse_mount(x) \/ fuse_loop(x) \/ fuse_unmount(x)
    BY <2>1, <2>6 DEF fuse_mount, fuse_loop, fuse_unmount, Context
  <2>7. CASE Exit \/ Crash
    BY <2>7 DEF Exit, Crash, Restart, NoVolumes, Zeroed
  <2> QED
    BY <1>1, <2>4, <2>5, <2>6, <2>7 DEF Next
<1>2. Inv /\ Alone /\ [Next]_vars => [A]_vars
  BY <1>1
<1> QED
  BY <1>2, AloneAlways, PTL DEF Spec, DestroyedAfterUnmount

\* Only the current volume is freed by AfterClose, and it keeps its error.
LEMMA FreedByClose ==
    ASSUME NEW c \in Vol, c = current, NEW d \in Context, vol \in [Vol -> Context],
           NEW ok, AfterClose(ok, [vol EXCEPT ![c] = d]), NEW v \in Vol, Frees(v)
    PROVE  v = c /\ vol'[v].error = d.error
<1> DEFINE X == [vol EXCEPT ![c] = d]
<1>1. X \in [Vol -> Context] /\ X[c] = d /\ \A x \in Vol \ {c} : X[x] = vol[x]
  OBVIOUS
<1>2. AfterClose(ok, X)
  OBVIOUS
<1> HIDE DEF X
<1>3. /\ \A x \in Vol \ {c} : Freed(X, current)[x] = vol[x]
      /\ Freed(X, current)[c].error = d.error /\ Freed(X, current) \in [Vol -> Context]
  <2>1. /\ \A x \in Vol \ {c} : Freed(X, current)[x] = vol[x]
        /\ Freed(X, current)[c].error = d.error
    BY <1>1 DEF Freed, Zeroed
  <2>2. Freed(X, current) \in [Vol -> Context]
    BY <1>1, FreedType
  <2> QED
    BY <2>1, <2>2
<1>4. CASE vol' = X
  BY <1>1, <1>4, NoneAssumption DEF Frees
<1>5. CASE vol' = Freed(X, current)
  BY <1>3, <1>5 DEF Frees
<1>6. ASSUME NEW w \in Vol, vol' = [Freed(X, current) EXCEPT ![w] = Zeroed("allocated")]
      PROVE  v = c /\ vol'[v].error = d.error
  <2>1. v # w /\ vol'[v] = Freed(X, current)[v]
    BY <1>3, <1>6 DEF Frees, Zeroed
  <2> QED
    BY <1>3, <2>1 DEF Frees
<1> QED
  BY <1>2, <1>4, <1>5, <1>6 DEF AfterClose, Allocated, Unallocated

LEMMA FreedByOpen ==
    ASSUME NEW c \in Vol, c = current, NEW d \in Context, vol \in [Vol -> Context],
           OpenFailed([vol EXCEPT ![c] = d]), NEW v \in Vol, Frees(v)
    PROVE  v = c
<1> DEFINE X == [vol EXCEPT ![c] = d]
<1>1. X \in [Vol -> Context] /\ \A x \in Vol \ {c} : X[x] = vol[x]
  OBVIOUS
<1>2. vol' = Freed(X, current)
  BY DEF OpenFailed
<1> HIDE DEF X
<1> QED
  BY <1>1, <1>2, FreedType DEF Frees

\* As long as no handler runs inside another, a volume that was open is freed with its
\* table in the volume file, unless saving it failed.
THEOREM AloneFreedIsSaved ==
    ASSUME MaxDepth = 1
    PROVE  Spec => FreedIsSaved
<1> DEFINE Saved(v) == vol'[v].error \/ vol[v].stale \/ file'[vol[v].path] = vol[v].table
           A == \A v \in Vol : Frees(v) /\ vol[v].is_open => Saved(v)
<1>1. ASSUME Inv, Alone, Next
      PROVE  A
  <2> SUFFICES ASSUME NEW v \in Vol, Frees(v), vol[v].is_open
               PROVE  Saved(v)
    OBVIOUS
  <2> HIDE DEF Saved
  <2>1. vol \in [Vol -> Context] /\ current \in Vol \cup {None}
    BY <1>1 DEF Inv, RestOK, VolumesOK
  <2>2. vol'[v].state # vol[v].state /\ vol'[v].state = "freed"
    BY DEF Frees
  <2>3. CASE Click
    <3>1. CASE \E p \in Path : on_create_volume_clicked(p)
      BY <2>1, <2>2, <3>1 DEF on_create_volume_clicked, Context
    <3>2. CASE UNCHANGED vol
      BY <2>2, <3>2
    <3>3. ASSUME NEW w \in Vol, vol' = [vol EXCEPT ![w] = Zeroed("allocated")]
          PROVE  FALSE
      BY <2>1, <2>2, <3>3 DEF Zeroed
    <3> QED
      BY <2>3, <3>1, <3>2, <3>3 DEF Click, on_open_volume_clicked, Unallocated,
         on_close_volume_clicked, on_mount_volume_clicked, on_unmount_volume_clicked,
         on_quit_clicked, close_window
  <2>4. CASE volume_created \/ stop_fuse_mount \/ volume_unmount \/ start_fuse_mount
                            \/ write_back_table \/ volume_opened
    BY <2>1, <2>2, <2>4 DEF volume_created, stop_fuse_mount, volume_unmount, start_fuse_mount,
       write_back_table, volume_opened, Context
  <2>5. CASE flush
    <3>1. /\ stack # <<>> /\ Top.pc = "flushing" /\ InUse
          /\ UNCHANGED vol \/ AfterClose(FALSE, [vol EXCEPT ![Top.vol].error = TRUE])
      BY <2>5 DEF flush, At
    <3>2. Top.vol \in Vol /\ Top.vol = current
      BY <1>1, <3>1, ClosingTop
    <3> DEFINE d == [vol[Top.vol] EXCEPT !.error = TRUE]
    <3>3. d \in Context /\ d.error
      <4>1. vol[Top.vol] \in Context
        BY <2>1, <3>2
      <4> QED
        BY <4>1 DEF Context
    <3>4. UNCHANGED vol \/ AfterClose(FALSE, [vol EXCEPT ![Top.vol] = d])
      BY <3>1
    <3> HIDE DEF d
    <3> QED
      BY <2>1, <2>2, <3>2, <3>3, <3>4, FreedByClose DEF Saved
  <2>6. CASE destroy
    <3>1. /\ stack # <<>> /\ Top.pc = "destroying" /\ InUse /\ UNCHANGED file
      BY <2>6 DEF destroy, At
    <3>2. Top.vol \in Vol /\ Top.vol = current /\ vol[Top.vol] \in Context
      BY <1>1, <2>1, <3>1, ClosingTop
    <3> DEFINE d == [vol[Top.vol] EXCEPT !.is_mounted = FALSE, !.cache = FALSE,
                                         !.is_open = FALSE, !.keys = FALSE]
    <3>3. d \in Context
      BY <3>2, ClosedContext
    <3>4. [vol EXCEPT ![Top.vol].is_mounted = FALSE, ![Top.vol].cache = FALSE,
                      ![Top.vol].is_open = FALSE, ![Top.vol].keys = FALSE]
             = [vol EXCEPT ![Top.vol] = d]
      BY <2>1, <3>2
    <3>5. AfterClose(TRUE, [vol EXCEPT ![Top.vol] = d])
      BY <2>6, <3>4 DEF destroy
    <3> HIDE DEF d
    <3>6. v = Top.vol
      BY <2>1, <3>2, <3>3, <3>5, FreedByClose
    <3> QED
      BY <1>1, <3>1, <3>6 DEF Alone, TopAlone, Saved
  <2>7. CASE open_file
    <3>1. /\ stack # <<>> /\ Top.pc = "preparing" /\ current # None
      BY <2>7 DEF open_file, At
    <3>2. current \in Vol /\ ~vol[current].is_open /\ vol = [vol EXCEPT ![current] = vol[current]]
          /\ vol[current] \in Context
      BY <1>1, <2>1, <3>1 DEF Alone, TopAlone, Inv, VolumesOK
    <3>3. CASE OpenFailed(vol)
      <4>1. OpenFailed([vol EXCEPT ![current] = vol[current]])
        BY <3>2, <3>3
      <4> QED
        BY <2>1, <3>2, <4>1, FreedByOpen
    <3>4. CASE vol' = [vol EXCEPT ![current].path = Top.path]
      BY <2>1, <2>2, <3>2, <3>4 DEF Context
    <3> QED
      BY <2>7, <3>3, <3>4 DEF open_file
  <2>8. CASE derive_keys \/ init_cache \/ load_table
    <3> DEFINE u == Top.vol
               c == vol[u]
    <3>1. stack # <<>> /\ Opening(Top) /\ InUse
      BY <2>8 DEF derive_keys, init_cache, load_table, At, Opening
    <3>2. u \in Vol /\ u = current /\ c \in Context /\ ~c.is_open
      BY <1>1, <3>1, AloneOpening
    <3>3. ASSUME NEW d \in {[c EXCEPT !.keys = FALSE], [c EXCEPT !.keys = TRUE, !.error = TRUE],
                            [c EXCEPT !.error = TRUE], [c EXCEPT !.cache = FALSE, !.error = TRUE]},
                 OpenFailed([vol EXCEPT ![u] = d])
          PROVE  FALSE
      <4>1. [c EXCEPT !.keys = FALSE] \in Context
        BY <3>2 DEF Context
      <4>2. [c EXCEPT !.keys = TRUE, !.error = TRUE] \in Context
        BY <3>2 DEF Context
      <4>3. [c EXCEPT !.error = TRUE] \in Context
        BY <3>2 DEF Context
      <4>4. [c EXCEPT !.cache = FALSE, !.error = TRUE] \in Context
        BY <3>2 DEF Context
      <4>5. d \in Context
        BY <3>3, <4>1, <4>2, <4>3, <4>4
      <4> QED
        BY <2>1, <3>2, <3>3, <4>5, FreedByOpen
    <3>4. CASE derive_keys
      <4>1. [vol EXCEPT ![u].keys = TRUE, ![u].error = TRUE] =
               [vol EXCEPT ![u] = [c EXCEPT !.keys = TRUE, !.error = TRUE]]
        BY <2>1, <3>2
      <4>2. CASE vol' = [vol EXCEPT ![u].keys = TRUE]
        BY <2>1, <2>2, <3>2, <4>2 DEF Context
      <4> QED
        BY <3>3, <3>4, <4>1, <4>2 DEF derive_keys
    <3>5. CASE init_cache
      <4>1. CASE vol' = [vol EXCEPT ![u].cache = TRUE]
        BY <2>1, <2>2, <3>2, <4>1 DEF Context
      <4> QED
        BY <3>3, <3>5, <4>1 DEF init_cache
    <3>6. CASE load_table
      <4>1. [vol EXCEPT ![u].cache = FALSE, ![u].error = TRUE] =
               [vol EXCEPT ![u] = [c EXCEPT !.cache = FALSE, !.error = TRUE]]
        BY <2>1, <3>2
      <4>2. CASE vol' = [vol EXCEPT ![u].table = file[c.path], ![u].cached = file[c.path]]
        BY <2>1, <2>2, <3>2, <4>2 DEF Context
      <4> QED
        BY <3>3, <3>6, <4>1, <4>2 DEF load_table
    <3> QED
      BY <2>8, <3>4, <3>5, <3>6
  <2>9. CASE \E x \in Thread : fuse_mount(x) \/ fuse_loop(x) \/ fuse_unmount(x)
    BY <2>1, <2>2, <2>9 DEF fuse_mount, fuse_loop, fuse_unmount, Context
  <2>10. CASE Exit \/ Crash
    BY <2>2, <2>10 DEF Exit, Crash, Restart, NoVolumes, Zeroed
  <2> QED
    BY <1>1, <2>3, <2>4, <2>5, <2>6, <2>7, <2>8, <2>9, <2>10 DEF Next, Handle
<1>2. Inv /\ Alone /\ [Next]_vars => [A]_vars
  BY <1>1
<1> QED
  BY <1>2, AloneAlways, PTL DEF Spec, FreedIsSaved

==============================================================================
