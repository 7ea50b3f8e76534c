---------------------------- MODULE Guests_proofs ----------------------------
(***************************************************************************)
(* The guest programs, for every instance. The femtovg guest, for every    *)
(* scene, number of frames and calls, images and pages: canvas and         *)
(* replayer hold the same images, the host has what was flushed, and every *)
(* frame is its scene. The async guest, for every number and size of       *)
(* chunks, however the host splits a write: its stream loses no byte. The  *)
(* workload modules, for every word width, buffer size and argument: what  *)
(* a call leaves in an instance shows in no later result, and the relaxed  *)
(* kernels have one result whatever a runtime chooses.                     *)
(***************************************************************************)
EXTENDS FvgGuest, CmAsync, Workloads, Lists_proofs, FiniteSetTheorems

-----------------------------------------------------------------------------
(* The images. Every binding finds the arguments the guest passed.         *)

\* Whatever the runtime, an import's arguments are those of the call.
LEMMA Arguments ==
    /\ \A a, b, c, d : LET args == <<a, b, c, d>> IN
          \A i \in 0..3 : arg("image_alloc", args, i) = args[i + 1]
    /\ \A a, b, c, d, e, f, g, h : LET args == <<a, b, c, d, e, f, g, h>> IN
          \A i \in 0..7 : arg("image_update", args, i) = args[i + 1]
    /\ \A a : arg("image_delete", <<a>>, 0) = a
    /\ \A a, b, c, d : LET args == <<a, b, c, d>> IN
          arg("render", args, 0) = a /\ arg("render", args, 2) = c
<1>1. ASSUME NEW a, NEW b, NEW c, NEW d, NEW i \in 0..3
      PROVE  arg("image_alloc", <<a, b, c, d>>, i) = <<a, b, c, d>>[i + 1]
  BY DEF arg, Slots, FirstArg
<1>2. ASSUME NEW a, NEW b, NEW c, NEW d, NEW e, NEW f, NEW g, NEW h, NEW i \in 0..7
      PROVE  arg("image_update", <<a, b, c, d, e, f, g, h>>, i) = <<a, b, c, d, e, f, g, h>>[i + 1]
  BY DEF arg, Slots, FirstArg
<1>3. \A a : arg("image_delete", <<a>>, 0) = a BY DEF arg, Slots, FirstArg
<1>4. \A a, b, c, d : arg("render", <<a, b, c, d>>, 0) = a /\ arg("render", <<a, b, c, d>>, 2) = c
  BY DEF arg, Slots, FirstArg
<1>. QED BY <1>1, <1>2, <1>3, <1>4

LEMMA FormatPasses == \A f \in Formats : pixel_format(format_code(f)) = {f}
BY DEF Formats, pixel_format, format_code

ImageInv ==
    /\ known \in [DOMAIN known -> [format : Formats, data : Pixels \cup {"empty", "unknown"}]]
    /\ images \in [DOMAIN images -> [format : Formats, data : Pixels \cup {"empty"}]]
    /\ ImagesAgree

LEMMA ImagesInitially == Init => ImageInv
BY DEF Init, ImageInv, ImagesAgree

LEMMA AllocKeepsImages ==
    ASSUME ImageInv, NEW h \in Handles, NEW f \in Formats, ImageAlloc(h, f)
    PROVE  ImageInv'
<1>1. arg("image_alloc", <<Width, Height, format_code(f), Flags>>, 2) = format_code(f)
  <2>1. 2 \in 0..3 OBVIOUS
  <2>. QED BY <2>1, Arguments
<1>2. pixel_format(arg("image_alloc", <<Width, Height, format_code(f), Flags>>, 2)) = {f}
  BY <1>1, FormatPasses
<1>3. /\ h \notin DOMAIN images
      /\ images' = [i \in DOMAIN images \cup {h} |->
                       IF i = h THEN [format |-> f, data |-> "empty"] ELSE images[i]]
      /\ known' = [i \in DOMAIN known \cup {h} |->
                      IF i = h THEN [format |-> f, data |-> "empty"] ELSE known[i]]
  BY <1>2 DEF ImageAlloc
<1>. QED BY <1>3 DEF ImageInv, ImagesAgree

LEMMA UpdateKeepsImages ==
    ASSUME ImageInv, NEW h \in Handles, NEW d \in Pixels, NEW p, ImageUpdate(h, d, p)
    PROVE  ImageInv'
<1> DEFINE args == <<h, X, Y, Width, Height, format_code(known[h].format), p, 1>>
           a(i) == arg("image_update", args, i)
<1>1. a(0) = h /\ a(6) = p
  <2>1. 0 \in 0..7 /\ 6 \in 0..7 OBVIOUS
  <2>2. \A i \in 0..7 : a(i) = args[i + 1] BY Arguments
  <2>. QED BY <2>1, <2>2
<1>2. h \in DOMAIN known BY DEF ImageUpdate
<1>3. CASE UNCHANGED images /\ known' = [known EXCEPT ![h].data = "unknown"]
  BY <1>2, <1>3 DEF ImageInv, ImagesAgree
<1>4. CASE /\ known' = [known EXCEPT ![h].data = d]
           /\ \E bytes \in guest_span(d, p) : images' = [images EXCEPT ![h].data = bytes]
  <2>1. \A bytes \in guest_span(d, p) : bytes = d BY DEF guest_span, memory
  <2>2. images' = [images EXCEPT ![h].data = d] BY <1>4, <2>1
  <2>. QED BY <1>2, <1>4, <2>2 DEF ImageInv, ImagesAgree
<1> HIDE DEF args
<1>5. \/ UNCHANGED images /\ known' = [known EXCEPT ![h].data = "unknown"]
      \/ /\ known' = [known EXCEPT ![h].data = d]
         /\ \E bytes \in guest_span(IF a(6) = p THEN d ELSE Garbage, a(6)) :
               images' = [images EXCEPT ![a(0)].data = bytes]
  BY DEF ImageUpdate, args
<1>. QED BY <1>1, <1>3, <1>4, <1>5

LEMMA DeleteKeepsImages ==
    ASSUME ImageInv, NEW h \in Handles, ImageDelete(h)
    PROVE  ImageInv'
<1>1. arg("image_delete", <<h>>, 0) = h BY Arguments
<1>2. /\ images' = [i \in DOMAIN images \ {h} |-> images[i]]
      /\ known' = [i \in DOMAIN known \ {h} |-> known[i]]
  BY <1>1 DEF ImageDelete
<1>. QED BY <1>2 DEF ImageInv, ImagesAgree

LEMMA ImagesKept == ImageInv /\ [Next]_vars => ImageInv'
<1>. SUFFICES ASSUME ImageInv, [Next]_vars PROVE ImageInv' OBVIOUS
<1>1. CASE UNCHANGED <<known, images>> BY <1>1 DEF ImageInv, ImagesAgree
<1>2. CASE Images
  BY <1>2, AllocKeepsImages, UpdateKeepsImages, DeleteKeepsImages DEF Images
<1>3. CASE ~Images
  BY <1>1, <1>3 DEF Next, vars, fvg_init, LoadScene, SetState, fvg_frame, DrawItem, ClipItem,
     RestoreItem, Step, EndItems, Grow, Flush, Return, Finished
<1>. QED BY <1>2, <1>3

\* Whatever the canvas allocates, fills and deletes while it draws, on any of
\* the bindings and wherever memory has moved to, the replayer's images are the
\* guest's, with their formats and contents.
THEOREM ImagesAlwaysAgree == Spec => []ImagesAgree
<1>1. ImageInv => ImagesAgree BY DEF ImageInv
<1>. QED BY <1>1, ImagesInitially, ImagesKept, PTL DEF Spec

-----------------------------------------------------------------------------
(* The flush.                                                              *)

\* The host takes both vectors, or leaves what it had.
LEMMA FlushReaches ==
    ASSUME NEW pv \in Int, NEW pk \in Int, Flush(pv, pk), ~host.rendered
    PROVE  HostHasTheFrame'
<1> DEFINE v == guest_span(Encoded.verts, pv)
           c == guest_span(Encoded.commands, pk)
<1>1. host' = host_render(v, c) BY Arguments DEF Flush
<1>2. v \in {{}, {Encoded.verts}} /\ c \in {{}, {Encoded.commands}} BY DEF guest_span, memory
<1>3. /\ spans' = <<pv, pk>> /\ ret' = Encoded.commands.n
      /\ UNCHANGED <<rt, MEMORY, ops>>
  BY DEF Flush, canvas
<1>4. Encoded' = Encoded BY <1>3 DEF Encoded
<1>5. (rt = "Tinywasm" \/ (pv < HighPage /\ pk < HighPage)) /\ (rt = "Zwasm" => MEMORY # "null")
         => v # {} /\ c # {}
  BY PagesAssumption DEF guest_span
<1> HIDE DEF v, c
<1>6. \/ v # {} /\ c # {} /\ host' = [verts |-> v, commands |-> c, rendered |-> TRUE]
      \/ {} \in {v, c} /\ host' = host
  BY <1>1 DEF host_render
<1>7. CASE {} \in {v, c} /\ host' = host
  BY <1>3, <1>5, <1>7 DEF HostHasTheFrame
<1>8. CASE v # {} /\ c # {} /\ host' = [verts |-> v, commands |-> c, rendered |-> TRUE]
  BY <1>2, <1>3, <1>4, <1>8 DEF HostHasTheFrame
<1>. QED BY <1>6, <1>7, <1>8

HostInv ==
    /\ host = [verts |-> host.verts, commands |-> host.commands, rendered |-> host.rendered]
    /\ pc \in {"draw", "flush"} => ~host.rendered
    /\ HostHasTheFrame

LEMMA HostKept == HostInv /\ [Next]_vars => HostInv'
<1>. SUFFICES ASSUME HostInv, [Next]_vars PROVE HostInv' OBVIOUS
<1>1. CASE \E pv, pk \in 0..(mem.pages - 1) : Flush(pv, pk)
  <2>1. PICK pv, pk \in 0..(mem.pages - 1) : Flush(pv, pk) BY <1>1
  <2>2. ~host.rendered /\ pc' = "returned" BY <2>1 DEF HostInv, Flush
  <2>3. \E v, c : host' \in {host, [verts |-> v, commands |-> c, rendered |-> TRUE]}
    BY <2>1 DEF Flush, host_render
  <2>. QED BY <2>1, <2>2, <2>3, FlushReaches DEF HostInv
<1>2. CASE fvg_frame
  <2>1. pc' = "draw" /\ host' = [host EXCEPT !.rendered = FALSE] BY <1>2 DEF fvg_frame
  <2>. QED BY <2>1 DEF HostInv, HostHasTheFrame
<1>3. CASE pc' # "returned" /\ host' = host /\ (pc' \in {"draw", "flush"} => pc \in {"draw", "flush"})
  BY <1>3 DEF HostInv, HostHasTheFrame
<1>4. CASE UNCHANGED vars
  BY <1>4 DEF HostInv, HostHasTheFrame, vars, canvas, Encoded
<1>. QED
  BY <1>1, <1>2, <1>3, <1>4 DEF Next, fvg_init, LoadScene, SetState, DrawItem, ClipItem,
     RestoreItem, Step, EndItems, Grow, Return, Finished, Images, ImageAlloc, ImageUpdate,
     ImageDelete, Drawing

\* What the host has after a frame is what the guest flushed in that frame, on
\* every binding, and a flush is lost only where a vector is out of its reach.
THEOREM HostAlwaysHasTheFrame == Spec => []HostHasTheFrame
<1>1. Init => HostInv BY DEF Init, HostInv, HostHasTheFrame, NoFrame
<1>2. HostInv => HostHasTheFrame BY DEF HostInv
<1>. QED BY <1>1, <1>2, HostKept, PTL DEF Spec

-----------------------------------------------------------------------------
(* Sequences of nodes in document order.                                   *)

Upto(m) == [g \in 1..m |-> g]
Increasing(w) == \A j, k \in 1..Len(w) : j < k => w[j] < w[k]

LEMMA SameInterval == ASSUME NEW a \in Nat, NEW b \in Nat, 1..a = 1..b PROVE a = b
<1>1. \A n \in 1..a : n <= b OBVIOUS
<1>2. \A n \in 1..b : n <= a OBVIOUS
<1>3. a = 0 \/ a <= b BY <1>1
<1>4. b = 0 \/ b <= a BY <1>2
<1>5. a = 0 => b = 0 BY <1>4
<1>. QED BY <1>3, <1>4, <1>5

LEMMA UptoNext ==
    ASSUME NEW m \in Nat
    PROVE  /\ Upto(m) \in Seq(Nat) /\ Range(Upto(m)) = 1..m
           /\ Upto(m + 1) = Append(Upto(m), m + 1)
<1>1. Upto(m) \in Seq(Nat) /\ Len(Upto(m)) = m
  <2>1. Upto(m) \in [1..m -> Nat] BY DEF Upto
  <2>2. Upto(m) \in Seq(Nat) BY <2>1, SeqDef
  <2>3. DOMAIN Upto(m) = 1..Len(Upto(m)) /\ Len(Upto(m)) \in Nat BY <2>2, LenProperties
  <2>4. DOMAIN Upto(m) = 1..m BY DEF Upto
  <2>. QED BY <2>2, <2>3, <2>4, SameInterval
<1>2. Range(Upto(m)) = 1..m BY DEF Upto, Range
<1>3. Upto(m + 1) \in Seq(Nat) /\ Len(Upto(m + 1)) = m + 1
  <2>1. Upto(m + 1) \in [1..(m + 1) -> Nat] BY DEF Upto
  <2>2. Upto(m + 1) \in Seq(Nat) BY <2>1, SeqDef
  <2>3. DOMAIN Upto(m + 1) = 1..Len(Upto(m + 1)) /\ Len(Upto(m + 1)) \in Nat BY <2>2, LenProperties
  <2>4. DOMAIN Upto(m + 1) = 1..(m + 1) BY DEF Upto
  <2>5. m + 1 \in Nat OBVIOUS
  <2> DEFINE n == m + 1
             L == Len(Upto(n))
  <2>6. n \in Nat /\ L \in Nat /\ 1..L = 1..n BY <2>3, <2>4, <2>5
  <2> HIDE DEF n, L
  <2>7. L = n BY <2>6, SameInterval
  <2>. QED BY <2>2, <2>7 DEF n, L
<1> DEFINE t == Append(Upto(m), m + 1)
<1>4. /\ t \in Seq(Nat) /\ Len(t) = m + 1 /\ t[m + 1] = m + 1
      /\ \A i \in 1..m : t[i] = Upto(m)[i]
  BY <1>1, AppendProperties
<1> HIDE DEF t
<1>5. ASSUME NEW i \in 1..(m + 1) PROVE Upto(m + 1)[i] = t[i]
  <2>1. CASE i = m + 1 BY <1>4, <2>1 DEF Upto
  <2>2. CASE i # m + 1 BY <1>4, <2>2 DEF Upto
  <2>. QED BY <2>1, <2>2
<1>6. Upto(m + 1) = t BY <1>3, <1>4, <1>5, SeqEqual
<1>. QED BY <1>1, <1>2, <1>6 DEF t

LEMMA UptoNone == Upto(0) = <<>>
BY DEF Upto

LEMMA AmongUpto ==
    ASSUME NEW m \in Nat, NEW S
    PROVE  /\ Among(Upto(m), S) \in Seq(Nat)
           /\ Among(Upto(m + 1), S) =
                 IF m + 1 \in S THEN Append(Among(Upto(m), S), m + 1) ELSE Among(Upto(m), S)
<1>0. /\ Upto(m) \in Seq(Nat) /\ m + 1 \in Nat
      /\ Upto(m + 1) = Append(Upto(m), m + 1)
  <2>1. Upto(m) \in Seq(Nat) BY UptoNext
  <2>2. Upto(m + 1) = Append(Upto(m), m + 1) BY UptoNext
  <2>. QED BY <2>1, <2>2
<1> DEFINE Z == Nat
           s == Upto(m)
           x == m + 1
<1>1. s \in Seq(Z) /\ x \in Z /\ Upto(m + 1) = Append(s, x) BY <1>0
<1> HIDE DEF Z, s, x
<1>2. Among(s, S) \in Seq(Z) BY <1>1, AmongMembers
<1>3. Among(Append(s, x), S) = IF x \in S THEN Append(Among(s, S), x) ELSE Among(s, S)
  BY <1>1, AmongAppend
<1>. QED BY <1>1, <1>2, <1>3 DEF Z, s, x

\* Keeping the members of A, and of those the members of B.
LEMMA AmongTwice ==
    ASSUME NEW N \in Nat, NEW A, NEW B
    PROVE  Among(Among(Upto(N), A), B) = Among(Upto(N), A \cap B)
<1> DEFINE T == {m \in 0..N : Among(Among(Upto(m), A), B) = Among(Upto(m), A \cap B)}
<1>1. 0 \in T BY UptoNone, AmongEmpty
<1>2. ASSUME NEW m \in 0..(N - 1), m \in T PROVE m + 1 \in T
  <2>1. m \in Nat /\ m + 1 \in Nat /\ m + 1 \in 0..N OBVIOUS
  <2> DEFINE a == Among(Upto(m), A)
  <2>2. a \in Seq(Nat) BY <2>1, AmongUpto
  <2>3. Among(Upto(m + 1), A) = IF m + 1 \in A THEN Append(a, m + 1) ELSE a
    BY <2>1, AmongUpto
  <2>4. Among(Upto(m + 1), A \cap B) =
           IF m + 1 \in A \cap B THEN Append(Among(Upto(m), A \cap B), m + 1)
           ELSE Among(Upto(m), A \cap B)
    BY <2>1, AmongUpto
  <2>5. Among(a, B) = Among(Upto(m), A \cap B) BY <1>2
  <2> HIDE DEF a
  <2>6. Among(Append(a, m + 1), B) = IF m + 1 \in B THEN Append(Among(a, B), m + 1) ELSE Among(a, B)
    BY <2>1, <2>2, AmongAppend
  <2>7. Among(Among(Upto(m + 1), A), B) = Among(Upto(m + 1), A \cap B)
    BY <2>3, <2>4, <2>5, <2>6
  <2>. QED BY <2>1, <2>7
<1> HIDE DEF T
<1>3. \A m \in 0..N : m \in T BY <1>1, <1>2, Induction
<1>4. N \in T BY <1>3
<1>. QED BY <1>4 DEF T

LEMMA FrontIncreases ==
    ASSUME NEW w \in Seq(Nat), Increasing(w), NEW n \in Nat, Len(w) = n + 1
    PROVE  LET f == SubSeq(w, 1, n)
           IN  /\ f \in Seq(Nat) /\ Increasing(f) /\ w = Append(f, w[n + 1])
               /\ Len(f) = n /\ \A i \in 1..n : f[i] = w[i]
               /\ Range(f) = Range(w) \ {w[n + 1]}
<1> DEFINE f == SubSeq(w, 1, n)
<1>1. \A i \in 1..n : w[i] \in Nat BY ElementOfSeq
<1>2. f \in Seq(Nat) /\ Len(f) = n /\ \A i \in 1..n : f[i] = w[i]
  BY <1>1, SubSeqProperties
<1>3. w[n + 1] \in Nat BY ElementOfSeq
<1> HIDE DEF f
<1>4. Increasing(f) BY <1>2 DEF Increasing
<1> DEFINE t == Append(f, w[n + 1])
<1>5. t \in Seq(Nat) /\ Len(t) = n + 1 /\ t[n + 1] = w[n + 1] /\ \A i \in 1..n : t[i] = f[i]
  BY <1>2, <1>3, AppendProperties
<1> HIDE DEF t
<1>6. \A i \in 1..(n + 1) : t[i] = w[i]
  <2>. TAKE i \in 1..(n + 1)
  <2>1. CASE i = n + 1 BY <1>5, <2>1
  <2>2. CASE i # n + 1 BY <1>2, <1>5, <2>2
  <2>. QED BY <2>1, <2>2
<1>7. w = t BY <1>5, <1>6, SeqEqual
<1>8. DOMAIN w = 1..(n + 1) /\ DOMAIN f = 1..n BY <1>2, LenProperties
<1>9. Range(f) = Range(w) \ {w[n + 1]}
  <2>1. \A i \in 1..n : w[i] < w[n + 1] BY DEF Increasing
  <2>2. \A i \in 1..n : w[i] # w[n + 1] BY <1>1, <1>3, <2>1
  <2>3. 1..(n + 1) = 1..n \cup {n + 1} OBVIOUS
  <2>. QED BY <1>2, <1>8, <2>2, <2>3 DEF Range
<1>. QED BY <1>2, <1>4, <1>7, <1>9 DEF f, t

\* There is one way to list a set of numbers in order.
LEMMA InOrder ==
    ASSUME NEW N \in Nat, NEW S, NEW v \in Seq(Nat), Increasing(v), Range(v) = (1..N) \cap S
    PROVE  Among(Upto(N), S) = v
<1> DEFINE T == {m \in 0..N : \A w \in Seq(Nat) :
                    Increasing(w) /\ Range(w) = (1..m) \cap S => Among(Upto(m), S) = w}
<1>1. 0 \in T
  <2>1. ASSUME NEW w \in Seq(Nat), Range(w) = (1..0) \cap S PROVE Among(Upto(0), S) = w
    <3>1. Range(w) = {} BY <2>1
    <3>2. DOMAIN w = 1..Len(w) /\ Len(w) \in Nat BY LenProperties
    <3>3. Len(w) = 0
      <4>1. 1 \notin DOMAIN w BY <3>1 DEF Range
      <4>. QED BY <3>2, <4>1
    <3>4. w = <<>> BY <3>3, EmptySeq
    <3>. QED BY <3>4, UptoNone, AmongEmpty
  <2>2. 0 \in 0..N OBVIOUS
  <2>. QED BY <2>1, <2>2
<1>2. ASSUME NEW m \in 0..(N - 1), m \in T PROVE m + 1 \in T
  <2>1. /\ m \in Nat /\ m + 1 \in 0..N
        /\ 1..(m + 1) = 1..m \cup {m + 1} /\ m + 1 \notin 1..m
    OBVIOUS
  <2>2. Among(Upto(m + 1), S) =
           IF m + 1 \in S THEN Append(Among(Upto(m), S), m + 1) ELSE Among(Upto(m), S)
    BY <2>1, AmongUpto
  <2>3. ASSUME NEW w \in Seq(Nat), Increasing(w), Range(w) = (1..(m + 1)) \cap S
        PROVE  Among(Upto(m + 1), S) = w
    <3>1. CASE m + 1 \notin S
      <4>1. Range(w) = (1..m) \cap S BY <2>1, <2>3, <3>1
      <4>. QED BY <1>2, <2>2, <2>3, <3>1, <4>1
    <3>2. CASE m + 1 \in S
      <4>1. DOMAIN w = 1..Len(w) /\ Len(w) \in Nat BY LenProperties
      <4>2. PICK k \in 1..Len(w) : w[k] = m + 1
        <5>1. m + 1 \in Range(w) BY <2>1, <2>3, <3>2
        <5>. QED BY <4>1, <5>1 DEF Range
      <4>3. k = Len(w)
        <5> DEFINE L == Len(w)
        <5>0. L \in Nat /\ k \in 1..L BY <4>1
        <5>1. SUFFICES ASSUME k < Len(w) PROVE FALSE
          <6> HIDE DEF L
          <6>1. ~(k < L) => k = L BY <5>0
          <6>. QED BY <6>1 DEF L
        <5>2. w[k] < w[Len(w)] BY <2>3, <4>1, <5>1 DEF Increasing
        <5>3. w[Len(w)] \in 1..(m + 1)
          <6>1. Len(w) \in DOMAIN w BY <4>1, <5>1
          <6>2. w[Len(w)] \in Range(w) BY <6>1 DEF Range
          <6>. QED BY <2>3, <6>2
        <5>. QED BY <2>1, <4>2, <5>2, <5>3
      <4>4. PICK n \in Nat : Len(w) = n + 1
        <5>1. Len(w) - 1 \in Nat /\ Len(w) = (Len(w) - 1) + 1 BY <4>1, <4>2
        <5>. QED BY <5>1
      <4> DEFINE f == SubSeq(w, 1, n)
      <4>5. f \in Seq(Nat) /\ Increasing(f) /\ w = Append(f, m + 1) /\ Range(f) = Range(w) \ {m + 1}
        BY <2>3, <4>2, <4>3, <4>4, FrontIncreases
      <4> HIDE DEF f
      <4>6. Range(f) = (1..m) \cap S BY <2>1, <2>3, <4>5
      <4>7. Among(Upto(m), S) = f BY <1>2, <4>5, <4>6
      <4>. QED BY <2>2, <3>2, <4>5, <4>7
    <3>. QED BY <3>1, <3>2
  <2>. QED BY <2>1, <2>3
<1> HIDE DEF T
<1>3. \A m \in 0..N : m \in T BY <1>1, <1>2, Induction
<1>4. N \in T BY <1>3
<1>. QED BY <1>4 DEF T

-----------------------------------------------------------------------------
(* The picture of a scene, node by node.                                   *)

LEMMA TreeFacts ==
    ASSUME NEW doc, IsTree(doc)
    PROVE  /\ Len(doc) \in Nat \ {0} /\ DOMAIN doc = 1..Len(doc) /\ 1 \in DOMAIN doc
           /\ \A i \in 1..Len(doc) : doc[i].node \in {"group", "path", "text"}
           /\ \A g \in 1..Len(doc) : IsGroup(doc, g) =>
                 /\ doc[g].last \in g..Len(doc)
                 /\ \A h \in g..doc[g].last : IsGroup(doc, h) => doc[h].last <= doc[g].last
<1> DEFINE Z == {doc[i] : i \in DOMAIN doc}
<1>1. doc \in Seq(Z) /\ doc # <<>> BY DEF IsTree
<1> HIDE DEF Z
<1>2. Len(doc) \in Nat \ {0} /\ DOMAIN doc = 1..Len(doc) BY <1>1, LenProperties, EmptySeq
<1>. QED BY <1>2 DEF IsTree

LEMMA SingleIsList ==
    ASSUME NEW x
    PROVE  IsList(<<x>>) /\ Len(<<x>>) = 1 /\ <<x>>[1] = x /\ <<x>> # <<>>
<1>1. <<x>> \in Seq({x}) /\ Len(<<x>>) = 1 /\ <<x>>[1] = x OBVIOUS
<1>2. IsList(<<x>>)
  <2> DEFINE Z == {x}
             e == <<x>>
  <2>1. e \in Seq(Z) BY <1>1
  <2> HIDE DEF Z, e
  <2>2. IsList(e) BY <2>1, SeqIsList
  <2>. QED BY <2>2 DEF e
<1>3. <<x>> # <<>>
  <2>1. Len(<<>>) = 0 OBVIOUS
  <2>. QED BY <1>1, <2>1
<1>. QED BY <1>1, <1>2, <1>3

LEMMA PictureIsList == \A doc, i, zm : IsList(Picture(doc, i, zm))
<1>. TAKE doc, i, zm
<1>1. ASSUME NEW op, NEW p PROVE IsList(Painted(doc, i, op, p, zm))
  BY SingleIsList, EmptyIsList DEF Painted
<1>. QED BY <1>1, ConcatIsList, EmptyIsList DEF Picture

\* Each node adds its own strokes to those of the nodes before it.
LEMMA PictureSteps ==
    ASSUME NEW doc, IsTree(doc), NEW zm
    PROVE  LET f == PictureUpto(doc, zm)
           IN  /\ f[0] = <<Clear>>
               /\ \A i \in 1..Len(doc) : f[i] = f[i - 1] \o Picture(doc, i, zm)
               /\ \A i \in 0..Len(doc) : IsList(f[i])
<1> DEFINE N == Len(doc)
           M == [i \in 1..N |-> Picture(doc, i, zm)]
           a == <<Clear>>
           Z == {Clear} \cup UNION {Range(M[i]) : i \in 1..N}
           S == Seq(Z)
           step == [p \in S \X (1..N) |-> p[1] \o M[p[2]]]
           Body(f) == [i \in 0..N |-> IF i = 0 THEN a ELSE f[i - 1] \o Picture(doc, i, zm)]
<1>1. N \in Nat BY TreeFacts
<1>2. a \in S
  <2>1. Clear \in Z OBVIOUS
  <2> HIDE DEF Z
  <2>2. <<Clear>> \in Seq(Z) BY <2>1
  <2>. QED BY <2>2
<1>3. ASSUME NEW i \in 1..N PROVE M[i] = Picture(doc, i, zm) /\ M[i] \in S
  <2> DEFINE m == Picture(doc, i, zm)
  <2>1. M[i] = m OBVIOUS
  <2>2. IsList(m) BY PictureIsList
  <2>3. Range(m) \subseteq Z BY <2>1
  <2> HIDE DEF m, Z, M
  <2>4. m \in Seq(Z) BY <2>2, <2>3, SeqMonotonic DEF IsList
  <2>. QED BY <2>1, <2>4 DEF m
<1> HIDE DEF N, M, a, Z
<1>4. step \in [S \X (1..N) -> S]
  <2>. SUFFICES ASSUME NEW p \in S \X (1..N) PROVE p[1] \o M[p[2]] \in S OBVIOUS
  <2>1. p[1] \in S /\ M[p[2]] \in S BY <1>3
  <2>. QED BY <2>1, ConcatProperties
<1>5. PICK f \in [0..N -> S] : CountsUp(f, a, N, step)
  <2> HIDE DEF S, step
  <2>. QED BY <1>1, <1>2, <1>4, RecursionExists
<1>6. f[0] = a /\ \A i \in 1..N : f[i] = f[i - 1] \o Picture(doc, i, zm)
  <2>1. f[0] = a /\ \A i \in 1..N : f[i] = step[<<f[i - 1], i>>] BY <1>5 DEF CountsUp
  <2>2. ASSUME NEW i \in 1..N PROVE f[i] = f[i - 1] \o Picture(doc, i, zm)
    <3>1. i - 1 \in 0..N /\ f[i - 1] \in S BY <1>1, <1>5
    <3>2. <<f[i - 1], i>> \in S \X (1..N) BY <3>1
    <3>3. step[<<f[i - 1], i>>] = f[i - 1] \o M[i] BY <3>2
    <3>. QED BY <1>3, <2>1, <3>3
  <2>. QED BY <2>1, <2>2
<1> HIDE DEF S, step
<1>7. f = Body(f)
  <2>1. ASSUME NEW i \in 0..N PROVE f[i] = Body(f)[i]
    <3>1. CASE i = 0 BY <1>6, <3>1
    <3>2. CASE i # 0
      <4>1. i \in 1..N BY <1>1, <3>2
      <4>2. Body(f)[i] = f[i - 1] \o Picture(doc, i, zm) BY <3>2
      <4>. QED BY <1>6, <4>1, <4>2
    <3>. QED BY <3>1, <3>2
  <2>. QED BY <1>5, <2>1
<1> DEFINE upto == CHOOSE g : g = Body(g)
<1>8. upto = Body(upto)
  <2> HIDE DEF Body
  <2>. QED BY <1>7
<1>9. PictureUpto(doc, zm) = upto BY DEF PictureUpto, N, a
<1> HIDE DEF upto
<1>10. upto[0] = a
  <2>1. 0 \in 0..N BY <1>1
  <2>2. Body(upto)[0] = a BY <2>1
  <2> HIDE DEF Body
  <2>. QED BY <1>8, <2>2
<1>11. ASSUME NEW i \in 1..N PROVE upto[i] = upto[i - 1] \o Picture(doc, i, zm)
  <2>1. i \in 0..N /\ i # 0 BY <1>1
  <2>2. Body(upto)[i] = upto[i - 1] \o Picture(doc, i, zm) BY <2>1
  <2> HIDE DEF Body
  <2>. QED BY <1>8, <2>2
<1>12. \A i \in 0..N : IsList(upto[i])
  <2> DEFINE T == {i \in 0..N : IsList(upto[i])}
  <2>1. 0 \in T
    <3>1. IsList(a) BY SingleIsList DEF a
    <3>. QED BY <1>1, <1>10, <3>1
  <2>2. ASSUME NEW i \in 0..(N - 1), i \in T PROVE i + 1 \in T
    <3>1. i + 1 \in 1..N /\ i + 1 \in 0..N /\ (i + 1) - 1 = i BY <1>1
    <3>2. upto[i + 1] = upto[i] \o Picture(doc, i + 1, zm) BY <1>11, <3>1
    <3>3. IsList(upto[i]) BY <2>2
    <3>. QED BY <3>1, <3>2, <3>3, PictureIsList, ConcatIsList
  <2> HIDE DEF T
  <2>3. \A i \in 0..N : i \in T BY <1>1, <2>1, <2>2, Induction
  <2>. QED BY <2>3 DEF T
<1>. QED BY <1>9, <1>10, <1>11, <1>12 DEF N, a

-----------------------------------------------------------------------------
(* Replaying a list from where fvg_frame starts.                           *)

Start(z) == [stack |-> <<Default, [Default EXCEPT !.zoom = z]>>, ops |-> <<Clear>>]

\* What the canvas has after an item, from what it had before.
Marks(op, item, painted, top) ==
    [i \in 1..Len(painted) |->
        [op |-> op, path |-> item.path, alpha |-> painted[i], clips |-> top.clips,
         zoom |-> top.zoom]]
Pushed(states, clip) ==
    LET s == Append(states, states[Len(states)])
    IN  [s EXCEPT ![Len(s)].clips = Append(@, clip)]
Popped(states) ==
    IF Len(states) > 1 THEN SubSeq(states, 1, Len(states) - 1)
    ELSE [states EXCEPT ![Len(states)] = Default]
After(c, item) ==
    LET top == c.stack[Len(c.stack)]
    IN  CASE item.item = "draw" ->
                [stack |-> c.stack,
                 ops |-> c.ops \o Marks("fill", item, item.fill, top) \o Marks("stroke", item, item.stroke, top)]
          [] item.item = "clip" ->
                [stack |-> Pushed(c.stack, Shape(item)), ops |-> c.ops]
          [] item.item = "restore" ->
                [stack |-> Popped(c.stack), ops |-> c.ops]

Plays(R, list, z) ==
    /\ R[0] = Start(z)
    /\ \A k \in 1..Len(list) : R[k] = After(R[k - 1], list[k])
Replays(list, z, c) == \E R : Plays(R, list, z) /\ R[Len(list)] = c

LEMMA ReplayNothing == \A z : Replays(<<>>, z, Start(z))
<1>. TAKE z
<1> DEFINE R == [k \in 0..0 |-> Start(z)]
<1>1. Len(<<>>) = 0 /\ R[0] = Start(z) OBVIOUS
<1> HIDE DEF R
<1>2. Plays(R, <<>>, z) BY <1>1 DEF Plays
<1>. QED BY <1>1, <1>2 DEF Replays

LEMMA ReplayOneMore ==
    ASSUME NEW list, IsList(list), NEW item, NEW z, NEW c, Replays(list, z, c)
    PROVE  Replays(Append(list, item), z, After(c, item))
<1> DEFINE N == Len(list)
           t == Append(list, item)
<1>1. /\ N \in Nat /\ Len(t) = N + 1 /\ t[N + 1] = item
      /\ \A i \in 1..N : t[i] = list[i]
  BY AppendIsList
<1>2. PICK R : Plays(R, list, z) /\ R[N] = c BY DEF Replays
<1> DEFINE Q == [k \in 0..(N + 1) |-> IF k = N + 1 THEN After(c, item) ELSE R[k]]
<1>3. R[0] = Start(z) /\ \A k \in 1..N : R[k] = After(R[k - 1], list[k]) BY <1>2 DEF Plays
<1> HIDE DEF N, t
<1>4. Q[0] = Start(z) /\ Q[N + 1] = After(c, item) BY <1>1, <1>3
<1>5. ASSUME NEW k \in 1..(N + 1) PROVE Q[k] = After(Q[k - 1], t[k])
  <2>1. CASE k = N + 1
    <3>1. (N + 1) - 1 = N /\ N \in 0..(N + 1) /\ N # N + 1 BY <1>1
    <3>2. Q[N] = c BY <1>2, <3>1
    <3>. QED BY <1>1, <1>4, <2>1, <3>1, <3>2
  <2>2. CASE k # N + 1
    <3>1. /\ k \in 1..N /\ k \in 0..(N + 1) /\ k - 1 \in 0..(N + 1)
          /\ k # N + 1 /\ k - 1 # N + 1
      BY <1>1, <2>2
    <3>2. Q[k] = R[k] /\ Q[k - 1] = R[k - 1] BY <3>1
    <3>. QED BY <1>1, <1>3, <3>1, <3>2
  <2>. QED BY <2>1, <2>2
<1> HIDE DEF Q
<1>6. Plays(Q, t, z) BY <1>1, <1>4, <1>5 DEF Plays
<1>. QED BY <1>1, <1>4, <1>6 DEF Replays, t

-----------------------------------------------------------------------------
(* The canvas's states inside some clips.                                  *)

\* The state before the frame, then the frame's, then one for each clip.
Clipping(doc, c) == [j \in 1..Len(c) |-> Shape(clip_geometry(doc[c[j]].clip))]
Levels(doc, c, z) ==
    [p \in 1..(Len(c) + 2) |->
        IF p = 1 THEN Default
        ELSE [zoom |-> z, clips |-> [j \in 1..(p - 2) |-> Shape(clip_geometry(doc[c[j]].clip))]]]

LEMMA FunctionIsList ==
    ASSUME NEW m \in Nat, NEW f, f = [i \in 1..m |-> f[i]]
    PROVE  IsList(f) /\ Len(f) = m
<1> DEFINE Z == {f[i] : i \in 1..m}
<1>1. \A i \in 1..m : f[i] \in Z OBVIOUS
<1>2. DOMAIN f = 1..m OBVIOUS
<1> HIDE DEF Z
<1>3. f \in [1..m -> Z] BY <1>1
<1>4. f \in Seq(Z) BY <1>3, SeqDef
<1>5. Len(f) \in Nat /\ DOMAIN f = 1..Len(f) BY <1>4, LenProperties
<1>6. Len(f) = m BY <1>2, <1>5, SameInterval
<1>. QED BY <1>4, <1>6, SeqIsList

LEMMA LevelsAreList ==
    ASSUME NEW doc, NEW c, Len(c) \in Nat, NEW z
    PROVE  /\ IsList(Levels(doc, c, z)) /\ Len(Levels(doc, c, z)) = Len(c) + 2
           /\ Levels(doc, c, z)[1] = Default
           /\ Levels(doc, c, z)[Len(c) + 2] = [zoom |-> z, clips |-> Clipping(doc, c)]
<1> DEFINE n == Len(c) + 2
<1>1. n \in Nat /\ 1 \in 1..n /\ n \in 1..n /\ n # 1 /\ n - 2 = Len(c) OBVIOUS
<1>2. Levels(doc, c, z) = [i \in 1..n |-> Levels(doc, c, z)[i]] BY DEF Levels
<1>3. Levels(doc, c, z)[1] = Default BY <1>1 DEF Levels
<1>4. Levels(doc, c, z)[n] = [zoom |-> z, clips |-> Clipping(doc, c)] BY <1>1 DEF Levels, Clipping
<1> HIDE DEF n
<1>. QED BY <1>1, <1>2, <1>3, <1>4, FunctionIsList DEF n

LEMMA StartIsLevel == \A doc, z : Start(z) = [stack |-> Levels(doc, <<>>, z), ops |-> <<Clear>>]
<1>. TAKE doc, z
<1> DEFINE a == <<Default, [zoom |-> z, clips |-> <<>>]>>
           L == Levels(doc, <<>>, z)
<1>1. Len(<<>>) = 0 OBVIOUS
<1>2. Clipping(doc, <<>>) = <<>> BY DEF Clipping
<1> DEFINE e == <<>>
<1>a. Len(e) \in Nat /\ Len(e) + 2 = 2 BY <1>1
<1> HIDE DEF e
<1>b. /\ IsList(Levels(doc, e, z)) /\ Len(Levels(doc, e, z)) = Len(e) + 2
      /\ Levels(doc, e, z)[1] = Default
      /\ Levels(doc, e, z)[Len(e) + 2] = [zoom |-> z, clips |-> Clipping(doc, e)]
  BY <1>a, LevelsAreList
<1>3. IsList(L) /\ Len(L) = 2 /\ L[1] = Default /\ L[2] = [zoom |-> z, clips |-> <<>>]
  BY <1>a, <1>b, <1>2 DEF e
<1>4. L = a
  <2> HIDE DEF L
  <2>1. L \in Seq(Range(L)) BY <1>3 DEF IsList
  <2>2. L = [i \in 1..2 |-> L[i]] BY <1>3, <2>1, LenProperties
  <2>3. L = <<L[1], L[2]>> BY <1>3, <2>1, <2>2
  <2>. QED BY <1>3, <2>3
<1>. QED BY <1>4 DEF Start, Default

LEMMA ClippingOneMore ==
    ASSUME NEW doc, NEW c, IsList(c), NEW g
    PROVE  Clipping(doc, Append(c, g)) = Append(Clipping(doc, c), Shape(clip_geometry(doc[g].clip)))
<1> DEFINE N == Len(c)
           t == Append(c, g)
           m == Clipping(doc, c)
           x == Shape(clip_geometry(doc[g].clip))
           u == Append(m, x)
<1>1. /\ N \in Nat /\ N + 1 \in Nat /\ Len(t) = N + 1 /\ t[N + 1] = g
      /\ \A i \in 1..N : t[i] = c[i]
  BY AppendIsList
<1>2. IsList(m) /\ Len(m) = N
  <2>1. m = [i \in 1..N |-> m[i]] BY DEF Clipping
  <2>. QED BY <1>1, <2>1, FunctionIsList
<1>3. /\ IsList(u) /\ Len(u) = N + 1 /\ u[N + 1] = x /\ \A i \in 1..N : u[i] = m[i]
  BY <1>2, AppendIsList
<1>4. Clipping(doc, t) = [i \in 1..(N + 1) |-> Clipping(doc, t)[i]] BY <1>1 DEF Clipping
<1>5. ASSUME NEW i \in 1..(N + 1) PROVE Clipping(doc, t)[i] = u[i]
  <2>0. Clipping(doc, t)[i] = Shape(clip_geometry(doc[t[i]].clip)) BY <1>1 DEF Clipping
  <2>1. CASE i = N + 1 BY <1>1, <1>3, <2>0, <2>1
  <2>2. CASE i # N + 1
    <3>1. i \in 1..N BY <1>1, <2>2
    <3>2. m[i] = Shape(clip_geometry(doc[c[i]].clip)) BY <3>1 DEF Clipping
    <3>. QED BY <1>1, <1>3, <2>0, <3>1, <3>2
  <2>. QED BY <2>1, <2>2
<1> HIDE DEF u
<1>6. u = [i \in 1..(N + 1) |-> u[i]]
  <2>1. u \in Seq(Range(u)) BY <1>3 DEF IsList
  <2>. QED BY <1>3, <2>1, LenProperties
<1>7. Clipping(doc, t) = u BY <1>4, <1>5, <1>6
<1>. QED BY <1>7 DEF u

LEMMA SameList ==
    ASSUME NEW s, IsList(s), NEW t, IsList(t), Len(s) = Len(t), \A i \in 1..Len(s) : s[i] = t[i]
    PROVE  s = t
<1> DEFINE Z == Range(s) \cup Range(t)
<1>1. s \in Seq(Z) /\ t \in Seq(Z) BY SeqMonotonic DEF IsList
<1> HIDE DEF Z
<1>. QED BY <1>1, SeqEqual

\* One more clip is one more state, and restoring takes it off again.
LEMMA LevelsOneMore ==
    ASSUME NEW doc, NEW c, IsList(c), NEW g, NEW z
    PROVE  /\ Pushed(Levels(doc, c, z), Shape(clip_geometry(doc[g].clip))) = Levels(doc, Append(c, g), z)
           /\ Popped(Levels(doc, Append(c, g), z)) = Levels(doc, c, z)
<1> DEFINE N == Len(c)
           t == Append(c, g)
           L == Levels(doc, c, z)
           M == Levels(doc, t, z)
           x == Shape(clip_geometry(doc[g].clip))
           top == [zoom |-> z, clips |-> Clipping(doc, c)]
           s == Append(L, top)
           n == N + 2
<1>1. /\ N \in Nat /\ N + 1 \in Nat /\ IsList(t) /\ Len(t) = N + 1 /\ t[N + 1] = g
      /\ \A i \in 1..N : t[i] = c[i]
  BY AppendIsList
<1>2. IsList(L) /\ Len(L) = n /\ L[n] = top /\ L[Len(L)] = top BY <1>1, LevelsAreList
<1>3. IsList(M) /\ Len(M) = n + 1 /\ M[n + 1] = [zoom |-> z, clips |-> Clipping(doc, t)]
  <2>1. Len(t) \in Nat /\ Len(t) + 2 = n + 1 BY <1>1
  <2> HIDE DEF t, n
  <2>2. /\ IsList(Levels(doc, t, z)) /\ Len(Levels(doc, t, z)) = Len(t) + 2
        /\ Levels(doc, t, z)[Len(t) + 2] = [zoom |-> z, clips |-> Clipping(doc, t)]
    BY <2>1, LevelsAreList
  <2>. QED BY <2>1, <2>2
<1>4. IsList(s) /\ Len(s) = n + 1 /\ s[n + 1] = top /\ \A i \in 1..n : s[i] = L[i]
  BY <1>2, AppendIsList
<1>5. ASSUME NEW i \in 1..n PROVE M[i] = L[i]
  <2>1. CASE i = 1 BY <1>1, <2>1 DEF Levels
  <2>2. CASE i # 1
    <3>1. i \in 1..(Len(t) + 2) /\ i \in 1..(Len(c) + 2) BY <1>1
    <3>2. M[i] = [zoom |-> z, clips |-> [j \in 1..(i - 2) |-> Shape(clip_geometry(doc[t[j]].clip))]]
      BY <2>2, <3>1 DEF Levels
    <3>3. L[i] = [zoom |-> z, clips |-> [j \in 1..(i - 2) |-> Shape(clip_geometry(doc[c[j]].clip))]]
      BY <2>2, <3>1 DEF Levels
    <3>4. \A j \in 1..(i - 2) : t[j] = c[j] BY <1>1
    <3>. QED BY <3>2, <3>3, <3>4
  <2>. QED BY <2>1, <2>2
<1>6. Clipping(doc, t) = Append(Clipping(doc, c), x) BY ClippingOneMore
<1>n. n \in Nat BY <1>1
<1> HIDE DEF L, M, s, x, n, t
<1>7. [s EXCEPT ![Len(s)].clips = Append(@, x)] = M
  <2> DEFINE e == [s EXCEPT ![Len(s)].clips = Append(@, x)]
  <2>1. DOMAIN s = 1..(n + 1) /\ DOMAIN M = 1..(n + 1) /\ M = [i \in 1..(n + 1) |-> M[i]]
    <3>1. s \in Seq(Range(s)) /\ M \in Seq(Range(M)) BY <1>3, <1>4 DEF IsList
    <3>. QED BY <1>3, <1>4, <3>1, LenProperties
  <2>2. e = [i \in 1..(n + 1) |-> e[i]] BY <2>1
  <2>3. e[n + 1] = [top EXCEPT !.clips = Append(@, x)] BY <1>4, <2>1, <1>n
  <2>4. e[n + 1] = M[n + 1] BY <1>3, <1>6, <2>3
  <2>5. \A i \in 1..n : e[i] = s[i] BY <1>4, <2>1, <1>n
  <2> HIDE DEF e
  <2>6. \A i \in 1..(n + 1) : e[i] = M[i]
    <3>. TAKE i \in 1..(n + 1)
    <3>1. CASE i = n + 1 BY <2>4, <3>1
    <3>2. CASE i # n + 1
      <4>1. i \in 1..n BY <1>n, <3>2
      <4>. QED BY <1>4, <1>5, <2>5, <4>1
    <3>. QED BY <3>1, <3>2
  <2>7. e = M BY <2>1, <2>2, <2>6
  <2>. QED BY <2>7 DEF e
<1>8. SubSeq(M, 1, n) = L
  <2>1. M \in Seq(Range(M)) BY <1>3 DEF IsList
  <2>2. \A i \in 1..n : M[i] \in Range(M) BY <1>3, <1>n, <2>1, LenProperties DEF Range
  <2>3. /\ SubSeq(M, 1, n) \in Seq(Range(M)) /\ Len(SubSeq(M, 1, n)) = n
        /\ \A i \in 1..n : SubSeq(M, 1, n)[i] = M[i]
    BY <1>n, <2>2, SubSeqProperties
  <2>4. IsList(SubSeq(M, 1, n)) BY <2>3, SeqIsList
  <2>. QED BY <1>2, <1>5, <2>3, <2>4, SameList
<1>9. Len(M) - 1 = n /\ Len(M) > 1
  <2>1. n + 1 > 1 BY <1>1 DEF n
  <2>. QED BY <1>3, <1>n, <2>1
<1>10. Pushed(L, x) = M BY <1>2, <1>7 DEF Pushed, s
<1>11. Popped(M) = L BY <1>8, <1>9 DEF Popped
<1>. QED BY <1>10, <1>11 DEF L, M, x, t

-----------------------------------------------------------------------------
(* The walk.                                                               *)

Doc == SCENES[scene]
Groups(w) == [k \in 1..Len(w) |-> w[k].group]

\* The calls of walk under way are those for the groups around the next node,
\* outermost first, except that the innermost may be at its end.
WalkInv ==
    /\ scene \in DOMAIN SCENES
    /\ node \in 1..(Len(Doc) + 1)
    /\ IsList(walking)
    /\ \A k \in 1..Len(walking) :
          /\ walking[k].group \in 1..(node - 1) /\ IsGroup(Doc, walking[k].group)
          /\ Doc[walking[k].group].last >= node - 1
          /\ walking[k].opacity = [j \in 1..k |-> Doc[walking[j].group].opacity]
    /\ Increasing(Groups(walking))
    /\ \A g \in 1..(node - 1) : IsGroup(Doc, g) /\ Doc[g].last >= node =>
          \E k \in 1..Len(walking) : walking[k].group = g

LEMMA GroupsAreList ==
    ASSUME WalkInv
    PROVE  /\ Len(walking) \in Nat /\ node \in Nat /\ IsTree(Doc) /\ Len(Doc) \in Nat
           /\ walking = [k \in 1..Len(walking) |-> walking[k]]
           /\ Groups(walking) \in Seq(Nat) /\ Len(Groups(walking)) = Len(walking)
           /\ (walking # <<>> <=> Len(walking) > 0)
<1>1. IsTree(Doc) BY ScenesAssumption DEF WalkInv, Doc
<1>2. Len(Doc) \in Nat BY <1>1, TreeFacts
<1>3. node \in Nat BY <1>2 DEF WalkInv
<1>4. walking \in Seq(Range(walking)) BY DEF WalkInv, IsList
<1>5. /\ Len(walking) \in Nat /\ walking = [k \in 1..Len(walking) |-> walking[k]]
      /\ (walking # <<>> <=> Len(walking) > 0)
  BY <1>4, LenProperties, EmptySeq
<1>6. Groups(walking) \in [1..Len(walking) -> Nat]
  <2>1. \A k \in 1..Len(walking) : walking[k].group \in 1..(node - 1) BY DEF WalkInv
  <2>2. \A k \in 1..Len(walking) : walking[k].group \in Nat BY <1>3, <2>1
  <2>. QED BY <2>2 DEF Groups
<1>7. Groups(walking) \in Seq(Nat) BY <1>5, <1>6, SeqDef
<1>8. Len(Groups(walking)) = Len(walking)
  <2>1. Groups(walking) = [k \in 1..Len(walking) |-> Groups(walking)[k]] BY <1>6
  <2>. QED BY <1>5, <2>1, FunctionIsList
<1>. QED BY <1>1, <1>2, <1>3, <1>5, <1>7, <1>8

\* Groups nest: an innermost call that is not at its end leaves none at its own.
LEMMA NodeIsWithin ==
    ASSUME WalkInv, NextNode
    PROVE  /\ node \in 1..Len(Doc)
           /\ walking = <<>> => node = 1
           /\ \A k \in 1..Len(walking) : Doc[walking[k].group].last >= node
<1> DEFINE N == Len(walking)
           end(k) == Doc[walking[k].group].last
<1>1. /\ N \in Nat /\ node \in Nat /\ IsTree(Doc) /\ Len(Doc) \in Nat
      /\ (walking # <<>> <=> N > 0)
  BY GroupsAreList
<1>2. CASE walking = <<>>
  <2>1. node = 1 /\ N = 0 BY <1>1, <1>2 DEF NextNode
  <2>2. 1 \in 1..Len(Doc) BY <1>1, TreeFacts
  <2>. QED BY <1>2, <2>1, <2>2
<1>3. CASE walking # <<>>
  <2>1. node <= end(N) BY <1>3 DEF NextNode, Within, Node, Doc
  <2>2. N \in 1..N BY <1>1, <1>3
  <2>3. \A k \in 1..N : /\ walking[k].group \in 1..(node - 1) /\ IsGroup(Doc, walking[k].group)
                        /\ walking[k].group \in 1..Len(Doc)
    <3>1. \A k \in 1..N : walking[k].group \in 1..(node - 1) /\ IsGroup(Doc, walking[k].group)
      BY DEF WalkInv
    <3>2. node \in 1..(Len(Doc) + 1) BY DEF WalkInv
    <3>3. \A g \in 1..(node - 1) : g \in 1..Len(Doc) BY <1>1, <3>2
    <3>. QED BY <3>1, <3>3
  <2>4. \A k \in 1..N : end(k) \in walking[k].group..Len(Doc)
    BY <1>1, <2>3, TreeFacts
  <2>5. node \in 1..Len(Doc) BY <1>1, <2>1, <2>2, <2>3, <2>4
  <2>6. ASSUME NEW k \in 1..N PROVE end(k) >= node
    <3>1. CASE k = N BY <1>1, <2>1, <2>2, <2>4, <3>1
    <3>2. CASE k # N
      <4>1. Groups(walking)[k] < Groups(walking)[N]
        <5>1. k < N /\ Len(Groups(walking)) = N BY <1>1, <3>2, GroupsAreList
        <5>. QED BY <2>2, <5>1 DEF WalkInv, Increasing
      <4>2. walking[k].group < walking[N].group BY <2>2, <4>1 DEF Groups
      <4>3. end(k) >= node - 1 BY DEF WalkInv
      <4>4. walking[N].group \in walking[k].group..end(k)
        BY <1>1, <2>2, <2>3, <2>4, <4>2, <4>3
      <4>5. end(N) <= end(k)
        <5>1. \A g \in 1..Len(Doc) : IsGroup(Doc, g) =>
                 \A h \in g..Doc[g].last : IsGroup(Doc, h) => Doc[h].last <= Doc[g].last
          BY <1>1, TreeFacts
        <5>. QED BY <2>2, <2>3, <4>4, <5>1
      <4>. QED BY <1>1, <2>1, <2>2, <2>4, <4>5
    <3>. QED BY <3>1, <3>2
  <2>. QED BY <1>3, <2>5, <2>6
<1>. QED BY <1>2, <1>3

\* So that the groups and the clips around the next node are at hand.
LEMMA WalkIsAround ==
    ASSUME WalkInv, NextNode
    PROVE  /\ Around(Doc, node, DOMAIN Doc) = Groups(walking)
           /\ Around(Doc, node, Clipped(Doc)) = Among(Groups(walking), Clipped(Doc))
<1> DEFINE N == node - 1
           S == {g \in DOMAIN Doc : IsGroup(Doc, g) /\ node <= Doc[g].last}
           C == {g \in Clipped(Doc) : IsGroup(Doc, g) /\ node <= Doc[g].last}
           v == Groups(walking)
<1>1. /\ Len(walking) \in Nat /\ node \in Nat /\ IsTree(Doc) /\ Len(Doc) \in Nat
      /\ v \in Seq(Nat) /\ Len(v) = Len(walking)
  BY GroupsAreList
<1>2. DOMAIN Doc = 1..Len(Doc) BY <1>1, TreeFacts
<1>3. node \in 1..Len(Doc) /\ \A k \in 1..Len(walking) : Doc[walking[k].group].last >= node
  BY NodeIsWithin
<1>4. N \in Nat BY <1>3
<1>5. \A g \in 1..N : g \in DOMAIN Doc BY <1>1, <1>2, <1>3
<1>6. Range(v) = (1..N) \cap S
  <2>1. DOMAIN v = 1..Len(walking) BY DEF Groups
  <2>2. \A k \in 1..Len(walking) : v[k] = walking[k].group BY DEF Groups
  <2>3. \A g \in 1..N : IsGroup(Doc, g) => Doc[g].last \in Int
    BY <1>1, <1>2, <1>5, TreeFacts
  <2>4. ASSUME NEW k \in 1..Len(walking) PROVE v[k] \in (1..N) \cap S
    <3>1. walking[k].group \in 1..N /\ IsGroup(Doc, walking[k].group) BY DEF WalkInv
    <3>2. Doc[walking[k].group].last >= node BY <1>3
    <3>. QED BY <1>1, <1>5, <2>2, <2>3, <3>1, <3>2
  <2>5. ASSUME NEW g \in (1..N) \cap S PROVE \E k \in 1..Len(walking) : v[k] = g
    <3>1. Doc[g].last >= node BY <1>1, <2>3
    <3>. QED BY <2>2, <3>1 DEF WalkInv
  <2>. QED BY <2>1, <2>4, <2>5 DEF Range
<1>7. Increasing(v) BY DEF WalkInv
<1> HIDE DEF N, S, v
<1>8. Among(Upto(N), S) = v BY <1>1, <1>4, <1>6, <1>7, InOrder
<1>9. S \cap Clipped(Doc) = C BY DEF S, Clipped
<1> HIDE DEF C
<1>10. Among(Upto(N), C) = Among(v, Clipped(Doc)) BY <1>4, <1>8, <1>9, AmongTwice
<1>. QED BY <1>8, <1>10 DEF Around, Upto, N, S, C, v

LEMMA WalkKeepsItsPlace == ASSUME WalkInv, Walk PROVE WalkInv'
<1> DEFINE N == Len(walking)
           w(k) == walking[k]
<1>0. scene' = scene /\ Doc' = Doc
  BY DEF Walk, WalkGroup, WalkPath, WalkText, WalkReturn, NextNode, Doc
<1>1. /\ N \in Nat /\ node \in Nat /\ IsTree(Doc) /\ Len(Doc) \in Nat
      /\ (walking # <<>> <=> N > 0)
  BY GroupsAreList
<1>2. \A g \in 1..Len(Doc) : IsGroup(Doc, g) => Doc[g].last \in g..Len(Doc)
  BY <1>1, TreeFacts
<1>3. /\ scene \in DOMAIN SCENES /\ node \in 1..(Len(Doc) + 1) /\ IsList(walking)
      /\ \A k \in 1..N : w(k).group \in 1..(node - 1) /\ IsGroup(Doc, w(k).group)
      /\ \A k \in 1..N : Doc[w(k).group].last >= node - 1
      /\ \A k \in 1..N : w(k).opacity = [j \in 1..k |-> Doc[walking[j].group].opacity]
      /\ \A j, k \in 1..N : j < k => w(j).group < w(k).group
      /\ \A g \in 1..(node - 1) : IsGroup(Doc, g) /\ Doc[g].last >= node =>
            \E k \in 1..N : w(k).group = g
  BY GroupsAreList DEF WalkInv, Increasing, Groups
<1>4. \A g \in 1..node : node <= Len(Doc) => g \in 1..Len(Doc) BY <1>1
<1>5. CASE WalkPath \/ WalkText
  <2>1. NextNode /\ walking' = walking /\ ~IsGroup(Doc, node) /\ node' = node + 1
    BY <1>5 DEF WalkPath, WalkText, NextNode, IsGroup, Node, Doc
  <2>2. node \in 1..Len(Doc) /\ \A k \in 1..N : Doc[w(k).group].last >= node
    BY <2>1, NodeIsWithin
  <2>3. node' \in 1..(Len(Doc) + 1) /\ node' - 1 = node BY <1>1, <2>1, <2>2
  <2>4. \A k \in 1..N : w(k).group \in 1..node BY <1>1, <1>3
  <2>5. ASSUME NEW g \in 1..node, IsGroup(Doc, g), Doc[g].last >= node + 1
        PROVE  \E k \in 1..N : w(k).group = g
    <3>1. g \in 1..Len(Doc) /\ g # node BY <1>4, <2>1, <2>2, <2>5
    <3>2. g \in 1..(node - 1) /\ Doc[g].last >= node BY <1>1, <1>2, <2>5, <3>1
    <3>. QED BY <1>3, <2>5, <3>2
  <2>6. Increasing(Groups(walking)) BY DEF WalkInv
  <2>7. \A k \in 1..N : /\ walking[k].group \in 1..node /\ IsGroup(Doc, walking[k].group)
                        /\ Doc[walking[k].group].last >= node
                        /\ walking[k].opacity = [j \in 1..k |-> Doc[walking[j].group].opacity]
    BY <1>3, <2>2, <2>4
  <2>. QED BY <1>0, <1>3, <2>1, <2>3, <2>5, <2>6, <2>7 DEF WalkInv
<1>6. CASE WalkGroup
  <2> DEFINE r == [group |-> node, opacity |-> Append(Opacity, Doc[node].opacity)]
             t == Append(walking, r)
  <2>1. NextNode /\ walking' = t /\ IsGroup(Doc, node) /\ node' = node + 1
    BY <1>6 DEF WalkGroup, NextNode, Node, Doc
  <2>2. node \in 1..Len(Doc) /\ \A k \in 1..N : Doc[w(k).group].last >= node
    BY <2>1, NodeIsWithin
  <2>3. node' \in 1..(Len(Doc) + 1) /\ node' - 1 = node BY <1>1, <2>1, <2>2
  <2>4. /\ IsList(t) /\ Len(t) = N + 1 /\ t[N + 1] = r /\ \A k \in 1..N : t[k] = w(k)
    BY <1>3, AppendIsList
  <2>5. Doc[node].last >= node BY <1>1, <1>2, <2>1, <2>2
  <2>6. r.opacity = [j \in 1..(N + 1) |-> IF j = N + 1 THEN Doc[node].opacity ELSE Doc[walking[j].group].opacity]
    <3> DEFINE o == Opacity
               x == Doc[node].opacity
               u == Append(o, x)
    <3>1. o = [j \in 1..N |-> Doc[walking[j].group].opacity]
      <4>1. CASE N = 0
        <5>1. walking = <<>> BY <1>1, <4>1
        <5>2. o = <<>> BY <5>1 DEF Opacity
        <5>. QED BY <4>1, <5>2
      <4>2. CASE N # 0
        <5>1. walking # <<>> /\ N \in 1..N BY <1>1, <4>2
        <5>. QED BY <1>3, <5>1 DEF Opacity, Within
      <4>. QED BY <4>1, <4>2
    <3>2. IsList(o) /\ Len(o) = N
      <4>1. o = [j \in 1..N |-> o[j]] BY <3>1
      <4> HIDE DEF o
      <4>. QED BY <1>1, <4>1, FunctionIsList
    <3>3. IsList(u) /\ Len(u) = N + 1 /\ u[N + 1] = x /\ \A j \in 1..N : u[j] = o[j]
      BY <3>2, AppendIsList
    <3>4. u = [j \in 1..(N + 1) |-> u[j]]
      <4>1. u \in Seq(Range(u)) BY <3>3 DEF IsList
      <4> HIDE DEF u
      <4>. QED BY <3>3, <4>1, LenProperties
    <3>5. r.opacity = u OBVIOUS
    <3>6. \A j \in 1..(N + 1) : j # N + 1 => j \in 1..N BY <1>1
    <3> HIDE DEF u, o, x, r
    <3>7. \A j \in 1..(N + 1) : u[j] = IF j = N + 1 THEN x ELSE Doc[walking[j].group].opacity
      BY <3>1, <3>3, <3>6
    <3>. QED BY <3>4, <3>5, <3>7 DEF x
  <2> HIDE DEF t
  <2>7. ASSUME NEW k \in 1..(N + 1)
        PROVE  /\ t[k].group \in 1..node /\ IsGroup(Doc, t[k].group) /\ Doc[t[k].group].last >= node
               /\ t[k].opacity = [j \in 1..k |-> Doc[t[j].group].opacity]
    <3>1. CASE k = N + 1
      <4>1. t[k] = r /\ r.group = node /\ node \in 1..node BY <1>1, <2>2, <2>4, <3>1
      <4>2. \A j \in 1..(N + 1) : j # N + 1 => j \in 1..N BY <1>1
      <4>3. \A j \in 1..k : Doc[t[j].group].opacity =
               IF j = N + 1 THEN Doc[node].opacity ELSE Doc[walking[j].group].opacity
        BY <2>4, <3>1, <4>1, <4>2
      <4> HIDE DEF r
      <4>. QED BY <2>1, <2>5, <2>6, <3>1, <4>1, <4>3
    <3>2. CASE k # N + 1
      <4>1. k \in 1..N /\ \A j \in 1..k : j \in 1..N BY <1>1, <3>2
      <4>2. t[k] = w(k) /\ \A j \in 1..k : t[j] = walking[j] BY <2>4, <4>1
      <4>3. w(k).group \in 1..node BY <1>1, <1>3, <4>1
      <4>4. t[k].opacity = [j \in 1..k |-> Doc[walking[j].group].opacity] BY <1>3, <4>1, <4>2
      <4>5. [j \in 1..k |-> Doc[walking[j].group].opacity] = [j \in 1..k |-> Doc[t[j].group].opacity]
        BY <4>2
      <4>. QED BY <1>3, <2>2, <4>1, <4>2, <4>3, <4>4, <4>5
    <3>. QED BY <3>1, <3>2
  <2>8. Increasing(Groups(t))
    <3>1. \A j \in 1..(N + 1) : Groups(t)[j] = t[j].group BY <2>4 DEF Groups
    <3>2. Len(Groups(t)) = N + 1
      <4>1. Groups(t) = [k \in 1..(N + 1) |-> Groups(t)[k]] BY <2>4 DEF Groups
      <4>. QED BY <1>1, <4>1, FunctionIsList
    <3>3. ASSUME NEW j \in 1..(N + 1), NEW k \in 1..(N + 1), j < k PROVE t[j].group < t[k].group
      <4>1. j \in 1..N BY <1>1, <3>3
      <4>2. CASE k = N + 1
        <5>1. t[k].group = node BY <2>4, <4>2
        <5>2. t[j].group \in 1..(node - 1) BY <1>3, <2>4, <4>1
        <5>. QED BY <1>1, <5>1, <5>2
      <4>3. CASE k # N + 1
        <5>1. k \in 1..N BY <1>1, <4>3
        <5>. QED BY <1>3, <2>4, <3>3, <4>1, <5>1
      <4>. QED BY <4>2, <4>3
    <3>. QED BY <3>1, <3>2, <3>3 DEF Increasing
  <2>9. ASSUME NEW g \in 1..node, IsGroup(Doc, g), Doc[g].last >= node + 1
        PROVE  \E k \in 1..(N + 1) : t[k].group = g
    <3>0. \A k \in 1..N : k \in 1..(N + 1) BY <1>1
    <3>1. CASE g = node
      <4>1. N + 1 \in 1..(N + 1) BY <1>1
      <4>. QED BY <2>4, <3>1, <4>1
    <3>2. CASE g # node
      <4>1. g \in 1..Len(Doc) BY <1>4, <2>2
      <4>2. g \in 1..(node - 1) /\ Doc[g].last >= node BY <1>1, <1>2, <2>9, <3>2, <4>1
      <4>3. PICK k \in 1..N : w(k).group = g BY <1>3, <2>9, <4>2
      <4>. QED BY <2>4, <3>0, <4>3
    <3>. QED BY <3>1, <3>2
  <2>10. Len(t) = N + 1 BY <2>4
  <2> HIDE DEF r
  <2>. QED BY <1>0, <1>3, <2>1, <2>3, <2>4, <2>7, <2>8, <2>9, <2>10 DEF WalkInv
<1>7. CASE WalkReturn
  <2> DEFINE n == N - 1
             f == SubSeq(walking, 1, n)
  <2>1. /\ N > 0 /\ node > Doc[w(N).group].last /\ walking' = f /\ node' = node
    BY <1>1, <1>7 DEF WalkReturn, Within, Node, Doc
  <2>2. n \in Nat /\ N = n + 1 /\ \A k \in 1..n : k \in 1..N BY <1>1, <2>1
  <2> HIDE DEF n
  <2>3. IsList(f) /\ Len(f) = n /\ \A k \in 1..n : f[k] = w(k)
    <3>1. walking \in Seq(Range(walking)) BY <1>3 DEF IsList
    <3>2. \A k \in 1..n : walking[k] \in Range(walking) BY <2>2, <3>1, LenProperties DEF Range
    <3>3. f \in Seq(Range(walking)) /\ Len(f) = n /\ \A k \in 1..n : f[k] = w(k)
      BY <2>2, <3>2, SubSeqProperties
    <3>. QED BY <3>3, SeqIsList
  <2> HIDE DEF f
  <2>4. Increasing(Groups(f))
    <3>1. \A j \in 1..n : Groups(f)[j] = w(j).group BY <2>3 DEF Groups
    <3>2. Len(Groups(f)) = n
      <4>1. Groups(f) = [k \in 1..n |-> Groups(f)[k]] BY <2>3 DEF Groups
      <4>. QED BY <2>2, <4>1, FunctionIsList
    <3>. QED BY <1>3, <2>2, <3>1, <3>2 DEF Increasing
  <2>5. ASSUME NEW k \in 1..n
        PROVE  /\ f[k].group \in 1..(node - 1) /\ IsGroup(Doc, f[k].group)
               /\ Doc[f[k].group].last >= node - 1
               /\ f[k].opacity = [j \in 1..k |-> Doc[f[j].group].opacity]
    <3>1. k \in 1..N /\ \A j \in 1..k : j \in 1..n BY <2>2
    <3>2. \A j \in 1..k : f[j] = walking[j] BY <2>3, <3>1
    <3>. QED BY <1>3, <2>3, <3>1, <3>2
  <2>6. ASSUME NEW g \in 1..(node - 1), IsGroup(Doc, g), Doc[g].last >= node
        PROVE  \E k \in 1..n : f[k].group = g
    <3>1. PICK k \in 1..N : w(k).group = g BY <1>3, <2>6
    <3>2. g \in 1..Len(Doc) BY <1>1, <1>3
    <3>3. k # N BY <1>1, <1>2, <2>1, <2>6, <3>1, <3>2
    <3>4. k \in 1..n BY <2>2, <3>3
    <3>. QED BY <2>3, <3>1, <3>4
  <2>7. scene' \in DOMAIN SCENES /\ node' \in 1..(Len(Doc') + 1) /\ IsList(walking')
    BY <1>0, <1>3, <2>1, <2>3
  <2>8. Len(walking') = n BY <2>1, <2>3
  <2>. QED BY <1>0, <2>1, <2>4, <2>5, <2>6, <2>7, <2>8 DEF WalkInv
<1>. QED BY <1>5, <1>6, <1>7 DEF Walk

-----------------------------------------------------------------------------
(* The list the walk makes.                                                *)

LEMMA GroupsOneMore ==
    ASSUME NEW w, IsList(w), NEW r
    PROVE  Groups(Append(w, r)) = Append(Groups(w), r.group)
<1> DEFINE N == Len(w)
           t == Append(w, r)
           v == Groups(w)
           g == r.group
           u == Append(v, g)
           q == Groups(t)
<1>1. N \in Nat /\ N + 1 \in Nat /\ Len(t) = N + 1 /\ t[N + 1] = r /\ \A i \in 1..N : t[i] = w[i]
  BY AppendIsList
<1>2. IsList(v) /\ Len(v) = N
  <2>1. v = [k \in 1..N |-> v[k]] BY DEF Groups
  <2> HIDE DEF v
  <2>. QED BY <1>1, <2>1, FunctionIsList
<1>3. IsList(u) /\ Len(u) = N + 1 /\ u[N + 1] = g /\ \A i \in 1..N : u[i] = v[i]
  BY <1>2, AppendIsList
<1>4. q = [k \in 1..(N + 1) |-> q[k]] BY <1>1 DEF Groups
<1>5. IsList(q) /\ Len(q) = N + 1
  <2> HIDE DEF q
  <2>. QED BY <1>1, <1>4, FunctionIsList
<1>6. ASSUME NEW i \in 1..(N + 1) PROVE q[i] = u[i]
  <2>0. q[i] = t[i].group BY <1>1 DEF Groups
  <2>1. CASE i = N + 1 BY <1>1, <1>3, <2>0, <2>1
  <2>2. CASE i # N + 1
    <3>1. i \in 1..N BY <1>1, <2>2
    <3>2. v[i] = w[i].group BY <3>1 DEF Groups
    <3>. QED BY <1>1, <1>3, <2>0, <3>1, <3>2
  <2>. QED BY <2>1, <2>2
<1> HIDE DEF q, u
<1>7. q = u BY <1>3, <1>5, <1>6, SameList
<1>. QED BY <1>7 DEF q, u

\* Entering a group adds a clip if it has one.
LEMMA ClipsOneMore ==
    ASSUME NEW w, IsList(w), Groups(w) \in Seq(Nat), NEW r, r.group \in Nat, NEW doc
    PROVE  LET c == Among(Groups(w), Clipped(doc))
           IN  /\ IsList(c)
               /\ Among(Groups(Append(w, r)), Clipped(doc)) =
                     IF r.group \in Clipped(doc) THEN Append(c, r.group) ELSE c
<1> DEFINE Z == Nat
           v == Groups(w)
           g == r.group
           C == Clipped(doc)
<1>1. Groups(Append(w, r)) = Append(v, g) BY GroupsOneMore
<1>2. v \in Seq(Z) /\ g \in Z OBVIOUS
<1> HIDE DEF Z, v, g, C
<1>3. Among(Append(v, g), C) = IF g \in C THEN Append(Among(v, C), g) ELSE Among(v, C)
  BY <1>2, AmongAppend
<1>4. Among(v, C) \in Seq(Z) BY <1>2, AmongMembers
<1>5. IsList(Among(v, C)) BY <1>4, SeqIsList
<1>. QED BY <1>1, <1>3, <1>5 DEF v, g, C

LEMMA PathsOneMore ==
    ASSUME NEW list, IsList(list), NEW x
    PROVE  /\ paths(list) \in Nat
           /\ paths(Append(list, x)) = IF x.item = "draw" THEN paths(list) + 1 ELSE paths(list)
<1> DEFINE N == Len(list)
           t == Append(list, x)
           D == {k \in DOMAIN list : list[k].item = "draw"}
           E == {k \in DOMAIN t : t[k].item = "draw"}
<1>1. /\ N \in Nat /\ DOMAIN list = 1..N /\ DOMAIN t = 1..(N + 1)
      /\ t[N + 1] = x /\ \A k \in 1..N : t[k] = list[k]
  BY AppendIsList
<1>2. IsFiniteSet(D)
  <2>1. IsFiniteSet(1..N) BY <1>1, FS_Interval
  <2>2. D \subseteq 1..N BY <1>1
  <2>. QED BY <2>1, <2>2, FS_Subset
<1>3. Cardinality(D) \in Nat BY <1>2, FS_CardinalityType
<1>4. N + 1 \notin D /\ 1..(N + 1) = 1..N \cup {N + 1} BY <1>1
<1>5. E = IF x.item = "draw" THEN D \cup {N + 1} ELSE D BY <1>1, <1>4
<1> HIDE DEF D, E, N
<1>6. Cardinality(D \cup {N + 1}) = Cardinality(D) + 1 BY <1>2, <1>4, FS_AddElement
<1>. QED BY <1>3, <1>5, <1>6 DEF paths, D, E

Seen(doc, n) == {i \in InPicture(doc) : i < n}
LEMMA SeenOneMore ==
    ASSUME NEW doc, IsTree(doc), NEW n \in 1..Len(doc)
    PROVE  /\ Cardinality(Seen(doc, n)) \in Nat
           /\ Cardinality(Seen(doc, n + 1)) =
                 IF Picture(doc, n, 0) # <<>> THEN Cardinality(Seen(doc, n)) + 1
                 ELSE Cardinality(Seen(doc, n))
<1> DEFINE N == Len(doc)
           S == Seen(doc, n)
<1>1. N \in Nat /\ DOMAIN doc = 1..N BY TreeFacts
<1>2. IsFiniteSet(S)
  <2>1. IsFiniteSet(1..N) BY <1>1, FS_Interval
  <2>2. S \subseteq 1..N BY <1>1 DEF Seen, InPicture
  <2>. QED BY <2>1, <2>2, FS_Subset
<1>3. Cardinality(S) \in Nat BY <1>2, FS_CardinalityType
<1>4. n \notin S BY <1>1 DEF Seen
<1>5. Seen(doc, n + 1) = IF Picture(doc, n, 0) # <<>> THEN S \cup {n} ELSE S
  BY <1>1 DEF Seen, InPicture
<1> HIDE DEF S
<1>6. Cardinality(S \cup {n}) = Cardinality(S) + 1 BY <1>2, <1>4, FS_AddElement
<1>. QED BY <1>3, <1>5, <1>6 DEF S

\* What is painted of a path is what its item makes the canvas record.
LEMMA MarksAreThePicture ==
    ASSUME NEW doc, NEW i, NEW z, NEW op, NEW p, NEW item, item.path = doc[i].path
    PROVE  Marks(op, item, paint(p, Opacities(doc, i)), [zoom |-> z, clips |-> Clips(doc, i)]) =
              Painted(doc, i, op, p, z)
<1> DEFINE a == Append(Opacities(doc, i), p.opacity)
           top == [zoom |-> z, clips |-> Clips(doc, i)]
<1>1. CASE p = None \/ p.paint = "pattern"
  <2>1. paint(p, Opacities(doc, i)) = <<>> /\ Painted(doc, i, op, p, z) = <<>>
    BY <1>1 DEF paint, Painted
  <2>2. Marks(op, item, <<>>, top) = <<>> BY DEF Marks
  <2>. QED BY <2>1, <2>2
<1>2. CASE ~(p = None \/ p.paint = "pattern")
  <2> HIDE DEF a
  <2>1. paint(p, Opacities(doc, i)) = <<a>> BY <1>2 DEF paint, a
  <2>2. Painted(doc, i, op, p, z) =
           <<[op |-> op, path |-> item.path, alpha |-> a, clips |-> top.clips, zoom |-> top.zoom]>>
    BY <1>2 DEF Painted, a
  <2>3. Marks(op, item, <<a>>, top) =
           <<[op |-> op, path |-> item.path, alpha |-> a, clips |-> top.clips, zoom |-> top.zoom]>>
    BY DEF Marks
  <2>. QED BY <2>1, <2>2, <2>3
<1>. QED BY <1>1, <1>2

\* At most one item, which makes the canvas record p.
Shows(d, c, p) ==
    \/ d = <<>> /\ p = <<>>
    \/ /\ p # <<>>
       /\ \E item : /\ d = <<item>> /\ item.item = "draw"
                    /\ After(c, item) = [stack |-> c.stack, ops |-> c.ops \o p]

LEMMA DrawnIsThePicture ==
    ASSUME NEW doc, NEW i, doc[i].node = "path", NEW z, NEW st, NEW o, IsList(o),
           st[Len(st)] = [zoom |-> z, clips |-> Clips(doc, i)]
    PROVE  Shows(Drawn(doc[i], Opacities(doc, i)), [stack |-> st, ops |-> o], Picture(doc, i, z))
<1> DEFINE n == doc[i]
           fill == paint(n.fill, Opacities(doc, i))
           stroke == paint(n.stroke, Opacities(doc, i))
           item == [item |-> "draw", path |-> n.path, fill |-> fill, stroke |-> stroke]
           A == Painted(doc, i, "fill", n.fill, z)
           B == Painted(doc, i, "stroke", n.stroke, z)
           top == [zoom |-> z, clips |-> Clips(doc, i)]
<1>1. (fill = <<>> <=> A = <<>>) /\ (stroke = <<>> <=> B = <<>>)
  BY SingleIsList DEF paint, Painted
<1>2. IsList(A) /\ IsList(B) BY SingleIsList, EmptyIsList DEF Painted
<1>3. Picture(doc, i, z) = IF n.visible THEN A \o B ELSE <<>> BY DEF Picture
<1>4. Drawn(n, Opacities(doc, i)) =
         IF n.visible /\ (fill # <<>> \/ stroke # <<>>) THEN <<item>> ELSE <<>>
  BY DEF Drawn
<1>5. /\ Marks("fill", item, fill, top) = A /\ Marks("stroke", item, stroke, top) = B
      /\ item.item = "draw" /\ item.fill = fill /\ item.stroke = stroke
  BY MarksAreThePicture
<1> HIDE DEF A, B, fill, stroke, item, top
<1>6. <<>> \o <<>> = <<>>
  <2>1. \A s : s = <<>> => s \in Seq({}) BY EmptySeq
  <2>. QED BY <2>1, ConcatEmptySeq
<1>7. (A \o B = <<>>) <=> (A = <<>> /\ B = <<>>)
  <2>1. A \in Seq(Range(A) \cup Range(B)) /\ B \in Seq(Range(A) \cup Range(B))
    BY <1>2, SeqMonotonic DEF IsList
  <2>2. /\ Len(A \o B) = Len(A) + Len(B) /\ Len(A) \in Nat /\ Len(B) \in Nat
        /\ A \o B \in Seq(Range(A) \cup Range(B))
    BY <2>1, ConcatProperties, LenProperties
  <2>3. A \o B = <<>> => Len(A) = 0 /\ Len(B) = 0 BY <2>2, EmptySeq
  <2>. QED BY <1>6, <2>1, <2>3, EmptySeq
<1>8. CASE ~(n.visible /\ (fill # <<>> \/ stroke # <<>>))
  BY <1>1, <1>3, <1>4, <1>7, <1>8 DEF Shows
<1>9. CASE n.visible /\ (fill # <<>> \/ stroke # <<>>)
  <2>1. Picture(doc, i, z) = A \o B /\ A \o B # <<>> /\ Drawn(n, Opacities(doc, i)) = <<item>>
    BY <1>1, <1>3, <1>4, <1>7, <1>9
  <2>2. After([stack |-> st, ops |-> o], item) = [stack |-> st, ops |-> (o \o A) \o B]
    <3>1. st[Len(st)] = top BY DEF top
    <3>2. After([stack |-> st, ops |-> o], item) =
             [stack |-> st, ops |-> (o \o Marks("fill", item, item.fill, st[Len(st)]))
                                      \o Marks("stroke", item, item.stroke, st[Len(st)])]
      BY <1>5 DEF After
    <3>. QED BY <1>5, <3>1, <3>2
  <2>3. (o \o A) \o B = o \o (A \o B)
    <3> DEFINE Z == Range(o) \cup Range(A) \cup Range(B)
    <3>1. o \in Seq(Z) /\ A \in Seq(Z) /\ B \in Seq(Z) BY <1>2, SeqMonotonic DEF IsList
    <3> HIDE DEF Z
    <3>. QED BY <3>1, ConcatAssociative
  <2>. QED BY <1>5, <2>1, <2>2, <2>3 DEF Shows
<1>. QED BY <1>8, <1>9 DEF n

\* The list so far replays to the picture so far, in the states of the clips
\* the walk is inside of, at any zoom.
Reached(z) ==
    [stack |-> Levels(Doc, Among(Groups(walking), Clipped(Doc)), z),
     ops |-> PictureUpto(Doc, z)[node - 1]]
ListInv ==
    /\ IsList(items)
    /\ paths(items) = Cardinality(Seen(Doc, node))
    /\ \A z : Replays(items, z, Reached(z))

LEMMA PictureNext ==
    ASSUME WalkInv, NextNode, NEW z
    PROVE  LET f == PictureUpto(Doc, z)
           IN  /\ f[node] = f[node - 1] \o Picture(Doc, node, z)
               /\ IsList(f[node - 1]) /\ f[node - 1] \o <<>> = f[node - 1]
<1> DEFINE o == PictureUpto(Doc, z)[node - 1]
<1>1. IsTree(Doc) /\ node \in 1..Len(Doc) /\ Len(Doc) \in Nat BY GroupsAreList, NodeIsWithin
<1>2. node - 1 \in 0..Len(Doc) BY <1>1
<1>3. IsList(o) /\ PictureUpto(Doc, z)[node] = o \o Picture(Doc, node, z)
  BY <1>1, <1>2, PictureSteps
<1> HIDE DEF o
<1>4. o \in Seq(Range(o)) BY <1>3 DEF IsList
<1>5. o \o <<>> = o BY <1>4, ConcatEmptySeq
<1>. QED BY <1>3, <1>5 DEF o

\* What no path paints.
LEMMA NotAPath ==
    ASSUME NEW doc, NEW i, doc[i].node # "path"
    PROVE  \A z : Picture(doc, i, z) = <<>>
BY DEF Picture

LEMMA ReachedOps ==
    ASSUME WalkInv, NextNode, Doc' = Doc, Doc[node].node # "path", NEW z
    PROVE  /\ PictureUpto(Doc', z)[node' - 1] = PictureUpto(Doc, z)[node - 1]
           /\ Cardinality(Seen(Doc', node')) = Cardinality(Seen(Doc, node))
<1>1. node' - 1 = node /\ node' = node + 1 /\ node \in 1..Len(Doc) /\ IsTree(Doc)
  BY GroupsAreList, NodeIsWithin DEF NextNode
<1>2. Picture(Doc, node, z) = <<>> /\ Picture(Doc, node, 0) = <<>> BY NotAPath
<1>3. PictureUpto(Doc, z)[node] = PictureUpto(Doc, z)[node - 1] BY <1>2, PictureNext
<1>4. Cardinality(Seen(Doc, node + 1)) = Cardinality(Seen(Doc, node)) BY <1>1, <1>2, SeenOneMore
<1>. QED BY <1>1, <1>3, <1>4

LEMMA TextKeepsTheList == ASSUME WalkInv, ListInv, WalkText PROVE ListInv'
<1>1. /\ NextNode /\ Doc' = Doc /\ walking' = walking /\ items' = items /\ Doc[node].node # "path"
  BY DEF WalkText, NextNode, Doc, Node
<1>2. ASSUME NEW z PROVE Replays(items', z, Reached(z)')
  <2>1. Reached(z)' = Reached(z) BY <1>1, ReachedOps DEF Reached
  <2>. QED BY <1>1, <2>1 DEF ListInv
<1>3. Cardinality(Seen(Doc', node')) = Cardinality(Seen(Doc, node)) BY <1>1, ReachedOps
<1>. QED BY <1>1, <1>2, <1>3 DEF ListInv

LEMMA GroupKeepsTheList == ASSUME WalkInv, ListInv, WalkGroup PROVE ListInv'
<1> DEFINE r == [group |-> node, opacity |-> Append(Opacity, Node(node).opacity)]
           c == Among(Groups(walking), Clipped(Doc))
           item == clip_geometry(Doc[node].clip)
<1>1. /\ NextNode /\ Doc' = Doc /\ walking' = Append(walking, r) /\ r.group = node
      /\ items' = IF Doc[node].clip = None THEN items ELSE Append(items, item)
      /\ Doc[node].node = "group"
  BY DEF WalkGroup, NextNode, Doc, Node, IsGroup
<1>2. Doc[node].node # "path" BY <1>1
<1>3. /\ node \in Nat /\ node \in DOMAIN Doc /\ Groups(walking) \in Seq(Nat) /\ IsList(walking)
  BY <1>1, GroupsAreList, NodeIsWithin, TreeFacts DEF WalkInv
<1> HIDE DEF r
<1>4. /\ IsList(c)
      /\ Among(Groups(walking'), Clipped(Doc)) =
            IF node \in Clipped(Doc) THEN Append(c, node) ELSE c
  BY <1>1, <1>3, ClipsOneMore
<1>5. node \in Clipped(Doc) <=> Doc[node].clip # None BY <1>1, <1>3 DEF Clipped, IsGroup
<1>6. item.item = "clip" BY DEF clip_geometry
<1>7. IsList(items) /\ paths(items) = Cardinality(Seen(Doc, node)) BY DEF ListInv
<1> HIDE DEF c, item
<1>8. IsList(items') /\ paths(items') = paths(items)
  BY <1>1, <1>6, <1>7, PathsOneMore, AppendIsList
<1>9. ASSUME NEW z PROVE Replays(items', z, Reached(z)')
  <2> DEFINE o == PictureUpto(Doc, z)[node - 1]
  <2>1. Reached(z)' = [stack |-> Levels(Doc, Among(Groups(walking'), Clipped(Doc)), z), ops |-> o]
    BY <1>1, <1>2, ReachedOps DEF Reached
  <2>2. Replays(items, z, Reached(z)) /\ Reached(z) = [stack |-> Levels(Doc, c, z), ops |-> o]
    BY DEF ListInv, Reached, c
  <2>3. CASE Doc[node].clip = None BY <1>1, <1>4, <1>5, <2>1, <2>2, <2>3
  <2>4. CASE Doc[node].clip # None
    <3>1. After(Reached(z), item) = [stack |-> Levels(Doc, Append(c, node), z), ops |-> o]
      <4>1. After(Reached(z), item) = [stack |-> Pushed(Levels(Doc, c, z), Shape(item)), ops |-> o]
        BY <1>6, <2>2 DEF After
      <4>2. Pushed(Levels(Doc, c, z), Shape(item)) = Levels(Doc, Append(c, node), z)
        BY <1>4, LevelsOneMore DEF item
      <4>. QED BY <4>1, <4>2
    <3>2. Replays(Append(items, item), z, After(Reached(z), item))
      BY <1>7, <2>2, ReplayOneMore
    <3>. QED BY <1>1, <1>4, <1>5, <2>1, <2>4, <3>1, <3>2
  <2>. QED BY <2>3, <2>4
<1>10. Cardinality(Seen(Doc', node')) = Cardinality(Seen(Doc, node)) BY <1>1, <1>2, ReachedOps
<1>. QED BY <1>7, <1>8, <1>9, <1>10 DEF ListInv

LEMMA ReturnKeepsTheList == ASSUME WalkInv, ListInv, WalkReturn PROVE ListInv'
<1> DEFINE N == Len(walking)
           f == SubSeq(walking, 1, N - 1)
           g == walking[N].group
           c == Among(Groups(f), Clipped(Doc))
<1>1. /\ Doc' = Doc /\ node' = node /\ walking' = f
      /\ items' = IF Doc[g].clip = None THEN items ELSE Append(items, Restore)
      /\ walking # <<>>
  BY DEF WalkReturn, Doc, Node, Within, Closed
<1>2. IsList(walking) /\ N \in Nat /\ N > 0 /\ node \in Nat BY <1>1, GroupsAreList DEF WalkInv
<1>3. IsList(f) /\ walking = Append(f, walking[N])
  <2> DEFINE n == N - 1
             Z == Range(walking)
  <2>1. n \in Nat /\ n + 1 = N BY <1>2
  <2>2. walking \in Seq(Z) BY <1>2 DEF IsList
  <2> HIDE DEF n, Z
  <2>3. \A k \in 1..n : walking[k] \in Z BY <2>1, <2>2, ElementOfSeq
  <2>4. SubSeq(walking, 1, n) \in Seq(Z) /\ Len(SubSeq(walking, 1, n)) = n
        /\ \A k \in 1..n : SubSeq(walking, 1, n)[k] = walking[k]
    BY <2>1, <2>3, SubSeqProperties
  <2>5. f = SubSeq(walking, 1, n) BY DEF n
  <2> HIDE DEF f
  <2>6. IsList(f) BY <2>4, <2>5, SeqIsList
  <2> DEFINE t == Append(f, walking[N])
  <2>7. IsList(t) /\ Len(t) = n + 1 /\ t[n + 1] = walking[N] /\ \A k \in 1..n : t[k] = f[k]
    BY <2>4, <2>5, <2>6, AppendIsList
  <2> HIDE DEF t
  <2>8. \A k \in 1..(n + 1) : t[k] = walking[k]
    <3>. TAKE k \in 1..(n + 1)
    <3>1. CASE k = n + 1 BY <2>1, <2>7, <3>1
    <3>2. CASE k # n + 1
      <4>1. k \in 1..n BY <2>1, <3>2
      <4>. QED BY <2>4, <2>5, <2>7, <4>1
    <3>. QED BY <3>1, <3>2
  <2>9. t = walking BY <1>2, <2>1, <2>7, <2>8, SameList
  <2>. QED BY <2>6, <2>9 DEF t
<1>4. g \in Nat /\ g \in DOMAIN Doc /\ IsGroup(Doc, g)
  <2>1. N \in 1..N BY <1>2
  <2>2. g \in 1..(node - 1) /\ IsGroup(Doc, g) /\ node \in 1..(Len(Doc) + 1) BY <2>1 DEF WalkInv
  <2>3. DOMAIN Doc = 1..Len(Doc) /\ Len(Doc) \in Nat BY GroupsAreList, TreeFacts
  <2> HIDE DEF g
  <2>4. g \in 1..Len(Doc) BY <1>2, <2>2, <2>3
  <2>. QED BY <2>2, <2>3, <2>4
<1>5. Groups(f) \in Seq(Nat)
  <2> DEFINE n == N - 1
             v == Groups(walking)
  <2>1. n \in Nat /\ n + 1 = N /\ \A k \in 1..n : k \in 1..N BY <1>2
  <2>2. v \in Seq(Nat) /\ Len(v) = N BY GroupsAreList
  <2>3. \A k \in 1..n : v[k] \in Nat BY <2>1, <2>2, ElementOfSeq
  <2>4. \A k \in 1..n : v[k] = walking[k].group BY <2>1 DEF Groups
  <2>5. f \in Seq(Range(f)) BY <1>3 DEF IsList
  <2>6. Len(f) = n /\ \A k \in 1..n : f[k] = walking[k]
    <3>1. walking \in Seq(Range(walking)) BY <1>2 DEF IsList
    <3>2. \A k \in 1..n : walking[k] \in Range(walking) BY <2>1, <3>1, ElementOfSeq
    <3>. QED BY <2>1, <3>2, SubSeqProperties
  <2> HIDE DEF f, n, v
  <2>7. Groups(f) \in [1..n -> Nat] BY <2>3, <2>4, <2>6 DEF Groups
  <2>. QED BY <2>1, <2>7, SeqDef
<1> HIDE DEF f, g
<1>6. /\ IsList(c)
      /\ Among(Groups(walking), Clipped(Doc)) = IF g \in Clipped(Doc) THEN Append(c, g) ELSE c
  <2>1. walking[N].group = g BY DEF g
  <2> DEFINE r == walking[N]
  <2>2. walking = Append(f, r) /\ r.group = g BY <1>3, <2>1
  <2> HIDE DEF r
  <2>3. Among(Groups(Append(f, r)), Clipped(Doc)) = IF r.group \in Clipped(Doc) THEN Append(c, r.group) ELSE c
    BY <1>3, <1>4, <1>5, <2>2, ClipsOneMore
  <2>4. IsList(c) BY <1>3, <1>4, <1>5, <2>2, ClipsOneMore
  <2>. QED BY <2>2, <2>3, <2>4
<1>7. g \in Clipped(Doc) <=> Doc[g].clip # None BY <1>4 DEF Clipped
<1>8. IsList(items) /\ paths(items) = Cardinality(Seen(Doc, node)) /\ Restore.item = "restore"
  BY DEF ListInv, Restore
<1>9. IsList(items') /\ paths(items') = paths(items)
  BY <1>1, <1>8, PathsOneMore, AppendIsList
<1> HIDE DEF c
<1>10. ASSUME NEW z PROVE Replays(items', z, Reached(z)')
  <2> DEFINE o == PictureUpto(Doc, z)[node - 1]
             b == Among(Groups(walking), Clipped(Doc))
  <2>1. Reached(z)' = [stack |-> Levels(Doc, c, z), ops |-> o] BY <1>1 DEF Reached, c
  <2>2. Replays(items, z, Reached(z)) /\ Reached(z) = [stack |-> Levels(Doc, b, z), ops |-> o]
    BY DEF ListInv, Reached
  <2>3. CASE Doc[g].clip = None BY <1>1, <1>6, <1>7, <2>1, <2>2, <2>3
  <2>4. CASE Doc[g].clip # None
    <3>1. b = Append(c, g) BY <1>6, <1>7, <2>4
    <3>2. After(Reached(z), Restore) = [stack |-> Levels(Doc, c, z), ops |-> o]
      <4>1. Popped(Levels(Doc, Append(c, g), z)) = Levels(Doc, c, z) BY <1>6, LevelsOneMore
      <4>2. Reached(z) = [stack |-> Levels(Doc, Append(c, g), z), ops |-> o] BY <2>2, <3>1
      <4>. QED BY <1>8, <4>1, <4>2 DEF After
    <3>3. Replays(Append(items, Restore), z, After(Reached(z), Restore))
      BY <1>8, <2>2, ReplayOneMore
    <3>. QED BY <1>1, <2>1, <2>4, <3>2, <3>3
  <2>. QED BY <2>3, <2>4
<1>. QED BY <1>1, <1>8, <1>9, <1>10 DEF ListInv

LEMMA PathKeepsTheList == ASSUME WalkInv, ListInv, WalkPath PROVE ListInv'
<1> DEFINE N == Len(walking)
           c == Among(Groups(walking), Clipped(Doc))
           d == Drawn(Doc[node], Opacity)
<1>1. /\ NextNode /\ Doc' = Doc /\ walking' = walking /\ items' = items \o d
      /\ Doc[node].node = "path" /\ node' = node + 1
  BY DEF WalkPath, NextNode, Doc, Node
<1>2. /\ node \in 1..Len(Doc) /\ IsTree(Doc) /\ Len(Doc) \in Nat /\ Groups(walking) \in Seq(Nat)
      /\ N \in Nat /\ (walking # <<>> <=> N > 0) /\ Len(Groups(walking)) = N
      /\ (walking = <<>> => node = 1)
  BY <1>1, GroupsAreList, NodeIsWithin
<1>3. /\ Around(Doc, node, DOMAIN Doc) = Groups(walking)
      /\ Around(Doc, node, Clipped(Doc)) = c
  BY <1>1, WalkIsAround
<1>4. Opacity = Opacities(Doc, node)
  <2>1. walking # <<>> BY <1>1, <1>2 DEF IsTree, IsGroup
  <2>2. N \in 1..N BY <1>2, <2>1
  <2>3. Opacity = [j \in 1..N |-> Doc[walking[j].group].opacity]
    BY <2>1, <2>2 DEF Opacity, Within, WalkInv
  <2>4. Opacities(Doc, node) = [j \in 1..N |-> Doc[Groups(walking)[j]].opacity]
    BY <1>2, <1>3 DEF Opacities
  <2>5. \A j \in 1..N : Groups(walking)[j] = walking[j].group BY DEF Groups
  <2>. QED BY <2>3, <2>4, <2>5
<1>5. Clips(Doc, node) = Clipping(Doc, c) BY <1>3 DEF Clips, Clipping
<1>6. IsList(c)
  <2> DEFINE Z == Nat
             v == Groups(walking)
  <2>1. v \in Seq(Z) BY <1>2
  <2> HIDE DEF Z, v
  <2>2. Among(v, Clipped(Doc)) \in Seq(Z) BY <2>1, AmongMembers
  <2>. QED BY <2>2, SeqIsList DEF v
<1> HIDE DEF c
<1>7. IsList(items) /\ paths(items) = Cardinality(Seen(Doc, node)) BY DEF ListInv
<1>7a. items \in Seq(Range(items)) BY <1>7 DEF IsList
<1>8. ASSUME NEW z
      PROVE  Shows(d, Reached(z), Picture(Doc, node, z))
  <2> DEFINE st == Levels(Doc, c, z)
             o == PictureUpto(Doc, z)[node - 1]
  <2>0. Len(c) \in Nat
    <3>1. c \in Seq(Range(c)) BY <1>6 DEF IsList
    <3>. QED BY <3>1, LenProperties
  <2>1. st[Len(st)] = [zoom |-> z, clips |-> Clips(Doc, node)]
    <3>1. Len(st) = Len(c) + 2 /\ st[Len(c) + 2] = [zoom |-> z, clips |-> Clipping(Doc, c)]
      BY <2>0, LevelsAreList
    <3> HIDE DEF st
    <3>. QED BY <1>5, <3>1
  <2>2. IsList(o) BY <1>1, PictureNext
  <2>3. Reached(z) = [stack |-> st, ops |-> o] BY DEF Reached, c
  <2>4. d = Drawn(Doc[node], Opacities(Doc, node)) BY <1>4
  <2> HIDE DEF st, o, d
  <2>5. Shows(Drawn(Doc[node], Opacities(Doc, node)), [stack |-> st, ops |-> o], Picture(Doc, node, z))
    BY <1>1, <2>1, <2>2, DrawnIsThePicture
  <2>. QED BY <2>3, <2>4, <2>5
<1> HIDE DEF d
<1>9. \A item : items \o <<item>> = Append(items, item)
  <2>. TAKE item
  <2> DEFINE Z == Range(items) \cup {item}
  <2>1. items \in Seq(Z) /\ item \in Z BY <1>7a, SeqMonotonic
  <2> HIDE DEF Z
  <2>. QED BY <2>1, AppendIsConcat
<1>10. items \o <<>> = items BY <1>7a, ConcatEmptySeq
<1>11. ASSUME NEW z PROVE Replays(items', z, Reached(z)')
  <2> DEFINE o == PictureUpto(Doc, z)[node - 1]
             p == Picture(Doc, node, z)
  <2>1. Replays(items, z, Reached(z)) BY DEF ListInv
  <2>2. Reached(z)' = [stack |-> Reached(z).stack, ops |-> o \o p]
    <3>1. node' - 1 = node BY <1>1, <1>2
    <3>2. PictureUpto(Doc, z)[node] = o \o p BY <1>1, PictureNext
    <3>. QED BY <1>1, <3>1, <3>2 DEF Reached
  <2>3. o \o <<>> = o BY <1>1, PictureNext
  <2>4. Reached(z) = [stack |-> Reached(z).stack, ops |-> o] BY DEF Reached
  <2> HIDE DEF o, p
  <2>5. CASE d = <<>> /\ p = <<>> BY <1>1, <1>10, <2>1, <2>2, <2>3, <2>4, <2>5
  <2>6. CASE \E item : d = <<item>> /\ After(Reached(z), item) = [stack |-> Reached(z).stack, ops |-> o \o p]
    <3>1. PICK item : d = <<item>> /\ After(Reached(z), item) = [stack |-> Reached(z).stack, ops |-> o \o p]
      BY <2>6
    <3>2. Replays(Append(items, item), z, After(Reached(z), item)) BY <1>7, <2>1, ReplayOneMore
    <3>. QED BY <1>1, <1>9, <2>2, <3>1, <3>2
  <2>7. Shows(d, Reached(z), p) BY <1>8 DEF p
  <2>8. Reached(z).ops = o BY <2>4
  <2>. QED BY <2>5, <2>6, <2>7, <2>8 DEF Shows
<1>12. IsList(items') /\ paths(items') = Cardinality(Seen(Doc', node'))
  <2> DEFINE p == Picture(Doc, node, 0)
  <2>1. Cardinality(Seen(Doc', node')) = IF p # <<>> THEN Cardinality(Seen(Doc, node)) + 1
                                         ELSE Cardinality(Seen(Doc, node))
    BY <1>1, <1>2, SeenOneMore
  <2>2. (d = <<>> /\ p = <<>>) \/ (p # <<>> /\ \E item : d = <<item>> /\ item.item = "draw")
    BY <1>8 DEF Shows
  <2> HIDE DEF p
  <2>3. CASE d = <<>> /\ p = <<>> BY <1>1, <1>7, <1>10, <2>1, <2>3
  <2>4. CASE p # <<>> /\ \E item : d = <<item>> /\ item.item = "draw"
    <3>1. PICK item : d = <<item>> /\ item.item = "draw" BY <2>4
    <3>2. IsList(Append(items, item)) /\ paths(Append(items, item)) = paths(items) + 1
      BY <1>7, <3>1, PathsOneMore, AppendIsList
    <3>. QED BY <1>1, <1>7, <1>9, <2>1, <2>4, <3>1, <3>2
  <2>. QED BY <2>2, <2>3, <2>4
<1>. QED BY <1>11, <1>12 DEF ListInv

LEMMA WalkKeepsTheList == ASSUME WalkInv, ListInv, Walk PROVE ListInv'
BY TextKeepsTheList, GroupKeepsTheList, ReturnKeepsTheList, PathKeepsTheList DEF Walk

LEMMA WalkBegins ==
    ASSUME NEW s \in DOMAIN SCENES, StartWalk(s)
    PROVE  WalkInv' /\ ListInv'
<1>1. /\ scene' = s /\ node' = 1 /\ walking' = <<>> /\ items' = <<>> /\ Doc' = SCENES[s]
  BY DEF StartWalk, Doc
<1> DEFINE doc == SCENES[s]
           e == <<>>
           v == Groups(e)
<1>2. IsTree(doc) /\ Len(doc) \in Nat \ {0} /\ DOMAIN doc = 1..Len(doc) BY ScenesAssumption, TreeFacts
<1>3. /\ IsList(e) /\ Len(e) = 0 /\ v = e /\ Len(v) = 0
  BY EmptyIsList DEF Groups
<1>4. WalkInv'
  <2>1. Increasing(v) BY <1>3 DEF Increasing
  <2>2. walking' = e /\ IsList(walking') /\ Len(walking') = 0 /\ Increasing(Groups(walking'))
    BY <1>1, <1>3, <2>1
  <2>3. node' \in 1..(Len(Doc') + 1) /\ node' - 1 = 0 BY <1>1, <1>2
  <2>. QED BY <1>1, <2>2, <2>3 DEF WalkInv
<1>5. paths(items') = Cardinality(Seen(Doc', node'))
  <2>1. paths(items') = 0
    <3>1. {k \in DOMAIN e : e[k].item = "draw"} = {} OBVIOUS
    <3>. QED BY <1>1, <3>1, FS_EmptySet DEF paths
  <2>2. Seen(doc, 1) = {} BY <1>2 DEF Seen, InPicture
  <2>. QED BY <1>1, <2>1, <2>2, FS_EmptySet
<1>6. ASSUME NEW z PROVE Replays(items', z, Reached(z)')
  <2>1. Among(v, Clipped(doc)) = <<>> BY <1>3, AmongEmpty
  <2>2. PictureUpto(doc, z)[0] = <<Clear>> BY <1>2, PictureSteps
  <2>3. Reached(z)' = [stack |-> Levels(doc, <<>>, z), ops |-> <<Clear>>]
    <3>1. node' - 1 = 0 /\ Doc' = doc /\ Groups(walking') = v BY <1>1
    <3> HIDE DEF doc, v
    <3>. QED BY <2>1, <2>2, <3>1 DEF Reached
  <2>4. Start(z) = Reached(z)' BY <2>3, StartIsLevel
  <2>. QED BY <1>1, <2>4, ReplayNothing
<1>. QED BY <1>1, <1>3, <1>4, <1>5, <1>6 DEF ListInv

\* What draw_frame leaves: the picture, and only the frame's own state.
Whole(doc, z) ==
    [stack |-> <<Default, [Default EXCEPT !.zoom = z]>>, ops |-> PictureOf(doc, z)]
IsScene(s) ==
    LET doc == SCENES[s.scene]
    IN  /\ IsList(s.items)
        /\ paths(s.items) = Cardinality(InPicture(doc))
        /\ \A z : Replays(s.items, z, Whole(doc, z))

LEMMA WalkEnds ==
    ASSUME WalkInv, ListInv, Walked
    PROVE  IsScene([scene |-> scene, items |-> items])
<1> DEFINE L == Len(Doc)
<1>1. /\ walking = <<>> /\ Len(walking) = 0 /\ node > 1 /\ node \in Nat
      /\ IsTree(Doc) /\ L \in Nat /\ Groups(walking) = <<>>
  BY GroupsAreList DEF Walked, Groups
<1>2. node = L + 1
  <2>1. IsGroup(Doc, 1) /\ Doc[1].last = L BY <1>1 DEF IsTree
  <2>2. node \in 1..(L + 1) /\ 1 \in 1..(node - 1) BY <1>1 DEF WalkInv
  <2>3. ~(L >= node) BY <1>1, <2>1, <2>2 DEF WalkInv
  <2>. QED BY <1>1, <2>2, <2>3
<1>3. DOMAIN Doc = 1..L BY <1>1, TreeFacts
<1>4. Seen(Doc, node) = InPicture(Doc)
  <2>1. \A i \in InPicture(Doc) : i \in 1..L BY <1>3 DEF InPicture
  <2> HIDE DEF L
  <2>2. \A i \in 1..L : i < node BY <1>1, <1>2
  <2>. QED BY <2>1, <2>2 DEF Seen
<1>5. ASSUME NEW z PROVE Reached(z) = Whole(Doc, z)
  <2>1. Among(Groups(walking), Clipped(Doc)) = <<>> BY <1>1, AmongEmpty
  <2>2. node - 1 = L BY <1>1, <1>2
  <2>3. PictureUpto(Doc, z)[node - 1] = PictureOf(Doc, z) BY <2>2 DEF PictureOf
  <2>4. Levels(Doc, <<>>, z) = <<Default, [Default EXCEPT !.zoom = z]>>
    <3>1. Start(z) = [stack |-> Levels(Doc, <<>>, z), ops |-> <<Clear>>] BY StartIsLevel
    <3>. QED BY <3>1 DEF Start
  <2>. QED BY <2>1, <2>3, <2>4 DEF Reached, Whole
<1>. QED BY <1>4, <1>5 DEF IsScene, ListInv, Doc

-----------------------------------------------------------------------------
(* The frames.                                                             *)

Frame == zoom((call - 1) % Count, Count)

\* The canvas is where replaying the list has brought it.
DrawInv ==
    /\ at \in 1..(Len(State.items) + 1)
    /\ \E R : /\ Plays(R, State.items, Frame)
              /\ R[Len(State.items)] = Whole(SCENES[State.scene], Frame)
              /\ [stack |-> stack, ops |-> ops] = R[at - 1]

SceneInv ==
    /\ call \in Nat
    /\ pc # "draw" => stack = <<Default>>
    /\ pc = "load" => WalkInv /\ ListInv
    /\ pc \in {"ready", "draw", "flush", "returned"} => IsScene(State)
    /\ pc = "draw" => DrawInv
    /\ pc = "flush" => ops = PictureOf(SCENES[State.scene], Frame)

LEMMA PairByAppend == ASSUME NEW a, NEW b PROVE Append(<<a>>, b) = <<a, b>>
<1> DEFINE s == <<a>>
           t == Append(s, b)
           u == <<a, b>>
           Z == {a, b}
<1>1. IsList(s) /\ Len(s) = 1 /\ s[1] = a BY SingleIsList
<1>2. u \in Seq(Z) /\ Len(u) = 2 /\ u[1] = a /\ u[2] = b OBVIOUS
<1> HIDE DEF s, u, Z
<1>3. /\ IsList(t) /\ Len(t) = Len(s) + 1 /\ t[Len(s) + 1] = b
      /\ \A i \in 1..Len(s) : t[i] = s[i]
  BY <1>1, AppendIsList
<1> HIDE DEF t
<1>4. Len(t) = 2 /\ t[1] = a /\ t[2] = b BY <1>1, <1>3
<1>5. IsList(u) BY <1>2, SeqIsList
<1>6. t = u BY <1>2, <1>3, <1>4, <1>5, SameList
<1>. QED BY <1>6 DEF s, t, u

LEMMA FrameBegins == ASSUME SceneInv, fvg_frame PROVE SceneInv'
<1> DEFINE z == zoom(call % Count, Count)
           R0 == [stack |-> stack', ops |-> ops']
<1>1. /\ call' = call + 1 /\ at' = 1 /\ pc' = "draw" /\ State' = State /\ ops' = <<Clear>>
      /\ stack' = Append(Fresh, [Default EXCEPT !.zoom = z]) /\ call \in Nat
      /\ stack = <<Default>> /\ IsScene(State)
  BY DEF fvg_frame, SceneInv
<1>2. call' \in Nat /\ Frame' = z
  <2>1. call' \in Nat /\ call' - 1 = call BY <1>1
  <2>. QED BY <2>1 DEF Frame
<1>3. stack' = <<Default, [Default EXCEPT !.zoom = z]>>
  <2>1. Fresh = <<Default>> BY <1>1 DEF Fresh
  <2>2. \A b : Append(<<Default>>, b) = <<Default, b>> BY PairByAppend
  <2>. QED BY <1>1, <2>1, <2>2
<1>4. R0 = Start(z) BY <1>1, <1>3 DEF Start
<1> HIDE DEF z, R0
<1>5. PICK R : Plays(R, State.items, z) /\ R[Len(State.items)] = Whole(SCENES[State.scene], z)
  BY <1>1 DEF IsScene, Replays
<1>6. R[0] = R0 BY <1>4, <1>5 DEF Plays
<1>7. Len(State.items) \in Nat
  <2>1. State.items \in Seq(Range(State.items)) BY <1>1 DEF IsScene, IsList
  <2>. QED BY <2>1, LenProperties
<1>8. at' - 1 = 0 /\ at' \in 1..(Len(State.items) + 1) BY <1>1, <1>7
<1>9. DrawInv' BY <1>1, <1>2, <1>5, <1>6, <1>8 DEF DrawInv, R0
<1>. QED BY <1>1, <1>2, <1>9 DEF SceneInv, IsScene

\* The operators of an item of the list are those of the replay.
LEMMA ItemIsReplayed ==
    ASSUME DrawItem \/ ClipItem \/ RestoreItem
    PROVE  [stack |-> stack', ops |-> ops'] = After([stack |-> stack, ops |-> ops], State.items[at])
<1> DEFINE c == [stack |-> stack, ops |-> ops]
<1>1. c.stack = stack /\ c.ops = ops OBVIOUS
<1>2. CASE DrawItem
  <2>1. Current.item = "draw" /\ stack' = stack
        /\ ops' = ops \o Op("fill", Current.fill) \o Op("stroke", Current.stroke)
    BY <1>2 DEF DrawItem, Step
  <2>2. \A op, p : Op(op, p) = Marks(op, Current, p, Top) BY DEF Op, Marks
  <2>3. After(c, Current) = [stack |-> stack, ops |-> ops \o Marks("fill", Current, Current.fill, Top)
                                                         \o Marks("stroke", Current, Current.stroke, Top)]
    BY <2>1 DEF After, Top
  <2>. QED BY <2>1, <2>2, <2>3 DEF Current
<1>3. CASE ClipItem
  <2>1. Current.item = "clip" /\ ops' = ops /\ stack' = Pushed(stack, Shape(Current))
    BY <1>3 DEF ClipItem, Step, Saved, Pushed
  <2>2. After(c, Current) = [stack |-> Pushed(stack, Shape(Current)), ops |-> ops]
    BY <2>1 DEF After
  <2>. QED BY <2>1, <2>2 DEF Current
<1>4. CASE RestoreItem
  <2>1. Current.item = "restore" /\ ops' = ops /\ stack' = Popped(stack)
    BY <1>4 DEF RestoreItem, Step, Restored, Fresh, Popped
  <2>2. After(c, Current) = [stack |-> Popped(stack), ops |-> ops] BY <2>1 DEF After
  <2>. QED BY <2>1, <2>2 DEF Current
<1>. QED BY <1>2, <1>3, <1>4

LEMMA ItemKeepsTheFrame ==
    ASSUME SceneInv, DrawItem \/ ClipItem \/ RestoreItem
    PROVE  SceneInv'
<1> DEFINE L == Len(State.items)
<1>1. /\ pc = "draw" /\ pc' = pc /\ at <= L /\ at' = at + 1
      /\ UNCHANGED <<State, call>>
  BY DEF DrawItem, ClipItem, RestoreItem, Step
<1>2. call \in Nat /\ IsScene(State) /\ DrawInv BY <1>1 DEF SceneInv
<1>3. L \in Nat
  <2>1. State.items \in Seq(Range(State.items)) BY <1>2 DEF IsScene, IsList
  <2>. QED BY <2>1, LenProperties
<1>4. PICK R : /\ Plays(R, State.items, Frame)
               /\ R[L] = Whole(SCENES[State.scene], Frame)
               /\ [stack |-> stack, ops |-> ops] = R[at - 1]
  BY <1>2 DEF DrawInv
<1>5. at \in 1..L /\ at' \in 1..(L + 1) /\ at' - 1 = at
  <2>1. at \in 1..(L + 1) BY <1>2 DEF DrawInv
  <2> HIDE DEF L
  <2>. QED BY <1>1, <1>3, <2>1
<1>6. R[at] = After(R[at - 1], State.items[at]) BY <1>4, <1>5 DEF Plays
<1>7. [stack |-> stack', ops |-> ops'] = R[at' - 1] BY <1>4, <1>5, <1>6, ItemIsReplayed
<1>8. Frame' = Frame BY <1>1 DEF Frame
<1>9. DrawInv' BY <1>1, <1>4, <1>5, <1>7, <1>8 DEF DrawInv
<1>. QED BY <1>1, <1>2, <1>9 DEF SceneInv, IsScene

LEMMA FrameEnds == ASSUME SceneInv, EndItems PROVE SceneInv'
<1> DEFINE L == Len(State.items)
           f == [Default EXCEPT !.zoom = Frame]
<1>1. /\ pc = "draw" /\ pc' = "flush" /\ at > L /\ stack' = Restored(stack)
      /\ UNCHANGED <<State, call, ops>>
  BY DEF EndItems, LastRestore
<1>2. call \in Nat /\ IsScene(State) /\ DrawInv BY <1>1 DEF SceneInv
<1>3. L \in Nat
  <2>1. State.items \in Seq(Range(State.items)) BY <1>2 DEF IsScene, IsList
  <2>. QED BY <2>1, LenProperties
<1>4. at - 1 = L
  <2>1. at \in 1..(L + 1) BY <1>2 DEF DrawInv
  <2> HIDE DEF L
  <2>. QED BY <1>1, <1>3, <2>1
<1>5. [stack |-> stack, ops |-> ops] = Whole(SCENES[State.scene], Frame)
  BY <1>2, <1>4 DEF DrawInv
<1>6. stack = <<Default, f>> /\ ops = PictureOf(SCENES[State.scene], Frame)
  BY <1>5 DEF Whole
<1> HIDE DEF f
<1>7. stack' = <<Default>>
  <2>1. Len(<<Default, f>>) = 2 /\ SubSeq(<<Default, f>>, 1, 1) = <<Default>>
    <3> DEFINE s == <<Default, f>>
               Z == {Default, f}
               u == SubSeq(s, 1, 1)
    <3>1. s \in Seq(Z) /\ Len(s) = 2 /\ s[1] = Default OBVIOUS
    <3> HIDE DEF s, Z
    <3>2. \A i \in 1..1 : s[i] \in Z BY <3>1, ElementOfSeq
    <3>3. u \in Seq(Z) /\ Len(u) = 1 /\ u[1] = s[1] BY <3>2, SubSeqProperties
    <3> HIDE DEF u
    <3>4. IsList(u) BY <3>3, SeqIsList
    <3>5. u = <<Default>>
      <4>1. IsList(<<Default>>) /\ Len(<<Default>>) = 1 /\ <<Default>>[1] = Default BY SingleIsList
      <4> DEFINE e == <<Default>>
      <4> HIDE DEF e
      <4>2. \A i \in 1..Len(u) : u[i] = e[i] BY <3>1, <3>3, <4>1 DEF e
      <4>. QED BY <3>3, <3>4, <4>1, <4>2, SameList DEF e
    <3>. QED BY <3>1, <3>5 DEF s, u
  <2>. QED BY <1>1, <1>6, <2>1 DEF Restored
<1>8. Frame' = Frame BY <1>1 DEF Frame
<1>. QED BY <1>1, <1>2, <1>6, <1>7, <1>8 DEF SceneInv, IsScene

LEMMA SceneKept == SceneInv /\ [Next]_vars => SceneInv'
<1>. SUFFICES ASSUME SceneInv, [Next]_vars PROVE SceneInv' OBVIOUS
<1>1. CASE fvg_frame BY <1>1, FrameBegins
<1>2. CASE DrawItem \/ ClipItem \/ RestoreItem BY <1>2, ItemKeepsTheFrame
<1>3. CASE EndItems BY <1>3, FrameEnds
<1>4. CASE \E s \in 1..(Len(SCENES) + 1) : fvg_init(s)
  <2>1. PICK s \in 1..(Len(SCENES) + 1) : fvg_init(s) BY <1>4
  <2>2. pc = "loaded" /\ UNCHANGED <<call, stack>> BY <2>1 DEF fvg_init, canvas
  <2>3. CASE s \in DOMAIN SCENES
    <3>1. StartWalk(s) /\ pc' = "load" BY <2>1, <2>3 DEF fvg_init
    <3>. QED BY <2>2, <2>3, <3>1, WalkBegins DEF SceneInv
  <2>4. CASE s \notin DOMAIN SCENES
    <3>1. pc' = "failed" BY <2>1, <2>4 DEF fvg_init
    <3>. QED BY <2>2, <3>1 DEF SceneInv
  <2>. QED BY <2>3, <2>4
<1>5. CASE LoadScene
  <2>1. pc = "load" /\ Walk /\ UNCHANGED <<pc, call, stack>> BY <1>5 DEF LoadScene, canvas
  <2>2. WalkInv' /\ ListInv' BY <2>1, WalkKeepsItsPlace, WalkKeepsTheList DEF SceneInv
  <2>. QED BY <2>1, <2>2 DEF SceneInv
<1>6. CASE \E canvasOk \in BOOLEAN : SetState(canvasOk)
  <2>1. PICK canvasOk \in BOOLEAN : SetState(canvasOk) BY <1>6
  <2>2. pc = "load" /\ Walked /\ UNCHANGED <<call, stack>> BY <2>1 DEF SetState, canvas
  <2>3. WalkInv /\ ListInv BY <2>2 DEF SceneInv
  <2>4. \/ pc' = "failed"
        \/ pc' = "ready" /\ State' = [scene |-> scene, items |-> items]
    BY <2>1 DEF SetState
  <2>5. IsScene([scene |-> scene, items |-> items]) BY <2>2, <2>3, WalkEnds
  <2>6. pc' = "ready" => IsScene(State') BY <2>4, <2>5
  <2>. QED BY <2>2, <2>4, <2>6 DEF SceneInv, IsScene
<1>7. CASE /\ UNCHANGED <<walk, State, canvas, call>>
           /\ \/ pc' = pc
              \/ pc = "flush" /\ pc' = "returned"
              \/ pc = "returned" /\ pc' \in {"ready", "failed"}
  BY <1>7 DEF SceneInv, WalkInv, ListInv, IsScene, DrawInv, Frame, Reached, Doc, walk, canvas
<1>8. CASE Grow \/ Images \/ (\E pv, pk \in 0..(mem.pages - 1) : Flush(pv, pk)) \/ Return
           \/ Finished \/ UNCHANGED vars
  <2>1. Grow => UNCHANGED <<walk, State, canvas, call>> /\ pc' = pc BY DEF Grow
  <2>2. Images => UNCHANGED <<walk, State, canvas, call>> /\ pc' = pc
    BY DEF Images, ImageAlloc, ImageUpdate, ImageDelete, Drawing
  <2>3. \A pv, pk : Flush(pv, pk) =>
           UNCHANGED <<walk, State, canvas, call>> /\ pc = "flush" /\ pc' = "returned"
    BY DEF Flush
  <2>4. Return => UNCHANGED <<walk, State, canvas, call>> /\ pc = "returned" /\ pc' \in {"ready", "failed"}
    BY DEF Return
  <2>5. Finished \/ UNCHANGED vars => UNCHANGED <<walk, State, canvas, call>> /\ pc' = pc
    BY DEF Finished, vars
  <2>. QED BY <1>7, <1>8, <2>1, <2>2, <2>3, <2>4, <2>5
<1>. QED BY <1>1, <1>2, <1>3, <1>4, <1>5, <1>6, <1>8 DEF Next

\* Every frame of every scene is the scene: each visible path once, in document
\* order, under the opacities and inside the clips of its own groups and at the
\* frame's zoom, and the canvas is left as the frame found it.
THEOREM FrameIsAlwaysTheScene == Spec => []FrameIsTheScene
<1>1. Init => SceneInv BY DEF Init, SceneInv
<1>2. SceneInv => FrameIsTheScene
  <2>. SUFFICES ASSUME SceneInv, pc = "flush"
                PROVE  /\ stack = <<Default>>
                       /\ ops = PictureOf(SCENES[State.scene], zoom((call - 1) % Count, Count))
                       /\ paths(State.items) = Cardinality(InPicture(SCENES[State.scene]))
    BY DEF FrameIsTheScene
  <2>. QED BY DEF SceneInv, IsScene, Frame
<1>. QED BY <1>1, <1>2, SceneKept, PTL DEF Spec

-----------------------------------------------------------------------------
(* The async guest's stream. At byte buf of a chunk the writer has had all *)
(* the chunks before it and buf bytes of this one accepted.                *)

LEMMA Division ==
  ASSUME NEW C \in Nat \ {0}, NEW q \in Nat, NEW r \in 0..(C - 1)
  PROVE  (q * C + r) \div C = q /\ (q * C + r) % C = r
OBVIOUS

LEMMA NextChunk ==
  ASSUME NEW C \in Nat, NEW q \in Nat
  PROVE  q * C \in Nat /\ (q + 1) * C = q * C + C
OBVIOUS

LEMMA Sizes == CHUNK \in Nat \ {0} /\ CHUNKS \in Nat \ {0}
BY SizesAssumption

\* An equation with a product in it, for the product as a number.
LEMMA Offset ==
  ASSUME NEW P \in Nat, NEW b \in Nat, NEW L, L = P + b, NEW k \in Nat, k > L
  PROVE  k - 1 = P + (b + (k - L) - 1)
OBVIOUS

Pcs == {"wait_for_0", "concurrent_wait", "write", "answered", "drop", "join", "done"}
Answers == [kind : {"none", "Complete", "Cancelled", "Dropped"}, n : Nat]

CmTypes ==
    /\ phase \in Pcs
    /\ chunk \in Nat /\ buf \in 0..(CHUNK - 1) /\ status \in Answers
    /\ written \in Nat /\ stalled \in BOOLEAN
    /\ received \in Seq(Nat \X Nat)

BytesInOrder ==
    \A k \in DOMAIN received : received[k] = <<(k - 1) \div CHUNK, (k - 1) % CHUNK>>

\* How far the writer and stdout are.
Progress ==
    /\ phase = "write" =>
          /\ chunk < CHUNKS /\ ~stalled
          /\ Len(received) = chunk * CHUNK + buf /\ written = Len(received)
    /\ phase = "answered" =>
          /\ chunk < CHUNKS /\ ~stalled
          /\ status.n <= CHUNK - buf
          /\ Len(received) = chunk * CHUNK + buf + status.n
          /\ written + status.n = Len(received)
    /\ phase \in {"drop", "join"} =>
          /\ written = Len(received)
          /\ ~stalled => Len(received) = CHUNKS * CHUNK

CmInv == CmTypes /\ BytesInOrder /\ Progress

LEMMA FreshWrite == NoStatus \in Answers /\ 0 \in 0..(CHUNK - 1) /\ <<>> \in Seq(Nat \X Nat)
<1>1. NoStatus \in Answers BY DEF NoStatus, Answers
<1>2. 0 \in 0..(CHUNK - 1) BY Sizes
<1>3. <<>> \in Seq(Nat \X Nat) OBVIOUS
<1> QED BY <1>1, <1>2, <1>3

LEMMA CmInitially == CmInit => CmInv
<1> SUFFICES ASSUME CmInit PROVE CmInv OBVIOUS
<1>1. CmTypes BY FreshWrite DEF CmInit, CmTypes, Pcs
<1>2. BytesInOrder BY DEF CmInit, BytesInOrder
<1>3. Progress BY DEF CmInit, Progress
<1> QED BY <1>1, <1>2, <1>3 DEF CmInv

LEMMA AnswerKept == ASSUME CmInv, NEW n \in 0..remaining, AnswerComplete(n) PROVE CmInv'
<1> USE Sizes DEF CmInv, CmTypes, Pcs, remaining
<1>1. phase = "write" /\ phase' = "answered" /\ UNCHANGED <<chunk, buf, written, stalled>>
  BY DEF AnswerComplete
<1>2. n \in Nat /\ n <= CHUNK - buf OBVIOUS
<1>3. status' = [kind |-> "Complete", n |-> n] BY DEF AnswerComplete, Complete
<1>4. Bytes(n) \in Seq(Nat \X Nat) /\ Len(Bytes(n)) = n
  <2>1. \A k \in 1..n : <<chunk, buf + k - 1>> \in Nat \X Nat BY <1>2
  <2>2. Bytes(n) \in [1..n -> Nat \X Nat] BY <2>1 DEF Bytes
  <2>3. Len(Bytes(n)) = n
    <3>1. DOMAIN Bytes(n) = 1..n BY DEF Bytes
    <3> QED BY <1>2, <2>2, <3>1, LenProperties, ElementOfSeq
  <2> QED BY <1>2, <2>2, <2>3
<1>5. /\ received' = received \o Bytes(n)
      /\ received' \in Seq(Nat \X Nat) /\ Len(received') = Len(received) + n
  BY <1>4 DEF AnswerComplete
<1>6. Len(received) = chunk * CHUNK + buf BY <1>1 DEF Progress
<1>7. BytesInOrder'
  <2> SUFFICES ASSUME NEW k \in DOMAIN received'
               PROVE  received'[k] = <<(k - 1) \div CHUNK, (k - 1) % CHUNK>>
    BY DEF BytesInOrder
  <2>1. k \in 1..(Len(received) + n) BY <1>5
  <2>2. CASE k <= Len(received)
    <3>1. received'[k] = received[k] /\ k \in DOMAIN received BY <1>4, <1>5, <2>1, <2>2
    <3> QED BY <3>1 DEF BytesInOrder
  <2>3. CASE k > Len(received)
    <3> DEFINE r == k - Len(received)
    <3>1. r \in 1..n /\ received'[k] = Bytes(n)[r] BY <1>4, <1>5, <2>1, <2>3
    <3>2. received'[k] = <<chunk, buf + r - 1>> BY <3>1 DEF Bytes
    <3>3. buf + r - 1 \in 0..(CHUNK - 1) BY <1>2, <3>1
    <3>4. chunk * CHUNK \in Nat BY NextChunk, Sizes
    <3>5. k - 1 = chunk * CHUNK + (buf + r - 1)
      <4>1. k \in Nat /\ buf \in Nat BY <2>1
      <4> HIDE DEF CmInv, CmTypes
      <4> QED BY <1>6, <2>3, <3>4, <4>1, Offset
    <3>6. chunk \in Nat OBVIOUS
    <3> HIDE DEF r
    <3>7. (k - 1) \div CHUNK = chunk /\ (k - 1) % CHUNK = buf + r - 1
      BY <3>3, <3>5, <3>6, Division, Sizes
    <3> QED BY <3>2, <3>7
  <2> QED BY <2>1, <2>2, <2>3
<1>8. CmTypes' BY <1>1, <1>2, <1>3, <1>5 DEF Answers
<1>9. Progress'
  <2>1. chunk * CHUNK \in Nat BY NextChunk
  <2>2. status'.n = n BY <1>3
  <2> QED BY <1>1, <1>2, <1>5, <1>6, <2>1, <2>2 DEF Progress
<1> QED BY <1>7, <1>8, <1>9

LEMMA HandleKept == ASSUME CmInv, Handle PROVE CmInv'
<1> USE Sizes DEF CmInv, CmTypes, Pcs
<1>1. phase = "answered" /\ UNCHANGED <<status, received>> /\ written' = written + status.n
  BY DEF Handle, ends
<1>2. status.n \in Nat /\ chunk * CHUNK \in Nat /\ (chunk + 1) * CHUNK = chunk * CHUNK + CHUNK
  BY NextChunk DEF Answers
<1>3. /\ chunk < CHUNKS /\ ~stalled /\ status.n <= CHUNK - buf
      /\ Len(received) = chunk * CHUNK + buf + status.n /\ written' = Len(received)
  BY <1>1 DEF Progress
<1>4. BytesInOrder' BY <1>1 DEF BytesInOrder
<1>5. CASE GiveUp
  <2>1. CmTypes' BY <1>1, <1>2, <1>5 DEF GiveUp, Answers
  <2>2. Progress' BY <1>1, <1>3, <1>5 DEF GiveUp, Progress
  <2> QED BY <1>4, <2>1, <2>2
<1>6. CASE /\ status.n = remaining
           /\ chunk' = chunk + 1 /\ buf' = 0
           /\ phase' = IF chunk + 1 < CHUNKS THEN "write" ELSE "drop"
           /\ UNCHANGED stalled
  <2>1. Len(received) = chunk' * CHUNK BY <1>2, <1>3, <1>6 DEF remaining
  <2>2. CmTypes' BY <1>1, <1>2, <1>6 DEF Answers
  <2>3. CASE chunk + 1 < CHUNKS
    <3>1. phase' = "write" /\ chunk' < CHUNKS /\ ~stalled' BY <1>3, <1>6, <2>3
    <3>2. chunk' * CHUNK + buf' = chunk' * CHUNK
      <4>1. chunk' * CHUNK \in Nat BY <1>6, <1>2
      <4> QED BY <1>6, <4>1
    <3>3. Progress'
      <4> HIDE DEF CmInv, CmTypes
      <4> QED BY <1>1, <1>3, <2>1, <3>1, <3>2 DEF Progress
    <3> QED BY <1>4, <2>2, <3>3
  <2>4. CASE ~(chunk + 1 < CHUNKS)
    <3>1. phase' = "drop" /\ chunk' = CHUNKS BY <1>3, <1>6, <2>4
    <3> QED BY <1>1, <1>3, <1>4, <2>1, <2>2, <3>1 DEF Progress
  <2> QED BY <2>3, <2>4
<1>7. CASE /\ status.n < remaining
           /\ buf' = Rest /\ phase' = "write" /\ UNCHANGED <<chunk, stalled>>
  <2>1. buf' = buf + status.n BY <1>7 DEF Rest
  <2>2. buf' \in 0..(CHUNK - 1)
    <3>1. buf \in Nat OBVIOUS
    <3>2. status.n < CHUNK - buf BY <1>7 DEF remaining
    <3> QED BY <1>2, <2>1, <3>1, <3>2, Sizes
  <2>3. CmTypes'
    <3>1. written' \in Nat BY <1>1, <1>2
    <3> QED BY <1>1, <1>7, <2>2, <3>1
  <2>4. Progress'
    <3>1. phase' = "write" /\ chunk' < CHUNKS /\ ~stalled' BY <1>3, <1>7
    <3>2. chunk' * CHUNK = chunk * CHUNK BY <1>7
    <3>3. Len(received') = chunk * CHUNK + buf'
      <4>1. buf \in Nat OBVIOUS
      <4> QED BY <1>1, <1>2, <1>3, <2>1, <4>1
    <3> QED BY <1>1, <1>3, <3>1, <3>2, <3>3 DEF Progress
  <2> QED BY <1>4, <2>3, <2>4
<1> QED BY <1>5, <1>6, <1>7 DEF Handle

LEMMA CmKept == CmInv /\ [CmNext]_cm_vars => CmInv'
<1> SUFFICES ASSUME CmInv, [CmNext]_cm_vars PROVE CmInv' OBVIOUS
<1> USE Sizes DEF CmInv, CmTypes, BytesInOrder, Progress, Pcs
<1>1. CASE NextPhase
  <2>1. CASE phase = "wait_for_0"
    BY <1>1, <2>1 DEF NextPhase, stream, ends
  <2>2. CASE phase # "wait_for_0"
    <3>1. /\ phase' = "write" /\ chunk' = 0 /\ buf' = 0 /\ status' = NoStatus
          /\ written' = 0 /\ stalled' = FALSE /\ received' = <<>>
      BY <1>1, <2>2 DEF NextPhase
    <3>2. CmTypes' BY <3>1, FreshWrite
    <3>3. BytesInOrder' BY <3>1
    <3>4. Progress'
      <4>1. chunk' * CHUNK = 0 BY <3>1
      <4> QED BY <3>1, <4>1
    <3> QED BY <3>2, <3>3, <3>4
  <2> QED BY <2>1, <2>2
<1>2. CASE Handle BY <1>2, HandleKept
<1>3. CASE DropWriter BY <1>3 DEF DropWriter, stream
<1>4. CASE Join BY <1>4 DEF Join, stream, ends
<1>5. CASE WaitReturns BY <1>5 DEF WaitReturns, stream, ends
<1>6. CASE AnswerCancelled BY <1>6 DEF AnswerCancelled, ends, Cancelled, Answers
<1>7. CASE AnswerDropped BY <1>7 DEF AnswerDropped, ends, Dropped, Answers
<1>8. CASE ReaderReturns BY <1>8 DEF ReaderReturns, stream
<1>9. ASSUME NEW n \in 0..remaining, AnswerComplete(n) PROVE CmInv' BY <1>9, AnswerKept
<1>10. CASE ReaderGone BY <1>10 DEF ReaderGone, stream
<1>11. CASE Ended BY <1>11 DEF Ended, cm_vars, stream, ends
<1>12. CASE UNCHANGED cm_vars BY <1>12 DEF cm_vars, stream, ends
<1> QED
  BY <1>1, <1>2, <1>3, <1>4, <1>5, <1>6, <1>7, <1>8, <1>9, <1>10, <1>11, <1>12
     DEF CmNext, Guest, Host

\* stdout gets the bytes of the chunks in order, none twice and none left out,
\* and a rep that did not stall has written all of them (stream_to_stdout).
THEOREM NothingEverSkipped == CmSpec => []NothingSkipped
<1>1. CmInv => NothingSkipped BY DEF CmInv, BytesInOrder, Progress, NothingSkipped
<1> QED BY <1>1, CmInitially, CmKept, PTL DEF CmSpec

-----------------------------------------------------------------------------
(* The workloads. For takes its step as an operator, which no lemma can    *)
(* quantify over: StepOf lists the steps of the loops below by name, so    *)
(* that what follows by induction is said once, of LoopOf, and each loop   *)
(* is shown to be one of them.                                             *)

\* A cell of relaxed_dot's product, and a polynomial's value.
DotCell(m, A, BT, i, j) ==
  For(LAMBDA acc, k : acc + DotAdd(m, A, BT, i * DOT_K + 16 * k, j * DOT_K + 16 * k),
      0, 0, DOT_K \div 16 - 1)
HornerOf(m, COEF, x) ==
  For(LAMBDA p, d : f32x4_relaxed_madd(m, p, x, COEF[DEG - d]),
      COEF[DEG], 1, DEG)

StepOf(c, acc, k) ==
  CASE c.kind = "fib"   -> << acc[2], Wrap(acc[1] + acc[2]) >>
    [] c.kind = "sieve" -> CrossOut(acc, k, c.n)
    [] c.kind = "bulk"  -> FilledStripe(CopiedChunks(c.src, acc, k), k)
    [] c.kind = "lanes" -> [l \in Lanes |->
      f32x4_relaxed_madd(c, c.a[c.i * MAT + k], c.b[k * MAT + c.j + l], acc[l])]
    [] c.kind = "row"   -> f32x4_relaxed_madd(c, c.a[c.i * MAT + k], c.b[k * MAT + c.j], acc)
    [] c.kind = "lcg"   -> Append(acc, Lcg(acc[k]))
    [] c.kind = "bits"  -> (IF k \in c.ones THEN 2^k ELSE 0) + acc
    [] c.kind = "cell"  -> acc
      + DotAdd(c.impl, c.a, c.bt, c.i * DOT_K + 16 * k, c.j * DOT_K + 16 * k)
    [] c.kind = "dot"   -> Wrap(RotateLeft(acc, 3)
      + DotCell(c.impl, c.a, c.bt, k \div DOT_M, k % DOT_M))
    [] c.kind = "horner" -> f32x4_relaxed_madd(c.impl, acc, c.x, c.coef[DEG - k])
    [] c.kind = "madd"  -> [l \in Lanes |->
      Wrap(acc[l] * 31 + HornerOf(c.impl, c.coef, c.x[4 * k + l]))]

Runs(g, c, start, from, upto) ==
  g = [k \in (from - 1)..upto |-> IF k < from THEN start ELSE StepOf(c, g[k - 1], k)]

LoopOf(c, start, from, upto) ==
  IF upto < from THEN start ELSE (CHOOSE g : Runs(g, c, start, from, upto))[upto]

LEMMA RunExists ==
    ASSUME NEW c, NEW start, NEW from \in Int, NEW upto \in Int, from - 1 <= upto
    PROVE  \E g : Runs(g, c, start, from, upto)
<1> DEFINE A == {n \in Nat : \E g : Runs(g, c, start, from, from - 1 + n)}
<1>1. 0 \in A
  <2>1. Runs([k \in (from - 1)..(from - 1) |-> start], c, start, from, from - 1 + 0)
    <3> DEFINE g == [k \in (from - 1)..(from - 1) |-> start]
    <3>1. from - 1 + 0 = from - 1 OBVIOUS
    <3>2. \A k \in (from - 1)..(from - 1) : k < from OBVIOUS
    <3>3. g = [k \in (from - 1)..(from - 1) |-> IF k < from THEN start ELSE StepOf(c, g[k - 1], k)]
      BY <3>2
    <3>. QED BY <3>1, <3>3 DEF Runs
  <2>. QED BY <2>1
<1>2. ASSUME NEW n \in Nat, n \in A PROVE n + 1 \in A
  <2> DEFINE m == from - 1 + n
  <2>1. PICK g : Runs(g, c, start, from, m) BY <1>2
  <2>2. m \in Int /\ from - 1 <= m /\ from - 1 + (n + 1) = m + 1 OBVIOUS
  <2> HIDE DEF m
  <2> DEFINE h == [k \in (from - 1)..(m + 1) |-> IF k = m + 1 THEN StepOf(c, g[m], m + 1) ELSE g[k]]
  <2>3. \A k \in (from - 1)..(m + 1) : k # m + 1 => k \in (from - 1)..m BY <2>2
  <2>4. \A k \in (from - 1)..m : g[k] = IF k < from THEN start ELSE StepOf(c, g[k - 1], k)
    BY <2>1 DEF Runs
  <2>5. ASSUME NEW k \in (from - 1)..(m + 1)
        PROVE  (IF k = m + 1 THEN StepOf(c, g[m], m + 1) ELSE g[k])
                 = IF k < from THEN start ELSE StepOf(c, h[k - 1], k)
    <3>1. CASE k = m + 1
      <4>1. ~(k < from) /\ k - 1 = m /\ m \in (from - 1)..(m + 1) /\ m # m + 1 BY <2>2, <3>1
      <4>2. h[k - 1] = g[m] BY <4>1
      <4> HIDE DEF h
      <4>. QED BY <3>1, <4>1, <4>2
    <3>2. CASE k # m + 1
      <4>1. k \in (from - 1)..m BY <2>3, <3>2
      <4>2. CASE k < from BY <2>4, <3>2, <4>1, <4>2
      <4>3. CASE ~(k < from)
        <5>1. k - 1 \in (from - 1)..(m + 1) /\ k - 1 # m + 1 BY <4>1, <4>3, <2>2
        <5>2. h[k - 1] = g[k - 1] BY <5>1
        <5> HIDE DEF h
        <5>. QED BY <2>4, <3>2, <4>1, <4>3, <5>2
      <4>. QED BY <4>2, <4>3
    <3>. QED BY <3>1, <3>2
  <2>6. h = [k \in (from - 1)..(m + 1) |-> IF k < from THEN start ELSE StepOf(c, h[k - 1], k)]
    BY <2>5
  <2> HIDE DEF h
  <2>7. Runs(h, c, start, from, m + 1) BY <2>6 DEF Runs
  <2>8. \E f : Runs(f, c, start, from, from - 1 + (n + 1)) BY <2>2, <2>7, Zenon
  <2>. QED BY <2>8
<1>3. upto - (from - 1) \in Nat /\ from - 1 + (upto - (from - 1)) = upto OBVIOUS
<1> HIDE DEF A
<1>4. \A i \in 0..(upto - (from - 1)) : i \in A
  <2>1. \A i \in 0..(upto - (from - 1) - 1) : i \in A => i + 1 \in A BY <1>2
  <2>. QED BY <1>1, <1>3, <2>1, Induction
<1>5. upto - (from - 1) \in A BY <1>3, <1>4
<1>. QED BY <1>3, <1>5 DEF A

\* Two runs of the same loop agree as far as both go.
LEMMA RunsAgree ==
    ASSUME NEW c, NEW start, NEW from \in Int, NEW upto \in Int, NEW end \in Int, end <= upto,
           NEW g, Runs(g, c, start, from, upto), NEW h, Runs(h, c, start, from, end)
    PROVE  \A k \in (from - 1)..end : g[k] = h[k]
<1>1. SUFFICES ASSUME NEW k \in (from - 1)..end PROVE g[k] = h[k] OBVIOUS
<1> DEFINE A == {n \in Nat : from - 1 + n <= end => g[from - 1 + n] = h[from - 1 + n]}
<1>2. 0 \in A BY DEF Runs
<1>3. ASSUME NEW n \in Nat, n \in A PROVE n + 1 \in A
  <2>1. SUFFICES ASSUME from - 1 + (n + 1) <= end
                 PROVE  g[from - 1 + (n + 1)] = h[from - 1 + (n + 1)]
    OBVIOUS
  <2>2. g[from - 1 + n] = h[from - 1 + n] BY <1>3, <2>1
  <2> DEFINE m == from - 1 + (n + 1)
  <2>3. m \in (from - 1)..end /\ m \in (from - 1)..upto /\ ~(m < from) /\ m - 1 = from - 1 + n
    BY <2>1
  <2> HIDE DEF m
  <2>4. g[m] = StepOf(c, g[m - 1], m) /\ h[m] = StepOf(c, h[m - 1], m) BY <2>3 DEF Runs
  <2>5. g[m] = h[m] BY <2>2, <2>3, <2>4
  <2>. QED BY <2>5 DEF m
<1>4. k - (from - 1) \in Nat /\ from - 1 + (k - (from - 1)) = k OBVIOUS
<1> HIDE DEF A
<1>5. \A i \in 0..(k - (from - 1)) : i \in A BY <1>2, <1>3, <1>4, Induction
<1>6. k - (from - 1) \in A BY <1>4, <1>5
<1>. QED BY <1>4, <1>6 DEF A

LEMMA LoopRuns ==
    ASSUME NEW c, NEW start, NEW from \in Int, NEW upto \in Int, from <= upto,
           NEW g, Runs(g, c, start, from, upto)
    PROVE  LoopOf(c, start, from, upto) = g[upto]
<1>1. Runs(CHOOSE h : Runs(h, c, start, from, upto), c, start, from, upto) BY Zenon
<1> DEFINE h == CHOOSE h : Runs(h, c, start, from, upto)
<1>2. LoopOf(c, start, from, upto) = h[upto] BY DEF LoopOf
<1> HIDE DEF h
<1>3. h[upto] = g[upto]
  <2>1. upto \in (from - 1)..upto OBVIOUS
  <2>2. Runs(h, c, start, from, upto) BY <1>1 DEF h
  <2>3. \A k \in (from - 1)..upto : h[k] = g[k] BY <2>2, RunsAgree
  <2>. QED BY <2>1, <2>3
<1>. QED BY <1>2, <1>3

LEMMA LoopStarts ==
    ASSUME NEW c, NEW start, NEW from \in Int, NEW upto \in Int, upto < from
    PROVE  LoopOf(c, start, from, upto) = start
BY DEF LoopOf

LEMMA LoopContinues ==
    ASSUME NEW c, NEW start, NEW from \in Int, NEW upto \in Int, from <= upto
    PROVE  LoopOf(c, start, from, upto) = StepOf(c, LoopOf(c, start, from, upto - 1), upto)
<1>0. from - 1 <= upto OBVIOUS
<1>1. PICK g : Runs(g, c, start, from, upto) BY <1>0, RunExists
<1>2. LoopOf(c, start, from, upto) = g[upto] BY <1>1, LoopRuns
<1>3. g[upto] = StepOf(c, g[upto - 1], upto)
  <2>1. upto \in (from - 1)..upto /\ ~(upto < from) OBVIOUS
  <2>. QED BY <1>1, <2>1 DEF Runs
<1>4. LoopOf(c, start, from, upto - 1) = g[upto - 1]
  <2>1. CASE upto - 1 < from
    <3>1. upto - 1 \in (from - 1)..upto OBVIOUS
    <3>2. g[upto - 1] = start BY <1>1, <2>1, <3>1 DEF Runs
    <3>. QED BY <2>1, <3>2, LoopStarts
  <2>2. CASE from <= upto - 1
    <3>0. upto - 1 \in Int /\ from - 1 <= upto - 1 BY <2>2
    <3>1. PICK h : Runs(h, c, start, from, upto - 1) BY <3>0, RunExists
    <3>2. LoopOf(c, start, from, upto - 1) = h[upto - 1] BY <2>2, <3>0, <3>1, LoopRuns
    <3>3. upto - 1 \in (from - 1)..(upto - 1) /\ upto - 1 <= upto /\ upto - 1 \in Int BY <2>2
    <3>4. \A k \in (from - 1)..(upto - 1) : g[k] = h[k] BY <1>1, <3>1, <3>3, RunsAgree
    <3>5. g[upto - 1] = h[upto - 1] BY <3>3, <3>4
    <3>. QED BY <3>2, <3>5
  <2>. QED BY <2>1, <2>2
<1>. QED BY <1>2, <1>3, <1>4


\* fib_reference's loop.
LEMMA PairLoop ==
    ASSUME NEW start, NEW upto \in Int
    PROVE  For(LAMBDA p, i : << p[2], Wrap(p[1] + p[2]) >>, start, 1, upto)
             = LoopOf([kind |-> "fib"], start, 1, upto)
<1> DEFINE c == [kind |-> "fib"]
<1>1. CASE upto < 1 BY <1>1 DEF For, LoopOf
<1>2. CASE 1 <= upto
  <2> DEFINE IsRun(g) == g = [k \in (1 - 1)..upto |->
                               IF k < 1 THEN start
                                 ELSE << g[k - 1][2], Wrap(g[k - 1][1] + g[k - 1][2]) >>]
             after == CHOOSE g : IsRun(g)
  <2>1. \A acc, k : StepOf(c, acc, k) = << acc[2], Wrap(acc[1] + acc[2]) >> BY DEF StepOf
  <2>2. For(LAMBDA p, i : << p[2], Wrap(p[1] + p[2]) >>, start, 1, upto) = after[upto]
    BY <1>2 DEF For
  <2> HIDE DEF c
  <2>3. \A g : IsRun(g) <=> Runs(g, c, start, 1, upto) BY <2>1 DEF Runs
  <2>4. \E g : IsRun(g)
    <3>1. 1 \in Int /\ 1 - 1 <= upto BY <1>2
    <3>2. \E g : Runs(g, c, start, 1, upto) BY <3>1, RunExists
    <3>. QED BY <2>3, <3>2
  <2> HIDE DEF IsRun
  <2>5. IsRun(after) BY <2>4, Zenon
  <2>6. Runs(after, c, start, 1, upto) BY <2>3, <2>5
  <2> HIDE DEF after
  <2>7. LoopOf(c, start, 1, upto) = after[upto] BY <1>2, <2>6, LoopRuns
  <2>. QED BY <2>2, <2>7 DEF c
<1>3. upto < 1 \/ 1 <= upto OBVIOUS
<1>. QED BY <1>1, <1>2, <1>3, Zenon

\* The loop of sieve and of its reference.
LEMMA SieveLoop ==
    ASSUME NEW n, NEW start, NEW upto \in Int
    PROVE  For(LAMBDA f, p : CrossOut(f, p, n), start, 2, upto)
             = LoopOf([kind |-> "sieve", n |-> n], start, 2, upto)
<1> DEFINE c == [kind |-> "sieve", n |-> n]
<1>1. CASE upto < 2 BY <1>1 DEF For, LoopOf
<1>2. CASE 2 <= upto
  <2> DEFINE IsRun(g) == g = [k \in (2 - 1)..upto |->
                               IF k < 2 THEN start ELSE CrossOut(g[k - 1], k, n)]
             after == CHOOSE g : IsRun(g)
  <2>1. \A acc, k : StepOf(c, acc, k) = CrossOut(acc, k, n) BY DEF StepOf
  <2>2. For(LAMBDA f, p : CrossOut(f, p, n), start, 2, upto) = after[upto]
    BY <1>2 DEF For
  <2> HIDE DEF c
  <2>3. \A g : IsRun(g) <=> Runs(g, c, start, 2, upto) BY <2>1 DEF Runs
  <2>4. \E g : IsRun(g)
    <3>1. 2 \in Int /\ 2 - 1 <= upto BY <1>2
    <3>2. \E g : Runs(g, c, start, 2, upto) BY <3>1, RunExists
    <3>. QED BY <2>3, <3>2
  <2> HIDE DEF IsRun
  <2>5. IsRun(after) BY <2>4, Zenon
  <2>6. Runs(after, c, start, 2, upto) BY <2>3, <2>5
  <2> HIDE DEF after
  <2>7. LoopOf(c, start, 2, upto) = after[upto] BY <1>2, <2>6, LoopRuns
  <2>. QED BY <2>2, <2>7 DEF c
<1>3. upto < 2 \/ 2 <= upto OBVIOUS
<1>. QED BY <1>1, <1>2, <1>3, Zenon

\* The rounds of bulk_memory.
LEMMA BulkLoop ==
    ASSUME NEW src, NEW start, NEW upto \in Int
    PROVE  For(LAMBDA d, round : FilledStripe(CopiedChunks(src, d, round), round), start, 0, upto)
             = LoopOf([kind |-> "bulk", src |-> src], start, 0, upto)
<1> DEFINE c == [kind |-> "bulk", src |-> src]
<1>1. CASE upto < 0 BY <1>1 DEF For, LoopOf
<1>2. CASE 0 <= upto
  <2> DEFINE IsRun(g) == g = [k \in (0 - 1)..upto |->
                               IF k < 0 THEN start
                                 ELSE FilledStripe(CopiedChunks(src, g[k - 1], k), k)]
             after == CHOOSE g : IsRun(g)
  <2>1. \A acc, k : StepOf(c, acc, k) = FilledStripe(CopiedChunks(src, acc, k), k) BY DEF StepOf
  <2>2. For(LAMBDA d, round : FilledStripe(CopiedChunks(src, d, round), round), start, 0, upto)
          = after[upto]
    BY <1>2 DEF For
  <2> HIDE DEF c
  <2>3. \A g : IsRun(g) <=> Runs(g, c, start, 0, upto) BY <2>1 DEF Runs
  <2>4. \E g : IsRun(g)
    <3>1. 0 \in Int /\ 0 - 1 <= upto BY <1>2
    <3>2. \E g : Runs(g, c, start, 0, upto) BY <3>1, RunExists
    <3>. QED BY <2>3, <3>2
  <2> HIDE DEF IsRun
  <2>5. IsRun(after) BY <2>4, Zenon
  <2>6. Runs(after, c, start, 0, upto) BY <2>3, <2>5
  <2> HIDE DEF after
  <2>7. LoopOf(c, start, 0, upto) = after[upto] BY <1>2, <2>6, LoopRuns
  <2>. QED BY <2>2, <2>7 DEF c
<1>3. upto < 0 \/ 0 <= upto OBVIOUS
<1>. QED BY <1>1, <1>2, <1>3, Zenon

\* A product's loop over lanes, as matmul rounds.
SplitLanes(A, B, i, j) ==
  For(LAMBDA acc, k : [l \in Lanes |-> MulThenAdd(A[i * MAT + k], B[k * MAT + j + l], acc[l])],
      [l \in Lanes |-> 0], 0, MAT - 1)

LEMMA SplitLanesLoop ==
    ASSUME NEW A, NEW B, NEW i, NEW j, MAT - 1 \in Int
    PROVE  SplitLanes(A, B, i, j)
             = LoopOf([kind |-> "lanes", fused |-> FALSE, a |-> A, b |-> B, i |-> i, j |-> j],
               [l \in Lanes |-> 0], 0, MAT - 1)
<1> DEFINE c == [kind |-> "lanes", fused |-> FALSE, a |-> A, b |-> B, i |-> i, j |-> j]
           upto == MAT - 1
           start == [l \in Lanes |-> 0]
<1>1. upto \in Int OBVIOUS
<1>2. CASE upto < 0 BY <1>2 DEF For, SplitLanes, LoopOf
<1>3. CASE 0 <= upto
  <2> DEFINE IsRun(g) == g = [k \in (0 - 1)..upto |->
                               IF k < 0 THEN start
                                 ELSE [l \in Lanes |->
                                   MulThenAdd(A[i * MAT + k], B[k * MAT + j + l], g[k - 1][l])]]
             after == CHOOSE g : IsRun(g)
  <2>1. \A acc, k : StepOf(c, acc, k)
          = [l \in Lanes |-> MulThenAdd(A[i * MAT + k], B[k * MAT + j + l], acc[l])]
    BY DEF StepOf, f32x4_relaxed_madd
  <2>2. SplitLanes(A, B, i, j) = after[upto] BY <1>3 DEF For, SplitLanes
  <2> HIDE DEF c, upto, start
  <2>3. \A g : IsRun(g) <=> Runs(g, c, start, 0, upto) BY <2>1 DEF Runs
  <2>4. \E g : IsRun(g)
    <3>1. 0 \in Int /\ 0 - 1 <= upto BY <1>1, <1>3
    <3>2. \E g : Runs(g, c, start, 0, upto) BY <1>1, <3>1, RunExists
    <3>. QED BY <2>3, <3>2
  <2> HIDE DEF IsRun
  <2>5. IsRun(after) BY <2>4, Zenon
  <2>6. Runs(after, c, start, 0, upto) BY <2>3, <2>5
  <2> HIDE DEF after
  <2>7. LoopOf(c, start, 0, upto) = after[upto] BY <1>1, <1>3, <2>6, LoopRuns
  <2>. QED BY <2>2, <2>7 DEF c, upto, start
<1>4. upto < 0 \/ 0 <= upto BY <1>1
<1>. QED BY <1>2, <1>3, <1>4, Zenon

\* The same as a runtime rounds.
RelaxedLanes(m, A, B, i, j) ==
  For(LAMBDA acc, k :
    [l \in Lanes |-> f32x4_relaxed_madd(m, A[i * MAT + k], B[k * MAT + j + l], acc[l])],
      [l \in Lanes |-> 0], 0, MAT - 1)

LEMMA RelaxedLanesLoop ==
    ASSUME NEW m, NEW A, NEW B, NEW i, NEW j, MAT - 1 \in Int
    PROVE  RelaxedLanes(m, A, B, i, j)
             = LoopOf([kind |-> "lanes", fused |-> m.fused, a |-> A, b |-> B, i |-> i, j |-> j],
               [l \in Lanes |-> 0], 0, MAT - 1)
<1> DEFINE c == [kind |-> "lanes", fused |-> m.fused, a |-> A, b |-> B, i |-> i, j |-> j]
           upto == MAT - 1
           start == [l \in Lanes |-> 0]
<1>1. upto \in Int OBVIOUS
<1>2. CASE upto < 0 BY <1>2 DEF For, RelaxedLanes, LoopOf
<1>3. CASE 0 <= upto
  <2> DEFINE IsRun(g) == g = [k \in (0 - 1)..upto |->
                               IF k < 0 THEN start
                                 ELSE [l \in Lanes |->
                                   f32x4_relaxed_madd(m, A[i * MAT + k], B[k * MAT + j + l],
                                     g[k - 1][l])]]
             after == CHOOSE g : IsRun(g)
  <2>1. \A acc, k : StepOf(c, acc, k)
          = [l \in Lanes |-> f32x4_relaxed_madd(m, A[i * MAT + k], B[k * MAT + j + l], acc[l])]
    BY DEF StepOf, f32x4_relaxed_madd
  <2>2. RelaxedLanes(m, A, B, i, j) = after[upto] BY <1>3 DEF For, RelaxedLanes
  <2> HIDE DEF c, upto, start
  <2>3. \A g : IsRun(g) <=> Runs(g, c, start, 0, upto) BY <2>1 DEF Runs
  <2>4. \E g : IsRun(g)
    <3>1. 0 \in Int /\ 0 - 1 <= upto BY <1>1, <1>3
    <3>2. \E g : Runs(g, c, start, 0, upto) BY <1>1, <3>1, RunExists
    <3>. QED BY <2>3, <3>2
  <2> HIDE DEF IsRun
  <2>5. IsRun(after) BY <2>4, Zenon
  <2>6. Runs(after, c, start, 0, upto) BY <2>3, <2>5
  <2> HIDE DEF after
  <2>7. LoopOf(c, start, 0, upto) = after[upto] BY <1>1, <1>3, <2>6, LoopRuns
  <2>. QED BY <2>2, <2>7 DEF c, upto, start
<1>4. upto < 0 \/ 0 <= upto BY <1>1
<1>. QED BY <1>2, <1>3, <1>4, Zenon

\* The reference's loop, with two roundings.
Row(A, B, i, j) ==
  For(LAMBDA acc, k : MulThenAdd(A[i * MAT + k], B[k * MAT + j], acc),
      0, 0, MAT - 1)

LEMMA RowLoop ==
    ASSUME NEW A, NEW B, NEW i, NEW j, MAT - 1 \in Int
    PROVE  Row(A, B, i, j)
             = LoopOf([kind |-> "row", fused |-> FALSE, a |-> A, b |-> B, i |-> i, j |-> j], 0,
               0, MAT - 1)
<1> DEFINE c == [kind |-> "row", fused |-> FALSE, a |-> A, b |-> B, i |-> i, j |-> j]
           upto == MAT - 1
           start == 0
<1>1. upto \in Int OBVIOUS
<1>2. CASE upto < 0 BY <1>2 DEF For, Row, LoopOf
<1>3. CASE 0 <= upto
  <2> DEFINE IsRun(g) == g = [k \in (0 - 1)..upto |->
                               IF k < 0 THEN start
                                 ELSE MulThenAdd(A[i * MAT + k], B[k * MAT + j], g[k - 1])]
             after == CHOOSE g : IsRun(g)
  <2>1. \A acc, k : StepOf(c, acc, k) = MulThenAdd(A[i * MAT + k], B[k * MAT + j], acc)
    BY DEF StepOf, f32x4_relaxed_madd
  <2>2. Row(A, B, i, j) = after[upto] BY <1>3 DEF For, Row
  <2> HIDE DEF c, upto, start
  <2>3. \A g : IsRun(g) <=> Runs(g, c, start, 0, upto) BY <2>1 DEF Runs
  <2>4. \E g : IsRun(g)
    <3>1. 0 \in Int /\ 0 - 1 <= upto BY <1>1, <1>3
    <3>2. \E g : Runs(g, c, start, 0, upto) BY <1>1, <3>1, RunExists
    <3>. QED BY <2>3, <3>2
  <2> HIDE DEF IsRun
  <2>5. IsRun(after) BY <2>4, Zenon
  <2>6. Runs(after, c, start, 0, upto) BY <2>3, <2>5
  <2> HIDE DEF after
  <2>7. LoopOf(c, start, 0, upto) = after[upto] BY <1>1, <1>3, <2>6, LoopRuns
  <2>. QED BY <2>2, <2>7 DEF c, upto, start
<1>4. upto < 0 \/ 0 <= upto BY <1>1
<1>. QED BY <1>2, <1>3, <1>4, Zenon

\* The same with one.
FusedRow(A, B, i, j) ==
  For(LAMBDA acc, k : MulAdd(A[i * MAT + k], B[k * MAT + j], acc),
      0, 0, MAT - 1)

LEMMA FusedRowLoop ==
    ASSUME NEW A, NEW B, NEW i, NEW j, MAT - 1 \in Int
    PROVE  FusedRow(A, B, i, j)
             = LoopOf([kind |-> "row", fused |-> TRUE, a |-> A, b |-> B, i |-> i, j |-> j], 0, 0,
               MAT - 1)
<1> DEFINE c == [kind |-> "row", fused |-> TRUE, a |-> A, b |-> B, i |-> i, j |-> j]
           upto == MAT - 1
           start == 0
<1>1. upto \in Int OBVIOUS
<1>2. CASE upto < 0 BY <1>2 DEF For, FusedRow, LoopOf
<1>3. CASE 0 <= upto
  <2> DEFINE IsRun(g) == g = [k \in (0 - 1)..upto |->
                               IF k < 0 THEN start
                                 ELSE MulAdd(A[i * MAT + k], B[k * MAT + j], g[k - 1])]
             after == CHOOSE g : IsRun(g)
  <2>1. \A acc, k : StepOf(c, acc, k) = MulAdd(A[i * MAT + k], B[k * MAT + j], acc)
    BY DEF StepOf, f32x4_relaxed_madd
  <2>2. FusedRow(A, B, i, j) = after[upto] BY <1>3 DEF For, FusedRow
  <2> HIDE DEF c, upto, start
  <2>3. \A g : IsRun(g) <=> Runs(g, c, start, 0, upto) BY <2>1 DEF Runs
  <2>4. \E g : IsRun(g)
    <3>1. 0 \in Int /\ 0 - 1 <= upto BY <1>1, <1>3
    <3>2. \E g : Runs(g, c, start, 0, upto) BY <1>1, <3>1, RunExists
    <3>. QED BY <2>3, <3>2
  <2> HIDE DEF IsRun
  <2>5. IsRun(after) BY <2>4, Zenon
  <2>6. Runs(after, c, start, 0, upto) BY <2>3, <2>5
  <2> HIDE DEF after
  <2>7. LoopOf(c, start, 0, upto) = after[upto] BY <1>1, <1>3, <2>6, LoopRuns
  <2>. QED BY <2>2, <2>7 DEF c, upto, start
<1>4. upto < 0 \/ 0 <= upto BY <1>1
<1>. QED BY <1>2, <1>3, <1>4, Zenon

\* The generator's words after the seed, and the seed before them.
WordsFrom(s, n) ==
  For(LAMBDA words, k : Append(words, Lcg(words[k])),
      << s >>, 1, n)

LEMMA DrawnLoop ==
    ASSUME NEW s, NEW n, n \in Int
    PROVE  WordsFrom(s, n)
             = LoopOf([kind |-> "lcg"], << s >>, 1, n)
<1> DEFINE c == [kind |-> "lcg"]
           upto == n
           start == << s >>
<1>1. upto \in Int OBVIOUS
<1>2. CASE upto < 1 BY <1>2 DEF For, WordsFrom, LoopOf
<1>3. CASE 1 <= upto
  <2> DEFINE IsRun(g) == g = [k \in (1 - 1)..upto |->
                               IF k < 1 THEN start ELSE Append(g[k - 1], Lcg(g[k - 1][k]))]
             after == CHOOSE g : IsRun(g)
  <2>1. \A acc, k : StepOf(c, acc, k) = Append(acc, Lcg(acc[k]))
    BY DEF StepOf
  <2>2. WordsFrom(s, n) = after[upto] BY <1>3 DEF For, WordsFrom
  <2> HIDE DEF c, upto, start
  <2>3. \A g : IsRun(g) <=> Runs(g, c, start, 1, upto) BY <2>1 DEF Runs
  <2>4. \E g : IsRun(g)
    <3>1. 1 \in Int /\ 1 - 1 <= upto BY <1>1, <1>3
    <3>2. \E g : Runs(g, c, start, 1, upto) BY <1>1, <3>1, RunExists
    <3>. QED BY <2>3, <3>2
  <2> HIDE DEF IsRun
  <2>5. IsRun(after) BY <2>4, Zenon
  <2>6. Runs(after, c, start, 1, upto) BY <2>3, <2>5
  <2> HIDE DEF after
  <2>7. LoopOf(c, start, 1, upto) = after[upto] BY <1>1, <1>3, <2>6, LoopRuns
  <2>. QED BY <2>2, <2>7 DEF c, upto, start
<1>4. upto < 1 \/ 1 <= upto BY <1>1
<1>. QED BY <1>2, <1>3, <1>4, Zenon

\* A word from its bits.
Sum(ones) ==
  For(LAMBDA sum, i : (IF i \in ones THEN 2^i ELSE 0) + sum,
      0, 0, WORD - 1)

LEMMA SumLoop ==
    ASSUME NEW ones, WORD - 1 \in Int
    PROVE  Sum(ones)
             = LoopOf([kind |-> "bits", ones |-> ones], 0, 0, WORD - 1)
<1> DEFINE c == [kind |-> "bits", ones |-> ones]
           upto == WORD - 1
           start == 0
<1>1. upto \in Int OBVIOUS
<1>2. CASE upto < 0 BY <1>2 DEF For, Sum, LoopOf
<1>3. CASE 0 <= upto
  <2> DEFINE IsRun(g) == g = [k \in (0 - 1)..upto |->
                               IF k < 0 THEN start ELSE (IF k \in ones THEN 2^k ELSE 0) + g[k - 1]]
             after == CHOOSE g : IsRun(g)
  <2>1. \A acc, k : StepOf(c, acc, k) = (IF k \in ones THEN 2^k ELSE 0) + acc
    BY DEF StepOf
  <2>2. Sum(ones) = after[upto] BY <1>3 DEF For, Sum
  <2> HIDE DEF c, upto, start
  <2>3. \A g : IsRun(g) <=> Runs(g, c, start, 0, upto) BY <2>1 DEF Runs
  <2>4. \E g : IsRun(g)
    <3>1. 0 \in Int /\ 0 - 1 <= upto BY <1>1, <1>3
    <3>2. \E g : Runs(g, c, start, 0, upto) BY <1>1, <3>1, RunExists
    <3>. QED BY <2>3, <3>2
  <2> HIDE DEF IsRun
  <2>5. IsRun(after) BY <2>4, Zenon
  <2>6. Runs(after, c, start, 0, upto) BY <2>3, <2>5
  <2> HIDE DEF after
  <2>7. LoopOf(c, start, 0, upto) = after[upto] BY <1>1, <1>3, <2>6, LoopRuns
  <2>. QED BY <2>2, <2>7 DEF c, upto, start
<1>4. upto < 0 \/ 0 <= upto BY <1>1
<1>. QED BY <1>2, <1>3, <1>4, Zenon

LEMMA DotCellLoop ==
    ASSUME NEW m, NEW A, NEW BT, NEW i, NEW j, DOT_K \div 16 - 1 \in Int
    PROVE  DotCell(m, A, BT, i, j)
             = LoopOf([kind |-> "cell", impl |-> m, a |-> A, bt |-> BT, i |-> i, j |-> j], 0, 0,
               DOT_K \div 16 - 1)
<1> DEFINE c == [kind |-> "cell", impl |-> m, a |-> A, bt |-> BT, i |-> i, j |-> j]
           upto == DOT_K \div 16 - 1
           start == 0
<1>1. upto \in Int OBVIOUS
<1>2. CASE upto < 0 BY <1>2 DEF For, DotCell, LoopOf
<1>3. CASE 0 <= upto
  <2> DEFINE IsRun(g) == g = [k \in (0 - 1)..upto |->
                               IF k < 0 THEN start
                                 ELSE g[k - 1]
                                   + DotAdd(m, A, BT, i * DOT_K + 16 * k, j * DOT_K + 16 * k)]
             after == CHOOSE g : IsRun(g)
  <2>1. \A acc, k : StepOf(c, acc, k)
          = acc + DotAdd(m, A, BT, i * DOT_K + 16 * k, j * DOT_K + 16 * k)
    BY DEF StepOf
  <2>2. DotCell(m, A, BT, i, j) = after[upto] BY <1>3 DEF For, DotCell
  <2> HIDE DEF c, upto, start
  <2>3. \A g : IsRun(g) <=> Runs(g, c, start, 0, upto) BY <2>1 DEF Runs
  <2>4. \E g : IsRun(g)
    <3>1. 0 \in Int /\ 0 - 1 <= upto BY <1>1, <1>3
    <3>2. \E g : Runs(g, c, start, 0, upto) BY <1>1, <3>1, RunExists
    <3>. QED BY <2>3, <3>2
  <2> HIDE DEF IsRun
  <2>5. IsRun(after) BY <2>4, Zenon
  <2>6. Runs(after, c, start, 0, upto) BY <2>3, <2>5
  <2> HIDE DEF after
  <2>7. LoopOf(c, start, 0, upto) = after[upto] BY <1>1, <1>3, <2>6, LoopRuns
  <2>. QED BY <2>2, <2>7 DEF c, upto, start
<1>4. upto < 0 \/ 0 <= upto BY <1>1
<1>. QED BY <1>2, <1>3, <1>4, Zenon

LEMMA HornerOfLoop ==
    ASSUME NEW m, NEW COEF, NEW x, DEG \in Int
    PROVE  HornerOf(m, COEF, x)
             = LoopOf([kind |-> "horner", impl |-> m, coef |-> COEF, x |-> x], COEF[DEG], 1, DEG)
<1> DEFINE c == [kind |-> "horner", impl |-> m, coef |-> COEF, x |-> x]
           upto == DEG
           start == COEF[DEG]
<1>1. upto \in Int OBVIOUS
<1>2. CASE upto < 1 BY <1>2 DEF For, HornerOf, LoopOf
<1>3. CASE 1 <= upto
  <2> DEFINE IsRun(g) == g = [k \in (1 - 1)..upto |->
                               IF k < 1 THEN start
                                 ELSE f32x4_relaxed_madd(m, g[k - 1], x, COEF[DEG - k])]
             after == CHOOSE g : IsRun(g)
  <2>1. \A acc, k : StepOf(c, acc, k) = f32x4_relaxed_madd(m, acc, x, COEF[DEG - k])
    BY DEF StepOf
  <2>2. HornerOf(m, COEF, x) = after[upto] BY <1>3 DEF For, HornerOf
  <2> HIDE DEF c, upto, start
  <2>3. \A g : IsRun(g) <=> Runs(g, c, start, 1, upto) BY <2>1 DEF Runs
  <2>4. \E g : IsRun(g)
    <3>1. 1 \in Int /\ 1 - 1 <= upto BY <1>1, <1>3
    <3>2. \E g : Runs(g, c, start, 1, upto) BY <1>1, <3>1, RunExists
    <3>. QED BY <2>3, <3>2
  <2> HIDE DEF IsRun
  <2>5. IsRun(after) BY <2>4, Zenon
  <2>6. Runs(after, c, start, 1, upto) BY <2>3, <2>5
  <2> HIDE DEF after
  <2>7. LoopOf(c, start, 1, upto) = after[upto] BY <1>1, <1>3, <2>6, LoopRuns
  <2>. QED BY <2>2, <2>7 DEF c, upto, start
<1>4. upto < 1 \/ 1 <= upto BY <1>1
<1>. QED BY <1>2, <1>3, <1>4, Zenon

\* The cells' sum.
DotRounds(m, A, BT) ==
  For(LAMBDA sum, c : Wrap(RotateLeft(sum, 3) + DotCell(m, A, BT, c \div DOT_M, c % DOT_M)),
      0, 0, DOT_M * DOT_M - 1)

LEMMA DotRoundsLoop ==
    ASSUME NEW m, NEW A, NEW BT, DOT_M * DOT_M - 1 \in Int
    PROVE  DotRounds(m, A, BT)
             = LoopOf([kind |-> "dot", impl |-> m, a |-> A, bt |-> BT], 0, 0, DOT_M * DOT_M - 1)
<1> DEFINE c == [kind |-> "dot", impl |-> m, a |-> A, bt |-> BT]
           upto == DOT_M * DOT_M - 1
           start == 0
<1>1. upto \in Int OBVIOUS
<1>2. CASE upto < 0 BY <1>2 DEF For, DotRounds, LoopOf
<1>3. CASE 0 <= upto
  <2> DEFINE IsRun(g) == g = [k \in (0 - 1)..upto |->
                               IF k < 0 THEN start
                                 ELSE Wrap(RotateLeft(g[k - 1], 3)
                                   + DotCell(m, A, BT, k \div DOT_M, k % DOT_M))]
             after == CHOOSE g : IsRun(g)
  <2>1. \A acc, k : StepOf(c, acc, k)
          = Wrap(RotateLeft(acc, 3) + DotCell(m, A, BT, k \div DOT_M, k % DOT_M))
    BY DEF StepOf
  <2>2. DotRounds(m, A, BT) = after[upto] BY <1>3 DEF For, DotRounds
  <2> HIDE DEF c, upto, start
  <2>3. \A g : IsRun(g) <=> Runs(g, c, start, 0, upto) BY <2>1 DEF Runs
  <2>4. \E g : IsRun(g)
    <3>1. 0 \in Int /\ 0 - 1 <= upto BY <1>1, <1>3
    <3>2. \E g : Runs(g, c, start, 0, upto) BY <1>1, <3>1, RunExists
    <3>. QED BY <2>3, <3>2
  <2> HIDE DEF IsRun
  <2>5. IsRun(after) BY <2>4, Zenon
  <2>6. Runs(after, c, start, 0, upto) BY <2>3, <2>5
  <2> HIDE DEF after
  <2>7. LoopOf(c, start, 0, upto) = after[upto] BY <1>1, <1>3, <2>6, LoopRuns
  <2>. QED BY <2>2, <2>7 DEF c, upto, start
<1>4. upto < 0 \/ 0 <= upto BY <1>1
<1>. QED BY <1>2, <1>3, <1>4, Zenon

\* The lanes' sums.
MaddRounds(m, Pts, COEF) ==
  For(LAMBDA acc, i : [l \in Lanes |-> Wrap(acc[l] * 31 + HornerOf(m, COEF, Pts[4 * i + l]))],
      [l \in Lanes |-> 0], 0, NPTS \div 4 - 1)

LEMMA MaddRoundsLoop ==
    ASSUME NEW m, NEW Pts, NEW COEF, NPTS \div 4 - 1 \in Int
    PROVE  MaddRounds(m, Pts, COEF)
             = LoopOf([kind |-> "madd", impl |-> m, coef |-> COEF, x |-> Pts], [l \in Lanes |-> 0],
               0, NPTS \div 4 - 1)
<1> DEFINE c == [kind |-> "madd", impl |-> m, coef |-> COEF, x |-> Pts]
           upto == NPTS \div 4 - 1
           start == [l \in Lanes |-> 0]
<1>1. upto \in Int OBVIOUS
<1>2. CASE upto < 0 BY <1>2 DEF For, MaddRounds, LoopOf
<1>3. CASE 0 <= upto
  <2> DEFINE IsRun(g) == g = [k \in (0 - 1)..upto |->
                               IF k < 0 THEN start
                                 ELSE [l \in Lanes |->
                                   Wrap(g[k - 1][l] * 31 + HornerOf(m, COEF, Pts[4 * k + l]))]]
             after == CHOOSE g : IsRun(g)
  <2>1. \A acc, k : StepOf(c, acc, k)
          = [l \in Lanes |-> Wrap(acc[l] * 31 + HornerOf(m, COEF, Pts[4 * k + l]))]
    BY DEF StepOf
  <2>2. MaddRounds(m, Pts, COEF) = after[upto] BY <1>3 DEF For, MaddRounds
  <2> HIDE DEF c, upto, start
  <2>3. \A g : IsRun(g) <=> Runs(g, c, start, 0, upto) BY <2>1 DEF Runs
  <2>4. \E g : IsRun(g)
    <3>1. 0 \in Int /\ 0 - 1 <= upto BY <1>1, <1>3
    <3>2. \E g : Runs(g, c, start, 0, upto) BY <1>1, <3>1, RunExists
    <3>. QED BY <2>3, <3>2
  <2> HIDE DEF IsRun
  <2>5. IsRun(after) BY <2>4, Zenon
  <2>6. Runs(after, c, start, 0, upto) BY <2>3, <2>5
  <2> HIDE DEF after
  <2>7. LoopOf(c, start, 0, upto) = after[upto] BY <1>1, <1>3, <2>6, LoopRuns
  <2>. QED BY <2>2, <2>7 DEF c, upto, start
<1>4. upto < 0 \/ 0 <= upto BY <1>1
<1>. QED BY <1>2, <1>3, <1>4, Zenon

-----------------------------------------------------------------------------
(* Powers of two, and words.                                               *)

Limit == 2 * WORD + MANTISSA + 1
Two(n) == 2^n

LEMMA TwoSteps ==
    /\ Limit \in Nat /\ WORD \in Nat /\ Two(0) = 1
    /\ \A n \in Nat : n + 1 <= Limit => Two(n + 1) = 2 * Two(n)
<1>1. Limit \in Nat /\ WORD \in Nat BY WordsAssumption DEF Limit
<1>2. \A n \in Nat : n + 1 <= Limit => n \in 0..(2 * WORD + MANTISSA) BY WordsAssumption DEF Limit
<1>. QED BY <1>1, <1>2, PowersOfTwo DEF Two

LEMMA TwoPositive == \A n \in 0..Limit : Two(n) \in Nat \ {0}
<1> DEFINE A == {n \in Nat : n <= Limit => Two(n) \in Nat \ {0}}
<1>1. 0 \in A BY TwoSteps
<1>2. ASSUME NEW n \in Nat, n \in A PROVE n + 1 \in A
  <2>1. SUFFICES ASSUME n + 1 <= Limit PROVE Two(n + 1) \in Nat \ {0} OBVIOUS
  <2>2. n <= Limit BY <2>1, TwoSteps
  <2>3. Two(n) \in Nat \ {0} BY <1>2, <2>2
  <2>. QED BY <2>1, <2>3, TwoSteps
<1> HIDE DEF A
<1>3. \A n \in 0..Limit : n \in A BY <1>1, <1>2, TwoSteps, Induction
<1>. QED BY <1>3, TwoSteps DEF A

LEMMA TwoSum ==
    ASSUME NEW m \in Nat, NEW n \in Nat, m + n <= Limit
    PROVE  Two(m + n) = Two(m) * Two(n)
<1> DEFINE A == {k \in Nat : m + k <= Limit => Two(m + k) = Two(m) * Two(k)}
<1>1. 0 \in A
  <2>1. SUFFICES ASSUME m + 0 <= Limit PROVE Two(m + 0) = Two(m) * Two(0) OBVIOUS
  <2>2. Two(m) \in Nat /\ m + 0 = m BY <2>1, TwoPositive
  <2>. QED BY <2>2, TwoSteps
<1>2. ASSUME NEW k \in Nat, k \in A PROVE k + 1 \in A
  <2>1. SUFFICES ASSUME m + (k + 1) <= Limit PROVE Two(m + (k + 1)) = Two(m) * Two(k + 1) OBVIOUS
  <2>2. m + k <= Limit /\ (m + k) + 1 <= Limit /\ k + 1 <= Limit /\ m \in 0..Limit /\ k \in 0..Limit
    BY <2>1, TwoSteps
  <2>3. Two(m + k) = Two(m) * Two(k) BY <1>2, <2>2
  <2>4. Two((m + k) + 1) = 2 * Two(m + k) /\ Two(k + 1) = 2 * Two(k) BY <2>2, TwoSteps
  <2>5. Two(m) \in Nat /\ Two(k) \in Nat BY <2>2, TwoPositive
  <2>6. 2 * (Two(m) * Two(k)) = Two(m) * (2 * Two(k)) BY <2>5
  <2>7. m + (k + 1) = (m + k) + 1 OBVIOUS
  <2>. QED BY <2>3, <2>4, <2>6, <2>7
<1> HIDE DEF A
<1>3. \A k \in 0..n : k \in A BY <1>1, <1>2, Induction
<1>. QED BY <1>3 DEF A

LEMMA TwoMonotone ==
    ASSUME NEW m \in Nat, NEW n \in Nat, m <= n, n <= Limit
    PROVE  Two(m) <= Two(n)
<1>1. n - m \in Nat /\ m + (n - m) = n /\ n - m \in 0..Limit /\ m \in 0..Limit BY TwoSteps
<1>2. Two(n) = Two(m) * Two(n - m) BY <1>1, TwoSum
<1>3. Two(m) \in Nat /\ Two(n - m) \in Nat \ {0} BY <1>1, TwoPositive
<1>. QED BY <1>2, <1>3

LEMMA Wraps == ASSUME NEW x \in Int PROVE Wrap(x) \in Nat /\ Wrap(x) < Two(WORD)
<1>1. Two(WORD) \in Nat \ {0}
  <2>1. WORD \in 0..Limit BY WordsAssumption DEF Limit
  <2>. QED BY <2>1, TwoPositive
<1>2. x % Two(WORD) \in Nat /\ x % Two(WORD) < Two(WORD) BY <1>1
<1>3. Wrap(x) = x % Two(WORD) BY DEF Wrap, Two
<1>. QED BY <1>2, <1>3

-----------------------------------------------------------------------------
(* fib and fib_tail.                                                       *)

\* The pair after n steps from a and b.
PairAfter(n, a, b) == LoopOf([kind |-> "fib"], << a, b >>, 1, n)

LEMMA PairStarts == \A a, b : PairAfter(0, a, b) = << a, b >>
BY LoopStarts DEF PairAfter

LEMMA PairStep ==
    ASSUME NEW n \in Nat, NEW a, NEW b
    PROVE  PairAfter(n + 1, a, b)
             = << PairAfter(n, a, b)[2], Wrap(PairAfter(n, a, b)[1] + PairAfter(n, a, b)[2]) >>
<1> DEFINE c == [kind |-> "fib"]
<1>1. StepOf(c, PairAfter(n, a, b), n + 1)
        = << PairAfter(n, a, b)[2], Wrap(PairAfter(n, a, b)[1] + PairAfter(n, a, b)[2]) >>
  BY DEF StepOf
<1> HIDE DEF c
<1>2. 1 \in Int /\ n + 1 \in Int /\ 1 <= n + 1 /\ (n + 1) - 1 = n OBVIOUS
<1>3. LoopOf(c, << a, b >>, 1, n + 1) = StepOf(c, LoopOf(c, << a, b >>, 1, n), n + 1)
  <2>1. LoopOf(c, << a, b >>, 1, n + 1) = StepOf(c, LoopOf(c, << a, b >>, 1, (n + 1) - 1), n + 1)
    BY <1>2, LoopContinues
  <2>. QED BY <1>2, <2>1
<1>. QED BY <1>1, <1>3 DEF PairAfter, c

\* Numbers from numbers, of which only the first two are the start's.
LEMMA PairNumbers ==
    ASSUME NEW a \in Nat, NEW b \in Nat
    PROVE  \A n \in Nat : PairAfter(n, a, b) \in Nat \X Nat
<1>1. SUFFICES ASSUME NEW n \in Nat PROVE PairAfter(n, a, b) \in Nat \X Nat OBVIOUS
<1> DEFINE A == {k \in Nat : PairAfter(k, a, b) \in Nat \X Nat}
<1>2. 0 \in A BY PairStarts
<1>3. ASSUME NEW k \in Nat, k \in A PROVE k + 1 \in A
  <2>1. PairAfter(k, a, b)[1] \in Nat /\ PairAfter(k, a, b)[2] \in Nat BY <1>3
  <2>2. Wrap(PairAfter(k, a, b)[1] + PairAfter(k, a, b)[2]) \in Nat BY <2>1, Wraps
  <2>. QED BY <2>1, <2>2, PairStep
<1> HIDE DEF A
<1>4. \A i \in 0..n : i \in A BY <1>2, <1>3, Induction
<1>. QED BY <1>4 DEF A

LEMMA ReferenceIsPair == ASSUME NEW n \in Nat PROVE fib_reference(n) = PairAfter(n, 0, 1)[1]
<1>1. For(LAMBDA p, i : << p[2], Wrap(p[1] + p[2]) >>, << 0, 1 >>, 1, n) = PairAfter(n, 0, 1)
  <2>1. n \in Int OBVIOUS
  <2>. QED BY <2>1, PairLoop, Zenon DEF PairAfter
<1>. QED BY <1>1, Zenon DEF fib_reference

\* The recursion of fib, and what satisfies it.
IsFib(f) == f = [k \in Nat |-> IF k < 2 THEN k ELSE Wrap(f[k - 1] + f[k - 2])]

LEMMA FirstsAreFib ==
    ASSUME NEW k \in Nat
    PROVE  PairAfter(k, 0, 1)[1] =
             IF k < 2 THEN k ELSE Wrap(PairAfter(k - 1, 0, 1)[1] + PairAfter(k - 2, 0, 1)[1])
<1>1. CASE k = 0 BY <1>1, PairStarts
<1>2. CASE k = 1
  <2>1. PairAfter(0 + 1, 0, 1)[1] = PairAfter(0, 0, 1)[2] BY PairStep
  <2>. QED BY <1>2, <2>1, PairStarts
<1>3. CASE k >= 2
  <2>1. PICK j \in Nat : k = (j + 1) + 1
    <3>1. k - 2 \in Nat /\ k = ((k - 2) + 1) + 1 BY <1>3
    <3>. QED BY <3>1
  <2>2. /\ PairAfter((j + 1) + 1, 0, 1)[1] = PairAfter(j + 1, 0, 1)[2]
        /\ PairAfter(j + 1, 0, 1)[1] = PairAfter(j, 0, 1)[2]
        /\ PairAfter(j + 1, 0, 1)[2] = Wrap(PairAfter(j, 0, 1)[1] + PairAfter(j, 0, 1)[2])
    <3>1. j + 1 \in Nat OBVIOUS
    <3>. QED BY <3>1, PairStep
  <2>3. k - 1 = j + 1 /\ k - 2 = j /\ ~(k < 2) BY <2>1
  <2>4. PairAfter(j, 0, 1)[1] \in Nat /\ PairAfter(j, 0, 1)[2] \in Nat
    <3>1. 0 \in Nat /\ 1 \in Nat OBVIOUS
    <3>2. PairAfter(j, 0, 1) \in Nat \X Nat BY <3>1, PairNumbers
    <3>. QED BY <3>2
  <2>5. PairAfter(j, 0, 1)[1] + PairAfter(j, 0, 1)[2]
          = PairAfter(j, 0, 1)[2] + PairAfter(j, 0, 1)[1]
    BY <2>4
  <2>. QED BY <2>1, <2>2, <2>3, <2>5
<1>. QED BY <1>1, <1>2, <1>3

LEMMA FibIsReference == ASSUME NEW n \in Nat PROVE fib(n) = fib_reference(n)
<1> DEFINE g == [k \in Nat |-> PairAfter(k, 0, 1)[1]]
           f == CHOOSE f : IsFib(f)
<1>1. IsFib(g)
  <2>1. \A k \in Nat : ~(k < 2) => k - 1 \in Nat /\ k - 2 \in Nat OBVIOUS
  <2>2. ASSUME NEW k \in Nat
        PROVE  PairAfter(k, 0, 1)[1] = IF k < 2 THEN k ELSE Wrap(g[k - 1] + g[k - 2])
    <3>1. CASE k < 2 BY <3>1, FirstsAreFib
    <3>2. CASE ~(k < 2)
      <4>1. g[k - 1] = PairAfter(k - 1, 0, 1)[1] /\ g[k - 2] = PairAfter(k - 2, 0, 1)[1]
        BY <2>1, <3>2
      <4> HIDE DEF g
      <4>. QED BY <3>2, <4>1, FirstsAreFib
    <3>. QED BY <3>1, <3>2
  <2>3. g = [k \in Nat |-> IF k < 2 THEN k ELSE Wrap(g[k - 1] + g[k - 2])] BY <2>2
  <2> HIDE DEF g
  <2>. QED BY <2>3 DEF IsFib
<1>2. IsFib(f) BY <1>1, Zenon
<1>3. fib(n) = f[n] BY Zenon DEF fib, IsFib
<1> HIDE DEF f, g
<1>4. \A k \in Nat : f[k] = IF k < 2 THEN k ELSE Wrap(f[k - 1] + f[k - 2]) BY <1>2 DEF IsFib
<1> DEFINE A == {k \in Nat : f[k] = PairAfter(k, 0, 1)[1] /\ f[k + 1] = PairAfter(k + 1, 0, 1)[1]}
<1>5. 0 \in A
  <2>1. f[0] = 0 /\ f[1] = 1 BY <1>4
  <2>2. PairAfter(0, 0, 1)[1] = 0 /\ PairAfter(1, 0, 1)[1] = 1
    <3>1. 0 \in Nat /\ 1 \in Nat /\ 0 < 2 /\ 1 < 2 OBVIOUS
    <3>. QED BY <3>1, FirstsAreFib
  <2>. QED BY <2>1, <2>2
<1>6. ASSUME NEW k \in Nat, k \in A PROVE k + 1 \in A
  <2>1. (k + 1) + 1 \in Nat /\ ~((k + 1) + 1 < 2) /\ (k + 1) + 1 - 1 = k + 1 /\ (k + 1) + 1 - 2 = k
    OBVIOUS
  <2>2. f[(k + 1) + 1] = Wrap(f[k + 1] + f[k]) BY <1>4, <2>1
  <2>3. PairAfter((k + 1) + 1, 0, 1)[1] = Wrap(PairAfter(k + 1, 0, 1)[1] + PairAfter(k, 0, 1)[1])
    BY <2>1, FirstsAreFib
  <2>. QED BY <1>6, <2>2, <2>3
<1> HIDE DEF A
<1>7. \A i \in 0..n : i \in A BY <1>5, <1>6, Induction
<1>8. f[n] = PairAfter(n, 0, 1)[1] BY <1>7 DEF A
<1>. QED BY <1>3, <1>8, ReferenceIsPair

\* A step taken first is a step taken last.
LEMMA PairShift ==
    ASSUME NEW a, NEW b, NEW n \in Nat
    PROVE  PairAfter(n + 1, a, b) = PairAfter(n, b, Wrap(a + b))
<1> DEFINE A == {k \in Nat : PairAfter(k + 1, a, b) = PairAfter(k, b, Wrap(a + b))}
<1>1. 0 \in A
  <2>1. 0 \in Nat OBVIOUS
  <2>2. PairAfter(0 + 1, a, b)
          = << PairAfter(0, a, b)[2], Wrap(PairAfter(0, a, b)[1] + PairAfter(0, a, b)[2]) >>
    BY <2>1, PairStep
  <2>. QED BY <2>2, PairStarts
<1>2. ASSUME NEW k \in Nat, k \in A PROVE k + 1 \in A
  <2>1. k + 1 \in Nat OBVIOUS
  <2> DEFINE p == PairAfter(k + 1, a, b)
             q == PairAfter(k, b, Wrap(a + b))
  <2>2. PairAfter((k + 1) + 1, a, b) = << p[2], Wrap(p[1] + p[2]) >> BY <2>1, PairStep
  <2>3. PairAfter(k + 1, b, Wrap(a + b)) = << q[2], Wrap(q[1] + q[2]) >> BY PairStep
  <2>4. p = q BY <1>2
  <2>. QED BY <2>1, <2>2, <2>3, <2>4
<1> HIDE DEF A
<1>3. \A i \in 0..n : i \in A BY <1>1, <1>2, Induction
<1>. QED BY <1>3 DEF A

\* The recursion of fib_tail.
States == Nat \X Nat \X Nat
TailStep(f, s) == IF s[1] = 0 THEN s[2] ELSE f[<< s[1] - 1, s[3], Wrap(s[2] + s[3]) >>]
IsTail(f) == f = [s \in States |-> TailStep(f, s)]

LEMMA TailIsReference == ASSUME NEW n \in Nat PROVE fib_tail(n) = fib_reference(n)
<1> DEFINE g == [s \in States |-> PairAfter(s[1], s[2], s[3])[1]]
           f == CHOOSE f : IsTail(f)
<1>1. IsTail(g)
  <2>1. ASSUME NEW s \in States PROVE PairAfter(s[1], s[2], s[3])[1] = TailStep(g, s)
    <3>0. s[1] \in Nat /\ s[2] \in Nat /\ s[3] \in Nat BY DEF States
    <3>1. CASE s[1] = 0 BY <3>1, PairStarts DEF TailStep
    <3>2. CASE s[1] # 0
      <4> DEFINE t == << s[1] - 1, s[3], Wrap(s[2] + s[3]) >>
      <4>1. s[1] - 1 \in Nat /\ (s[1] - 1) + 1 = s[1] /\ s[2] + s[3] \in Int BY <3>0, <3>2
      <4>3. t \in States /\ t[1] = s[1] - 1 /\ t[2] = s[3] /\ t[3] = Wrap(s[2] + s[3])
        BY <3>0, <4>1, Wraps DEF States
      <4>4. g[t] = PairAfter(s[1] - 1, s[3], Wrap(s[2] + s[3]))[1] BY <4>3
      <4>5. PairAfter((s[1] - 1) + 1, s[2], s[3]) = PairAfter(s[1] - 1, s[3], Wrap(s[2] + s[3]))
        BY <4>1, PairShift
      <4>6. TailStep(g, s) = g[t] BY <3>2 DEF TailStep
      <4> HIDE DEF g, t
      <4>. QED BY <4>1, <4>4, <4>5, <4>6
    <3>. QED BY <3>1, <3>2
  <2>2. g = [s \in States |-> TailStep(g, s)] BY <2>1
  <2> HIDE DEF g
  <2>. QED BY <2>2 DEF IsTail
<1>2. IsTail(f) BY <1>1, Zenon
<1>3. fib_tail(n) = f[<< n, 0, 1 >>] BY Zenon DEF fib_tail, IsTail, TailStep, States
<1> HIDE DEF f, g
<1>4. \A s \in States : f[s] = TailStep(f, s) BY <1>2 DEF IsTail
<1> DEFINE A == {k \in Nat : \A a \in Nat, b \in Nat : f[<< k, a, b >>] = PairAfter(k, a, b)[1]}
<1>5. 0 \in A
  <2>1. ASSUME NEW a \in Nat, NEW b \in Nat PROVE f[<< 0, a, b >>] = a
    <3>1. << 0, a, b >> \in States BY DEF States
    <3>. QED BY <1>4, <3>1 DEF TailStep
  <2>. QED BY <2>1, PairStarts
<1>6. ASSUME NEW k \in Nat, k \in A PROVE k + 1 \in A
  <2>1. ASSUME NEW a \in Nat, NEW b \in Nat PROVE f[<< k + 1, a, b >>] = PairAfter(k + 1, a, b)[1]
    <3>1. a + b \in Int /\ << k + 1, a, b >> \in States /\ k + 1 # 0 /\ (k + 1) - 1 = k
      BY DEF States
    <3>2. Wrap(a + b) \in Nat BY <3>1, Wraps
    <3>3. f[<< k + 1, a, b >>] = f[<< k, b, Wrap(a + b) >>] BY <1>4, <3>1 DEF TailStep
    <3>4. f[<< k, b, Wrap(a + b) >>] = PairAfter(k, b, Wrap(a + b))[1] BY <1>6, <3>2
    <3>. QED BY <3>3, <3>4, PairShift
  <2>. QED BY <2>1
<1> HIDE DEF A
<1>7. \A i \in 0..n : i \in A BY <1>5, <1>6, Induction
<1>8. \A a \in Nat, b \in Nat : f[<< n, a, b >>] = PairAfter(n, a, b)[1] BY <1>7 DEF A
<1>9. f[<< n, 0, 1 >>] = PairAfter(n, 0, 1)[1] BY <1>8
<1>. QED BY <1>3, <1>9, ReferenceIsPair

-----------------------------------------------------------------------------
(* sieve: only the flags 0..n count, and those are reset.                  *)

LEMMA CrossOutLocal ==
    ASSUME NEW n \in Nat, NEW p \in Nat, p <= n, NEW f, NEW g,
           0..n \subseteq DOMAIN f, 0..n \subseteq DOMAIN g, \A m \in 0..n : f[m] = g[m]
    PROVE  /\ DOMAIN CrossOut(f, p, n) = DOMAIN f /\ DOMAIN CrossOut(g, p, n) = DOMAIN g
           /\ \A m \in 0..n : CrossOut(f, p, n)[m] = CrossOut(g, p, n)[m]
<1>1. f[p] = g[p] OBVIOUS
<1>2. CASE p * p <= n /\ f[p] = 0 BY <1>1, <1>2 DEF CrossOut
<1>3. CASE ~(p * p <= n /\ f[p] = 0) BY <1>1, <1>3 DEF CrossOut
<1>. QED BY <1>2, <1>3

LEMMA SieveLocal ==
    ASSUME NEW n \in Nat, NEW f, NEW g,
           0..n \subseteq DOMAIN f, 0..n \subseteq DOMAIN g, \A m \in 0..n : f[m] = g[m]
    PROVE  LET a == LoopOf([kind |-> "sieve", n |-> n], f, 2, n)
               b == LoopOf([kind |-> "sieve", n |-> n], g, 2, n)
           IN DOMAIN a = DOMAIN f /\ \A m \in 0..n : a[m] = b[m]
<1> DEFINE c == [kind |-> "sieve", n |-> n]
<1>1. \A acc, k : StepOf(c, acc, k) = CrossOut(acc, k, n) BY DEF StepOf
<1> HIDE DEF c
<1> DEFINE a(i) == LoopOf(c, f, 2, 1 + i)
           b(i) == LoopOf(c, g, 2, 1 + i)
           A == {i \in Nat : 1 + i <= n =>
                   /\ DOMAIN a(i) = DOMAIN f /\ DOMAIN b(i) = DOMAIN g
                   /\ \A m \in 0..n : a(i)[m] = b(i)[m]}
<1>2. a(0) = f /\ b(0) = g
  <2>1. 2 \in Int /\ 1 + 0 \in Int /\ 1 + 0 < 2 OBVIOUS
  <2>. QED BY <2>1, LoopStarts
<1>3. \A i \in Nat : a(i + 1) = CrossOut(a(i), 1 + (i + 1), n)
        /\ b(i + 1) = CrossOut(b(i), 1 + (i + 1), n)
  <2>1. ASSUME NEW i \in Nat
        PROVE  a(i + 1) = CrossOut(a(i), 1 + (i + 1), n)
                 /\ b(i + 1) = CrossOut(b(i), 1 + (i + 1), n)
    <3>1. 2 \in Int /\ 1 + (i + 1) \in Int /\ 2 <= 1 + (i + 1) /\ 1 + (i + 1) - 1 = 1 + i OBVIOUS
    <3>2. LoopOf(c, f, 2, 1 + (i + 1)) = StepOf(c, LoopOf(c, f, 2, 1 + (i + 1) - 1), 1 + (i + 1))
      BY <3>1, LoopContinues
    <3>3. LoopOf(c, g, 2, 1 + (i + 1)) = StepOf(c, LoopOf(c, g, 2, 1 + (i + 1) - 1), 1 + (i + 1))
      BY <3>1, LoopContinues
    <3>. QED BY <1>1, <3>1, <3>2, <3>3
  <2>. QED BY <2>1
<1> HIDE DEF a, b
<1>4. 0 \in A BY <1>2
<1>5. ASSUME NEW i \in Nat, i \in A PROVE i + 1 \in A
  <2>1. SUFFICES ASSUME 1 + (i + 1) <= n
                 PROVE  /\ DOMAIN a(i + 1) = DOMAIN f /\ DOMAIN b(i + 1) = DOMAIN g
                        /\ \A m \in 0..n : a(i + 1)[m] = b(i + 1)[m]
    OBVIOUS
  <2>2. /\ DOMAIN a(i) = DOMAIN f /\ DOMAIN b(i) = DOMAIN g
        /\ \A m \in 0..n : a(i)[m] = b(i)[m]
    BY <1>5, <2>1
  <2>3. 1 + (i + 1) \in Nat OBVIOUS
  <2> HIDE DEF A
  <2>4. /\ DOMAIN CrossOut(a(i), 1 + (i + 1), n) = DOMAIN f
        /\ DOMAIN CrossOut(b(i), 1 + (i + 1), n) = DOMAIN g
        /\ \A m \in 0..n : CrossOut(a(i), 1 + (i + 1), n)[m] = CrossOut(b(i), 1 + (i + 1), n)[m]
    BY <2>1, <2>2, <2>3, CrossOutLocal
  <2>. QED BY <1>3, <2>4
<1>6. CASE n < 2
  <2>1. LoopOf(c, f, 2, n) = f /\ LoopOf(c, g, 2, n) = g
    <3>1. 2 \in Int /\ n \in Int OBVIOUS
    <3>. QED BY <1>6, <3>1, LoopStarts
  <2>. QED BY <2>1 DEF c
<1>7. CASE n >= 2
  <2>1. n - 1 \in Nat /\ 1 + (n - 1) = n /\ n - 1 \in 0..(n - 1) BY <1>7
  <2> HIDE DEF A
  <2>2. \A i \in 0..(n - 1) : i \in A BY <1>4, <1>5, <2>1, Induction
  <2>3. n - 1 \in A BY <2>1, <2>2
  <2>4. DOMAIN a(n - 1) = DOMAIN f /\ \A m \in 0..n : a(n - 1)[m] = b(n - 1)[m] BY <2>1, <2>3 DEF A
  <2>. QED BY <2>1, <2>4 DEF a, b, c
<1>. QED BY <1>6, <1>7

LEMMA SieveIsReference ==
    ASSUME NEW n \in Nat, NEW SIEVE, DOMAIN SIEVE = 0..SIEVE_MAX
    PROVE  /\ n <= SIEVE_MAX => sieve(SIEVE, n).result = sieve_reference(n)
           /\ "SIEVE" \in DOMAIN sieve(SIEVE, n) /\ DOMAIN sieve(SIEVE, n).SIEVE = 0..SIEVE_MAX
<1>0. SIEVE_MAX \in Nat BY KernelsAssumption
<1>1. CASE n > SIEVE_MAX BY <1>0, <1>1 DEF sieve
<1>2. CASE n <= SIEVE_MAX
  <2> DEFINE reset == [m \in DOMAIN SIEVE |-> IF m <= n THEN 0 ELSE SIEVE[m]]
             a == LoopOf([kind |-> "sieve", n |-> n], reset, 2, n)
             b == LoopOf([kind |-> "sieve", n |-> n], Zeroes(n + 1), 2, n)
  <2>1. /\ 0..n \subseteq DOMAIN reset /\ 0..n \subseteq DOMAIN Zeroes(n + 1)
        /\ \A m \in 0..n : reset[m] = Zeroes(n + 1)[m]
    BY <1>0, <1>2 DEF Zeroes
  <2>2. DOMAIN reset = 0..SIEVE_MAX OBVIOUS
  <2>3. /\ For(LAMBDA f, p : CrossOut(f, p, n), reset, 2, n) = a
        /\ For(LAMBDA f, p : CrossOut(f, p, n), Zeroes(n + 1), 2, n) = b
    <3>1. n \in Int OBVIOUS
    <3>. QED BY <3>1, SieveLoop, Zenon
  <2>4. sieve(SIEVE, n) = [result |-> Cardinality({m \in 2..n : a[m] = 0}), SIEVE |-> a]
    <3>1. ~(n > SIEVE_MAX) BY <1>0, <1>2
    <3>. QED BY <2>3, <3>1, Zenon DEF sieve
  <2>5. sieve_reference(n) = IF n < 2 THEN 0 ELSE Cardinality({m \in 2..n : b[m] = 0})
    BY <2>3, Zenon DEF sieve_reference
  <2> HIDE DEF reset
  <2>6. DOMAIN a = 0..SIEVE_MAX /\ \A m \in 0..n : a[m] = b[m] BY <2>1, <2>2, SieveLocal
  <2> HIDE DEF a, b
  <2>7. {m \in 2..n : a[m] = 0} = {m \in 2..n : b[m] = 0} BY <2>6
  <2>8. n < 2 => {m \in 2..n : b[m] = 0} = {} OBVIOUS
  <2>9. Cardinality({}) = 0 BY FS_EmptySet
  <2>10. Cardinality({m \in 2..n : a[m] = 0}) = sieve_reference(n) BY <2>5, <2>7, <2>8, <2>9
  <2>. QED BY <2>4, <2>6, <2>10
<1>. QED BY <1>0, <1>1, <1>2

-----------------------------------------------------------------------------
(* convolution and bulk_memory: what no call writes stays zero.            *)

Pixel(i) == i % IMAGE \in 1..(IMAGE - 2) /\ i \div IMAGE \in 1..(IMAGE - 2)
Places == 0..(IMAGE * IMAGE - 1)
CleanImage(d) == d = [i \in Places |-> d[i]] /\ \A i \in Places : ~Pixel(i) => d[i] = 0

LEMMA BlurIsClean ==
    ASSUME NEW in, NEW out, CleanImage(out)
    PROVE  Blurred(in, out) = Blurred(in, Zeroes(IMAGE * IMAGE)) /\ CleanImage(Blurred(in, out))
<1>1. DOMAIN out = Places /\ DOMAIN Zeroes(IMAGE * IMAGE) = Places BY DEF CleanImage, Zeroes, Places
<1> DEFINE V(d, i) == IF Pixel(i) THEN BoxMean(in, i % IMAGE, i \div IMAGE) ELSE d[i]
<1>2. \A d : DOMAIN d = Places => Blurred(in, d) = [i \in Places |-> V(d, i)]
  BY DEF Blurred, Pixel
<1>3. \A i \in Places : V(out, i) = V(Zeroes(IMAGE * IMAGE), i)
  <2>1. \A i \in Places : Zeroes(IMAGE * IMAGE)[i] = 0 BY DEF Zeroes, Places
  <2>. QED BY <2>1 DEF CleanImage
<1>4. Blurred(in, out) = Blurred(in, Zeroes(IMAGE * IMAGE))
  <2>1. Blurred(in, out) = [i \in Places |-> V(out, i)] BY <1>1, <1>2
  <2>2. Blurred(in, Zeroes(IMAGE * IMAGE)) = [i \in Places |-> V(Zeroes(IMAGE * IMAGE), i)]
    BY <1>1, <1>2
  <2> HIDE DEF V
  <2>. QED BY <1>3, <2>1, <2>2
<1>5. CleanImage(Blurred(in, out))
  <2>1. Blurred(in, out) = [i \in Places |-> V(out, i)] BY <1>1, <1>2
  <2>2. \A i \in Places : ~Pixel(i) => V(out, i) = 0 BY DEF CleanImage
  <2> HIDE DEF V
  <2>. QED BY <2>1, <2>2 DEF CleanImage
<1>. QED BY <1>4, <1>5

Buffer == 0..(BULK_N - 1)

\* Round r writes byte b: in a chunk, or in the stripe.
InChunk(b, r) == b % (2 * SizeOf(r)) < SizeOf(r)
  /\ (b - (b % (2 * SizeOf(r)))) + SizeOf(r) <= BULK_N
InStripe(b, r) == b >= And(r * STRIDE, BULK_N - SizeOf(r))
  /\ b < And(r * STRIDE, BULK_N - SizeOf(r)) + SizeOf(r)
Touched(b, r) == InChunk(b, r) \/ InStripe(b, r)
CleanBytes(d) ==
  d = [b \in Buffer |-> d[b]]
    /\ \A b \in Buffer : (\A r \in 0..(BULK_ROUNDS - 1) : ~Touched(b, r)) => d[b] = 0

LEMMA RoundLocal ==
    ASSUME NEW src, NEW r, NEW d, NEW e, DOMAIN d = Buffer, DOMAIN e = Buffer
    PROVE  LET Round1(x) == FilledStripe(CopiedChunks(src, x, r), r)
           IN /\ Round1(d) = [b \in Buffer |-> Round1(d)[b]]
              /\ \A b \in Buffer : IF Touched(b, r) THEN Round1(d)[b] = Round1(e)[b]
                   ELSE Round1(d)[b] = d[b]
<1> DEFINE Copy(b) ==
      src[And((b - (b % (2 * SizeOf(r)))) + r * SKEW, BULK_N - SizeOf(r)) + (b % (2 * SizeOf(r)))]
           Value(b) == IF InStripe(b, r) THEN LowBits(r, BYTE) ELSE Copy(b)
           R(x) == FilledStripe(CopiedChunks(src, x, r), r)
<1>1. ASSUME NEW x, DOMAIN x = Buffer
      PROVE  R(x) = [b \in Buffer |-> IF Touched(b, r) THEN Value(b) ELSE x[b]]
  <2>1. CopiedChunks(src, x, r) = [b \in Buffer |-> IF InChunk(b, r) THEN Copy(b) ELSE x[b]]
    BY <1>1 DEF CopiedChunks, InChunk
  <2> HIDE DEF Copy
  <2>2. R(x) = [b \in Buffer |-> IF InStripe(b, r) THEN LowBits(r, BYTE)
                                ELSE IF InChunk(b, r) THEN Copy(b) ELSE x[b]]
    BY <2>1 DEF FilledStripe, InStripe
  <2>. QED BY <2>2 DEF Touched
<1> HIDE DEF R, Value
<1>2. /\ R(d) = [b \in Buffer |-> IF Touched(b, r) THEN Value(b) ELSE d[b]]
      /\ R(e) = [b \in Buffer |-> IF Touched(b, r) THEN Value(b) ELSE e[b]]
  BY <1>1
<1>3. /\ R(d) = [b \in Buffer |-> R(d)[b]]
      /\ \A b \in Buffer : IF Touched(b, r) THEN R(d)[b] = R(e)[b] ELSE R(d)[b] = d[b]
  BY <1>2
<1>. QED BY <1>3 DEF R

LEMMA BulkIsClean ==
    ASSUME NEW src, NEW dst, CleanBytes(dst)
    PROVE  BulkRounds(src, dst) = BulkRounds(src, Zeroes(BULK_N))
             /\ CleanBytes(BulkRounds(src, dst))
<1> DEFINE c == [kind |-> "bulk", src |-> src]
           zero == Zeroes(BULK_N)
           R(d, k) == FilledStripe(CopiedChunks(src, d, k), k)
<1>1. \A acc, k : StepOf(c, acc, k) = R(acc, k) BY DEF StepOf
<1>2. BulkRounds(src, dst) = LoopOf(c, dst, 0, BULK_ROUNDS - 1)
        /\ BulkRounds(src, zero) = LoopOf(c, zero, 0, BULK_ROUNDS - 1)
  <2>1. BULK_ROUNDS - 1 \in Int BY KernelsAssumption
  <2>. QED BY <2>1, BulkLoop, Zenon DEF BulkRounds
<1> HIDE DEF c
<1>3. zero = [b \in Buffer |-> zero[b]] /\ \A b \in Buffer : zero[b] = 0 BY DEF Zeroes, Buffer
<1> HIDE DEF zero
<1> DEFINE a(i) == LoopOf(c, dst, 0, i - 1)
           z(i) == LoopOf(c, zero, 0, i - 1)
           Yet(b, i) == \E r \in 0..(i - 1) : Touched(b, r)
           Same(i) == /\ a(i) = [b \in Buffer |-> a(i)[b]] /\ z(i) = [b \in Buffer |-> z(i)[b]]
                      /\ \A b \in Buffer : IF Yet(b, i) THEN a(i)[b] = z(i)[b]
                                          ELSE a(i)[b] = dst[b] /\ z(i)[b] = 0
           A == {i \in Nat : Same(i)}
<1>4. a(0) = dst /\ z(0) = zero
  <2>1. 0 \in Int /\ 0 - 1 \in Int /\ 0 - 1 < 0 OBVIOUS
  <2>. QED BY <2>1, LoopStarts
<1>5. \A i \in Nat : a(i + 1) = R(a(i), i) /\ z(i + 1) = R(z(i), i)
  <2>1. ASSUME NEW i \in Nat PROVE a(i + 1) = R(a(i), i) /\ z(i + 1) = R(z(i), i)
    <3>1. 0 \in Int /\ i \in Int /\ 0 <= i /\ (i + 1) - 1 = i OBVIOUS
    <3>2. LoopOf(c, dst, 0, i) = StepOf(c, LoopOf(c, dst, 0, i - 1), i) BY <3>1, LoopContinues
    <3>3. LoopOf(c, zero, 0, i) = StepOf(c, LoopOf(c, zero, 0, i - 1), i) BY <3>1, LoopContinues
    <3>4. a(i + 1) = StepOf(c, a(i), i) /\ z(i + 1) = StepOf(c, z(i), i) BY <3>1, <3>2, <3>3
    <3> HIDE DEF a, z
    <3>. QED BY <1>1, <3>4
  <2>. QED BY <2>1
<1> HIDE DEF a, z
<1>6. Same(0)
  <2>1. \A b : ~Yet(b, 0) OBVIOUS
  <2> HIDE DEF Yet
  <2>. QED BY <1>3, <1>4, <2>1 DEF CleanBytes
<1>7. ASSUME NEW i \in Nat, Same(i) PROVE Same(i + 1)
  <2>1. \A b : Yet(b, i + 1) <=> Yet(b, i) \/ Touched(b, i)
    <3>1. \A r : r \in 0..((i + 1) - 1) <=> r \in 0..(i - 1) \/ r = i OBVIOUS
    <3>. QED BY <3>1
  <2>2. DOMAIN a(i) = Buffer /\ DOMAIN z(i) = Buffer BY <1>7
  <2>3. /\ R(a(i), i) = [b \in Buffer |-> R(a(i), i)[b]]
        /\ \A b \in Buffer : IF Touched(b, i) THEN R(a(i), i)[b] = R(z(i), i)[b]
             ELSE R(a(i), i)[b] = a(i)[b]
    BY <2>2, RoundLocal
  <2>4. /\ R(z(i), i) = [b \in Buffer |-> R(z(i), i)[b]]
        /\ \A b \in Buffer : IF Touched(b, i) THEN R(z(i), i)[b] = R(a(i), i)[b]
             ELSE R(z(i), i)[b] = z(i)[b]
    BY <2>2, RoundLocal
  <2>5. a(i + 1) = R(a(i), i) /\ z(i + 1) = R(z(i), i) BY <1>5
  <2> HIDE DEF R, Yet
  <2>. QED BY <1>7, <2>1, <2>3, <2>4, <2>5
<1>8. Same(BULK_ROUNDS)
  <2> HIDE DEF Same
  <2>1. 0 \in A BY <1>6
  <2>2. \A i \in 0..(BULK_ROUNDS - 1) : i \in A => i + 1 \in A BY <1>7
  <2> HIDE DEF A
  <2>3. BULK_ROUNDS \in Nat /\ BULK_ROUNDS \in 0..BULK_ROUNDS BY KernelsAssumption
  <2>4. \A i \in 0..BULK_ROUNDS : i \in A BY <2>1, <2>2, <2>3, Induction
  <2>. QED BY <2>3, <2>4 DEF A
<1>9. a(BULK_ROUNDS) = z(BULK_ROUNDS) /\ CleanBytes(a(BULK_ROUNDS))
  <2>1. \A b \in Buffer : ~Yet(b, BULK_ROUNDS) => dst[b] = 0 BY DEF CleanBytes
  <2>2. \A b \in Buffer : a(BULK_ROUNDS)[b] = z(BULK_ROUNDS)[b] BY <1>8, <2>1
  <2>3. \A b \in Buffer : ~Yet(b, BULK_ROUNDS) => a(BULK_ROUNDS)[b] = 0 BY <1>8, <2>1
  <2>4. /\ a(BULK_ROUNDS) = [b \in Buffer |-> a(BULK_ROUNDS)[b]]
        /\ z(BULK_ROUNDS) = [b \in Buffer |-> z(BULK_ROUNDS)[b]]
    BY <1>8
  <2>5. a(BULK_ROUNDS) = z(BULK_ROUNDS) BY <2>2, <2>4
  <2>. QED BY <2>3, <2>4, <2>5 DEF CleanBytes
<1>. QED BY <1>2, <1>9 DEF a, z, zero

-----------------------------------------------------------------------------
(* The matrix products: a lane is a column.                                *)

LEMMA LaneIsRow ==
    ASSUME NEW A, NEW B, NEW f, NEW i, NEW j \in Int, NEW l \in Lanes, NEW n \in Nat
    PROVE  LoopOf([kind |-> "lanes", fused |-> f, a |-> A, b |-> B, i |-> i, j |-> j],
             [m \in Lanes |-> 0], 0, n - 1)[l]
             = LoopOf([kind |-> "row", fused |-> f, a |-> A, b |-> B, i |-> i, j |-> j + l], 0,
               0, n - 1)
<1> DEFINE c == [kind |-> "lanes", fused |-> f, a |-> A, b |-> B, i |-> i, j |-> j]
           r == [kind |-> "row", fused |-> f, a |-> A, b |-> B, i |-> i, j |-> j + l]
           zero == [m \in Lanes |-> 0]
           Madd(x, y, z) == IF f THEN MulAdd(x, y, z) ELSE MulThenAdd(x, y, z)
<1>1. \A acc, k : StepOf(c, acc, k)[l] = Madd(A[i * MAT + k], B[k * MAT + j + l], acc[l])
  BY DEF StepOf, f32x4_relaxed_madd
<1>2. \A acc, k : StepOf(r, acc, k) = Madd(A[i * MAT + k], B[k * MAT + (j + l)], acc)
  BY DEF StepOf, f32x4_relaxed_madd
<1>3. \A k \in Int : k * MAT + j + l = k * MAT + (j + l) BY MatricesAssumption DEF Lanes
<1>4. zero[l] = 0 OBVIOUS
<1> HIDE DEF c, r, zero, Madd
<1> DEFINE S == {k \in Nat : LoopOf(c, zero, 0, k - 1)[l] = LoopOf(r, 0, 0, k - 1)}
<1>5. 0 \in S
  <2>1. 0 \in Int /\ 0 - 1 \in Int /\ 0 - 1 < 0 OBVIOUS
  <2>2. LoopOf(c, zero, 0, 0 - 1) = zero /\ LoopOf(r, 0, 0, 0 - 1) = 0 BY <2>1, LoopStarts
  <2>. QED BY <1>4, <2>2
<1>6. ASSUME NEW k \in Nat, k \in S PROVE k + 1 \in S
  <2>1. 0 \in Int /\ k \in Int /\ 0 <= k /\ (k + 1) - 1 = k OBVIOUS
  <2>2. LoopOf(c, zero, 0, k) = StepOf(c, LoopOf(c, zero, 0, k - 1), k) BY <2>1, LoopContinues
  <2>3. LoopOf(r, 0, 0, k) = StepOf(r, LoopOf(r, 0, 0, k - 1), k) BY <2>1, LoopContinues
  <2>4. LoopOf(c, zero, 0, k - 1)[l] = LoopOf(r, 0, 0, k - 1) BY <1>6
  <2>5. LoopOf(c, zero, 0, k)[l] = LoopOf(r, 0, 0, k) BY <1>1, <1>2, <1>3, <2>1, <2>2, <2>3, <2>4
  <2>. QED BY <2>1, <2>5
<1> HIDE DEF S
<1>7. \A k \in 0..n : k \in S BY <1>5, <1>6, Induction
<1>8. LoopOf(c, zero, 0, n - 1)[l] = LoopOf(r, 0, 0, n - 1) BY <1>7 DEF S
<1>. QED BY <1>8 DEF c, r, zero

LEMMA LaneOfCell ==
    ASSUME NEW c \in Cells(MAT)
    PROVE  /\ c % MAT \in Int /\ (c % MAT) % 4 \in Lanes /\ (c % MAT) - ((c % MAT) % 4) \in Int
           /\ ((c % MAT) - ((c % MAT) % 4)) + ((c % MAT) % 4) = c % MAT
<1>1. c \in Int /\ MAT \in Nat \ {0} BY MatricesAssumption DEF Cells
<1> DEFINE d == c % MAT
<1>2. d \in Int BY <1>1
<1> HIDE DEF d
<1>3. d % 4 \in Lanes /\ d - (d % 4) \in Int /\ (d - (d % 4)) + (d % 4) = d BY <1>2 DEF Lanes
<1>. QED BY <1>2, <1>3 DEF d

\* matmul_fma's product as the runtime m rounds.
RelaxedProduct(m, A, B) == Product(A, B, LAMBDA a, b, acc : f32x4_relaxed_madd(m, a, b, acc))

LEMMA ProductsAgree ==
    ASSUME NEW A, NEW B, NEW m
    PROVE  /\ Product(A, B, MulThenAdd) = ProductByRows(A, B, MulThenAdd)
           /\ m.fused = TRUE => RelaxedProduct(m, A, B)
                           = ProductByRows(A, B, MulAdd)
<1> DEFINE Lane(c) == (c % MAT) % 4
           Left(c) == (c % MAT) - Lane(c)
           L(f, c) == LoopOf([kind |-> "lanes", fused |-> f, a |-> A, b |-> B, i |-> c \div MAT,
             j |-> Left(c)],
                             [k \in Lanes |-> 0], 0, MAT - 1)
           R(f, c) == LoopOf([kind |-> "row", fused |-> f, a |-> A, b |-> B, i |-> c \div MAT,
             j |-> c % MAT],
                             0, 0, MAT - 1)
<1>1. \A f : \A c \in Cells(MAT) : L(f, c)[Lane(c)] = R(f, c)
  <2>1. ASSUME NEW f, NEW c \in Cells(MAT) PROVE L(f, c)[Lane(c)] = R(f, c)
    <3>1. Lane(c) \in Lanes /\ Left(c) \in Int /\ Left(c) + Lane(c) = c % MAT BY LaneOfCell
    <3>2. MAT \in Nat BY MatricesAssumption
    <3> HIDE DEF Lane, Left
    <3>3. L(f, c)[Lane(c)]
            = LoopOf([kind |-> "row", fused |-> f, a |-> A, b |-> B, i |-> c \div MAT,
              j |-> Left(c) + Lane(c)],
                     0, 0, MAT - 1)
      BY <3>1, <3>2, LaneIsRow
    <3>. QED BY <3>1, <3>3
  <2>. QED BY <2>1
<1>2. MAT - 1 \in Int BY MatricesAssumption
<1>3. Product(A, B, MulThenAdd) = [c \in Cells(MAT) |-> L(FALSE, c)[Lane(c)]]
  <2>1. Product(A, B, MulThenAdd)
          = [c \in Cells(MAT) |-> SplitLanes(A, B, c \div MAT, Left(c))[Lane(c)]]
            BY Zenon DEF Product, SplitLanes
  <2>2. \A c \in Cells(MAT) :
          SplitLanes(A, B, c \div MAT, Left(c))[Lane(c)] = L(FALSE, c)[Lane(c)]
            BY <1>2, SplitLanesLoop
  <2> HIDE DEF L, R, Lane, Left
  <2>. QED BY <2>1, <2>2
<1>4. RelaxedProduct(m, A, B) = [c \in Cells(MAT) |-> L(m.fused, c)[Lane(c)]]
  <2>1. RelaxedProduct(m, A, B)
          = [c \in Cells(MAT) |-> RelaxedLanes(m, A, B, c \div MAT, Left(c))[Lane(c)]]
            BY Zenon DEF RelaxedProduct, Product, RelaxedLanes
  <2>2. \A c \in Cells(MAT) :
          RelaxedLanes(m, A, B, c \div MAT, Left(c))[Lane(c)] = L(m.fused, c)[Lane(c)]
            BY <1>2, RelaxedLanesLoop
  <2> HIDE DEF L, R, Lane, Left
  <2>. QED BY <2>1, <2>2
<1>5. ProductByRows(A, B, MulThenAdd) = [c \in Cells(MAT) |-> R(FALSE, c)]
  <2>1. ProductByRows(A, B, MulThenAdd) = [c \in Cells(MAT) |-> Row(A, B, c \div MAT, c % MAT)]
    BY Zenon DEF ProductByRows, Row
  <2>2. \A c \in Cells(MAT) : Row(A, B, c \div MAT, c % MAT) = R(FALSE, c) BY <1>2, RowLoop
  <2> HIDE DEF L, R, Lane, Left
  <2>. QED BY <2>1, <2>2
<1>6. ProductByRows(A, B, MulAdd) = [c \in Cells(MAT) |-> R(TRUE, c)]
  <2>1. ProductByRows(A, B, MulAdd) = [c \in Cells(MAT) |-> FusedRow(A, B, c \div MAT, c % MAT)]
    BY Zenon DEF ProductByRows, FusedRow
  <2>2. \A c \in Cells(MAT) : FusedRow(A, B, c \div MAT, c % MAT) = R(TRUE, c) BY <1>2, FusedRowLoop
  <2> HIDE DEF L, R, Lane, Left
  <2>. QED BY <2>1, <2>2
<1>7. \A f : [c \in Cells(MAT) |-> L(f, c)[Lane(c)]] = [c \in Cells(MAT) |-> R(f, c)]
  <2> HIDE DEF L, R, Lane
  <2>. QED BY <1>1
<1> HIDE DEF L, R, Lane
<1>8. /\ [c \in Cells(MAT) |-> L(FALSE, c)[Lane(c)]] = [c \in Cells(MAT) |-> R(FALSE, c)]
      /\ m.fused = TRUE
           => [c \in Cells(MAT) |-> L(m.fused, c)[Lane(c)]] = [c \in Cells(MAT) |-> R(TRUE, c)]
  BY <1>7
<1>. QED BY <1>3, <1>4, <1>5, <1>6, <1>8, Zenon

-----------------------------------------------------------------------------
(* The instance.                                                           *)

\* Run and Expected, an export at a time.
LEMMA RunOf ==
    ASSUME NEW m, NEW i, NEW x
    PROVE  /\ Run("fib", m, i, x) = [result |-> fib(x)]
           /\ Run("fib_tail", m, i, x) = [result |-> fib_tail(x)]
           /\ Run("factorial", m, i, x) = [result |-> factorial(x)]
           /\ Run("sieve", m, i, x) = sieve(m.SIEVE, x)
           /\ Run("crc32", m, i, x) = crc32(m.INPUT, x)
           /\ Run("convolve", m, i, x) = convolve(m.IN_BUF, m.OUT_BUF, x)
           /\ Run("bulk_memory", m, i, x) = bulk_memory(m.SRC, m.DST, x)
           /\ Run("call_indirect", m, i, x) = [result |-> call_indirect(x)]
           /\ Run("audio_dsp", m, i, x) = audio_dsp(m.SAMPLE, m.VOICES_STATE, m.LPF_STATE, x)
           /\ Run("matmul", m, i, x) = matmul(x)
           /\ Run("matmul_fma", m, i, x) = matmul_fma(i, x)
           /\ Run("relaxed_dot", m, i, x) = relaxed_dot(i, m.A, m.BT, m.DOT_SEED, x)
           /\ Run("relaxed_madd", m, i, x) = relaxed_madd(i, m.X, m.COEF, m.MADD_SEED, x)
           /\ Run("vtable_mono", m, i, x) = [result |-> vtable_mono(x)]
           /\ Run("vtable_bi", m, i, x) = [result |-> vtable_bi(x)]
           /\ Run("vtable_poly4", m, i, x) = [result |-> vtable_poly4(x)]
           /\ Run("vtable_poly6", m, i, x) = [result |-> vtable_poly6(x)]
<1>1. Run("fib", m, i, x) = [result |-> fib(x)] BY DEF Run
<1>2. Run("fib_tail", m, i, x) = [result |-> fib_tail(x)] BY DEF Run
<1>3. Run("factorial", m, i, x) = [result |-> factorial(x)] BY DEF Run
<1>4. Run("sieve", m, i, x) = sieve(m.SIEVE, x) BY DEF Run
<1>5. Run("crc32", m, i, x) = crc32(m.INPUT, x) BY DEF Run
<1>6. Run("convolve", m, i, x) = convolve(m.IN_BUF, m.OUT_BUF, x) BY DEF Run
<1>7. Run("bulk_memory", m, i, x) = bulk_memory(m.SRC, m.DST, x) BY DEF Run
<1>8. Run("call_indirect", m, i, x) = [result |-> call_indirect(x)] BY DEF Run
<1>9. Run("audio_dsp", m, i, x) = audio_dsp(m.SAMPLE, m.VOICES_STATE, m.LPF_STATE, x) BY DEF Run
<1>10. Run("matmul", m, i, x) = matmul(x) BY DEF Run
<1>11. Run("matmul_fma", m, i, x) = matmul_fma(i, x) BY DEF Run
<1>12. Run("relaxed_dot", m, i, x) = relaxed_dot(i, m.A, m.BT, m.DOT_SEED, x) BY DEF Run
<1>13. Run("relaxed_madd", m, i, x) = relaxed_madd(i, m.X, m.COEF, m.MADD_SEED, x) BY DEF Run
<1>14. Run("vtable_mono", m, i, x) = [result |-> vtable_mono(x)] BY DEF Run
<1>15. Run("vtable_bi", m, i, x) = [result |-> vtable_bi(x)] BY DEF Run
<1>16. Run("vtable_poly4", m, i, x) = [result |-> vtable_poly4(x)] BY DEF Run
<1>17. Run("vtable_poly6", m, i, x) = [result |-> vtable_poly6(x)] BY DEF Run
<1>. QED BY <1>1, <1>2, <1>3, <1>4, <1>5, <1>6, <1>7, <1>8, <1>9, <1>10, <1>11, <1>12, <1>13,
            <1>14, <1>15, <1>16, <1>17

LEMMA ExpectedOf ==
    ASSUME NEW x
    PROVE  /\ Expected("fib", x) = fib_reference(x)
           /\ Expected("fib_tail", x) = fib_reference(x)
           /\ Expected("factorial", x) = factorial_reference(x)
           /\ Expected("sieve", x) = sieve_reference(x)
           /\ Expected("crc32", x) = crc32_reference(x)
           /\ Expected("convolve", x) = convolution_reference(x)
           /\ Expected("bulk_memory", x) = bulk_memory_reference(x)
           /\ Expected("call_indirect", x) = call_indirect_reference(x)
           /\ Expected("audio_dsp", x) = audio_dsp_reference(x)
           /\ Expected("matmul", x) = matmul_simd_reference(x)
           /\ Expected("matmul_fma", x) = matmul_fma_reference(x)
           /\ \A e \in {"relaxed_dot", "relaxed_madd", "vtable_mono", "vtable_bi",
                "vtable_poly4", "vtable_poly6"} :
                 Expected(e, x) = Run(e, FreshStatics(module), impl, x).result
<1>1. Expected("fib", x) = fib_reference(x) BY DEF Expected
<1>2. Expected("fib_tail", x) = fib_reference(x) BY DEF Expected
<1>3. Expected("factorial", x) = factorial_reference(x) BY DEF Expected
<1>4. Expected("sieve", x) = sieve_reference(x) BY DEF Expected
<1>5. Expected("crc32", x) = crc32_reference(x) BY DEF Expected
<1>6. Expected("convolve", x) = convolution_reference(x) BY DEF Expected
<1>7. Expected("bulk_memory", x) = bulk_memory_reference(x) BY DEF Expected
<1>8. Expected("call_indirect", x) = call_indirect_reference(x) BY DEF Expected
<1>9. Expected("audio_dsp", x) = audio_dsp_reference(x) BY DEF Expected
<1>10. Expected("matmul", x) = matmul_simd_reference(x) BY DEF Expected
<1>11. Expected("matmul_fma", x) = matmul_fma_reference(x) BY DEF Expected
<1>12. ASSUME NEW e \in {"relaxed_dot", "relaxed_madd", "vtable_mono", "vtable_bi",
                "vtable_poly4", "vtable_poly6"}
       PROVE  Expected(e, x) = Run(e, FreshStatics(module), impl, x).result
  BY DEF Expected
<1>. QED BY <1>1, <1>2, <1>3, <1>4, <1>5, <1>6, <1>7, <1>8, <1>9, <1>10, <1>11, <1>12

\* relaxed_kernels' operands as drawn for a seed.
DotDrawn(seed) == DotBytes(LcgWords(Xor(seed, Wrap(\hF491)), 2 * DOT_M * DOT_K))
MaddDrawn(seed) ==
  LET words == LcgWords(Xor(seed, Wrap(\h79B9)), NPTS + DEG + 1)
  IN [X |-> [i \in 0..(NPTS - 1) |-> (HighBits(words[i + 1], BYTE) % 7) - 3],
      COEF |-> [c \in 0..DEG |-> (HighBits(words[NPTS + c + 1], BYTE) % 9) - 4]]

\* What a module's statics keep between calls that a result may depend on.
StaticsOf(m) ==
  CASE m = "sieve" -> {"SIEVE"}
    [] m = "convolution" -> {"IN_BUF", "OUT_BUF"}
    [] m = "bulk_memory" -> {"SRC", "DST"}
    [] m = "relaxed_kernels" -> {"A", "BT", "DOT_SEED", "X", "COEF", "MADD_SEED"}
StaticsInv ==
    /\ module \in {"sieve", "convolution", "bulk_memory", "relaxed_kernels"}
         => DOMAIN statics = StaticsOf(module)
    /\ module = "sieve" => DOMAIN statics.SIEVE = 0..SIEVE_MAX
    /\ module = "convolution" => CleanImage(statics.OUT_BUF)
    /\ module = "bulk_memory" => CleanBytes(statics.DST)
    /\ module = "relaxed_kernels" /\ statics.DOT_SEED # MinWord =>
         statics.A = DotDrawn(statics.DOT_SEED).A /\ statics.BT = DotDrawn(statics.DOT_SEED).BT
    /\ module = "relaxed_kernels" /\ statics.MADD_SEED # MinWord =>
         statics.X = MaddDrawn(statics.MADD_SEED).X
           /\ statics.COEF = MaddDrawn(statics.MADD_SEED).COEF

InstanceInv ==
    /\ module \in DOMAIN Exports
    /\ impl \in Implementations
    /\ StaticsInv
    /\ UsedInstanceAgrees

LEMMA DotFilled ==
    ASSUME NEW A, NEW BT, NEW SEED, NEW x,
           SEED # MinWord => A = DotDrawn(SEED).A /\ BT = DotDrawn(SEED).BT
    PROVE  LET m == fill_dot(A, BT, SEED, x)
           IN m.DOT_SEED = x /\ (x # MinWord => m.A = DotDrawn(x).A /\ m.BT = DotDrawn(x).BT)
<1> DEFINE D == DotDrawn(x)
<1>1. fill_dot(A, BT, SEED, x) = IF SEED = x THEN [A |-> A, BT |-> BT, DOT_SEED |-> SEED]
                                 ELSE [A |-> D.A, BT |-> D.BT, DOT_SEED |-> x]
  BY DEF fill_dot, DotDrawn
<1>. QED BY <1>1

LEMMA MaddFilled ==
    ASSUME NEW Pts, NEW COEF, NEW SEED, NEW x,
           SEED # MinWord => Pts = MaddDrawn(SEED).X /\ COEF = MaddDrawn(SEED).COEF
    PROVE  LET m == fill_madd(Pts, COEF, SEED, x)
           IN m.MADD_SEED = x /\ (x # MinWord => m.X = MaddDrawn(x).X /\ m.COEF = MaddDrawn(x).COEF)
<1> DEFINE D == MaddDrawn(x)
<1>1. fill_madd(Pts, COEF, SEED, x) = IF SEED = x THEN [X |-> Pts, COEF |-> COEF, MADD_SEED |-> SEED]
                                    ELSE [X |-> D.X, COEF |-> D.COEF, MADD_SEED |-> x]
  BY DEF fill_madd, MaddDrawn
<1>. QED BY <1>1

LEMMA FreshStaticsOf ==
    /\ DOMAIN FreshStatics("sieve") = {"SIEVE"}
         /\ FreshStatics("sieve").SIEVE = Zeroes(SIEVE_MAX + 1)
    /\ DOMAIN FreshStatics("convolution") = {"IN_BUF", "OUT_BUF"}
    /\ FreshStatics("convolution").OUT_BUF = Zeroes(IMAGE * IMAGE)
    /\ DOMAIN FreshStatics("bulk_memory") = {"SRC", "DST"}
         /\ FreshStatics("bulk_memory").DST = Zeroes(BULK_N)
    /\ DOMAIN FreshStatics("relaxed_kernels") = {"A", "BT", "DOT_SEED", "X", "COEF", "MADD_SEED"}
    /\ FreshStatics("relaxed_kernels").DOT_SEED = MinWord
         /\ FreshStatics("relaxed_kernels").MADD_SEED = MinWord
<1>1. FreshStatics("sieve") = [SIEVE |-> Zeroes(SIEVE_MAX + 1)] BY DEF FreshStatics
<1>2. FreshStatics("convolution")
        = [IN_BUF |-> Zeroes(IMAGE * IMAGE), OUT_BUF |-> Zeroes(IMAGE * IMAGE)]
  BY DEF FreshStatics
<1>3. FreshStatics("bulk_memory") = [SRC |-> Zeroes(BULK_N), DST |-> Zeroes(BULK_N)]
  BY DEF FreshStatics
<1>4. FreshStatics("relaxed_kernels") =
        [A |-> Zeroes(DOT_M * DOT_K), BT |-> Zeroes(DOT_M * DOT_K), DOT_SEED |-> MinWord,
         X |-> Zeroes(NPTS), COEF |-> Zeroes(DEG + 1), MADD_SEED |-> MinWord]
  BY DEF FreshStatics
<1>. QED BY <1>1, <1>2, <1>3, <1>4

\* What the kernels with operands of their own give for a seed that marks nothing.
DotOf(i, x) == dot_kernel(i, DotDrawn(x).A, DotDrawn(x).BT)
MaddOf(i, x) == madd_kernel(i, MaddDrawn(x).X, MaddDrawn(x).COEF)

LEMMA DotRuns ==
    ASSUME NEW s, NEW i, NEW x,
           s.DOT_SEED # MinWord => s.A = DotDrawn(s.DOT_SEED).A /\ s.BT = DotDrawn(s.DOT_SEED).BT
    PROVE  LET ran == Run("relaxed_dot", s, i, x)
           IN /\ DOMAIN ran = {"result", "A", "BT", "DOT_SEED"}
              /\ ran.DOT_SEED # MinWord
                   => ran.A = DotDrawn(ran.DOT_SEED).A /\ ran.BT = DotDrawn(ran.DOT_SEED).BT
              /\ x # MinWord => ran.result = DotOf(i, x)
<1> DEFINE m == fill_dot(s.A, s.BT, s.DOT_SEED, x)
<1>1. Run("relaxed_dot", s, i, x) =
        [result |-> dot_kernel(i, m.A, m.BT), A |-> m.A, BT |-> m.BT, DOT_SEED |-> m.DOT_SEED]
  <2>1. Run("relaxed_dot", s, i, x) = relaxed_dot(i, s.A, s.BT, s.DOT_SEED, x) BY RunOf
  <2>. QED BY <2>1 DEF relaxed_dot
<1>2. m.DOT_SEED = x /\ (x # MinWord => m.A = DotDrawn(x).A /\ m.BT = DotDrawn(x).BT) BY DotFilled
<1> HIDE DEF m
<1>. QED BY <1>1, <1>2 DEF DotOf

LEMMA MaddRuns ==
    ASSUME NEW s, NEW i, NEW x,
           s.MADD_SEED # MinWord
             => s.X = MaddDrawn(s.MADD_SEED).X /\ s.COEF = MaddDrawn(s.MADD_SEED).COEF
    PROVE  LET ran == Run("relaxed_madd", s, i, x)
           IN /\ DOMAIN ran = {"result", "X", "COEF", "MADD_SEED"}
              /\ ran.MADD_SEED # MinWord
                   => ran.X = MaddDrawn(ran.MADD_SEED).X /\ ran.COEF = MaddDrawn(ran.MADD_SEED).COEF
              /\ x # MinWord => ran.result = MaddOf(i, x)
<1> DEFINE m == fill_madd(s.X, s.COEF, s.MADD_SEED, x)
<1>1. Run("relaxed_madd", s, i, x) =
        [result |-> madd_kernel(i, m.X, m.COEF), X |-> m.X, COEF |-> m.COEF,
         MADD_SEED |-> m.MADD_SEED]
  <2>1. Run("relaxed_madd", s, i, x) = relaxed_madd(i, s.X, s.COEF, s.MADD_SEED, x) BY RunOf
  <2>. QED BY <2>1 DEF relaxed_madd
<1>2. m.MADD_SEED = x /\ (x # MinWord => m.X = MaddDrawn(x).X /\ m.COEF = MaddDrawn(x).COEF)
  BY MaddFilled
<1> HIDE DEF m
<1>. QED BY <1>1, <1>2 DEF MaddOf

LEMMA InstanceStarts == InstanceInit => InstanceInv
<1>1. SUFFICES ASSUME InstanceInit PROVE InstanceInv OBVIOUS
<1>2. module \in DOMAIN Exports /\ statics = FreshStatics(module) BY <1>1 DEF InstanceInit
<1>3. impl \in Implementations
  <2>1. Plain \in Implementations BY DEF Plain, Implementations
  <2>. QED BY <1>1, <2>1 DEF InstanceInit
<1>4. StaticsInv
  <2>1. DOMAIN Zeroes(SIEVE_MAX + 1) = 0..SIEVE_MAX BY KernelsAssumption DEF Zeroes
  <2>2. CleanImage(Zeroes(IMAGE * IMAGE)) BY DEF CleanImage, Zeroes, Places
  <2>3. CleanBytes(Zeroes(BULK_N)) BY DEF CleanBytes, Zeroes, Buffer
  <2>. QED BY <1>2, <2>1, <2>2, <2>3, FreshStaticsOf DEF StaticsInv, StaticsOf
<1>5. UsedInstanceAgrees BY <1>1 DEF InstanceInit, UsedInstanceAgrees
<1>. QED BY <1>2, <1>3, <1>4, <1>5 DEF InstanceInv

\* The exports of a module without statics that matter, by definition.
LEMMA ResultAgrees ==
    ASSUME InstanceInv, NEW export \in Exports[module], NEW x \in ArgumentsOf(export),
             Comparable(export, x)
    PROVE  Run(export, statics, impl, x).result = Expected(export, x)
<1>1. export \in Counting => x \in Nat BY ArgumentsAssumption DEF ArgumentsOf
<1>2. CASE export = "fib"
  <2>1. x \in Nat BY <1>1, <1>2 DEF Counting
  <2>. QED BY <1>2, <2>1, RunOf, ExpectedOf, FibIsReference
<1>3. CASE export = "fib_tail"
  <2>1. x \in Nat BY <1>1, <1>3 DEF Counting
  <2>. QED BY <1>3, <2>1, RunOf, ExpectedOf, TailIsReference
<1>4. CASE export = "factorial" BY <1>4, RunOf, ExpectedOf DEF factorial_reference
<1>5. CASE export = "sieve"
  <2>1. x \in Nat /\ x <= SIEVE_MAX BY <1>1, <1>5 DEF Counting, Comparable
  <2>2. module = "sieve" BY <1>5 DEF Exports, InstanceInv
  <2>3. DOMAIN statics.SIEVE = 0..SIEVE_MAX BY <2>2 DEF InstanceInv, StaticsInv
  <2>4. sieve(statics.SIEVE, x).result = sieve_reference(x) BY <2>1, <2>3, SieveIsReference
  <2>. QED BY <1>5, <2>4, RunOf, ExpectedOf
<1>6. CASE export = "crc32"
  <2>1. crc32(statics.INPUT, x).result = crc32_reference(x) BY DEF crc32, crc32_reference
  <2>. QED BY <1>6, <2>1, RunOf, ExpectedOf
<1>7. CASE export = "convolve"
  <2>1. module = "convolution" BY <1>7 DEF Exports, InstanceInv
  <2>2. CleanImage(statics.OUT_BUF) BY <2>1 DEF InstanceInv, StaticsInv
  <2>3. Blurred(LcgBytes(x, IMAGE * IMAGE), statics.OUT_BUF)
          = Blurred(LcgBytes(x, IMAGE * IMAGE), Zeroes(IMAGE * IMAGE))
    BY <2>2, BlurIsClean
  <2>4. convolve(statics.IN_BUF, statics.OUT_BUF, x).result = convolution_reference(x)
    BY <2>3 DEF convolve, convolution_reference
  <2>. QED BY <1>7, <2>4, RunOf, ExpectedOf
<1>8. CASE export = "bulk_memory"
  <2>1. module = "bulk_memory" BY <1>8 DEF Exports, InstanceInv
  <2>2. CleanBytes(statics.DST) BY <2>1 DEF InstanceInv, StaticsInv
  <2>3. BulkRounds(LcgBytes(x, BULK_N), statics.DST)
          = BulkRounds(LcgBytes(x, BULK_N), Zeroes(BULK_N))
    BY <2>2, BulkIsClean
  <2>4. bulk_memory(statics.SRC, statics.DST, x).result = bulk_memory_reference(x)
    BY <2>3 DEF bulk_memory, bulk_memory_reference
  <2>. QED BY <1>8, <2>4, RunOf, ExpectedOf
<1>9. CASE export = "call_indirect" BY <1>9, RunOf, ExpectedOf DEF call_indirect_reference
<1>10. CASE export = "audio_dsp"
  <2>1. audio_dsp(statics.SAMPLE, statics.VOICES_STATE, statics.LPF_STATE, x).result
          = audio_dsp_reference(x)
    BY DEF audio_dsp, audio_dsp_reference
  <2>. QED BY <1>10, <2>1, RunOf, ExpectedOf
<1>11. CASE export = "matmul"
  <2>1. Product(FilledA(x), FilledB(x), MulThenAdd)
          = ProductByRows(FilledA(x), FilledB(x), MulThenAdd)
    BY ProductsAgree, Zenon
  <2>2. matmul(x).result = TruncatedTrace(Product(FilledA(x), FilledB(x), MulThenAdd)) BY DEF matmul
  <2>3. matmul(x).result = matmul_simd_reference(x) BY <2>1, <2>2, Zenon DEF matmul_simd_reference
  <2>. QED BY <1>11, <2>3, RunOf, ExpectedOf
<1>12. CASE export = "matmul_fma"
  <2>1. impl.fused = TRUE BY <1>12 DEF Comparable, InstanceInv, Implementations
  <2>2. RelaxedProduct(impl, FilledA(x), FilledB(x))
          = ProductByRows(FilledA(x), FilledB(x), MulAdd)
    BY <2>1, ProductsAgree
  <2>3. matmul_fma(impl, x).result
          = TruncatedTrace(RelaxedProduct(impl, FilledA(x), FilledB(x)))
    BY DEF matmul_fma, RelaxedProduct
  <2>4. matmul_fma(impl, x).result = matmul_fma_reference(x)
    BY <2>2, <2>3, Zenon DEF matmul_fma_reference
  <2>. QED BY <1>12, <2>4, RunOf, ExpectedOf
<1>13. CASE export = "relaxed_dot"
  <2>1. x # MinWord /\ module = "relaxed_kernels" BY <1>13 DEF Comparable, Exports, InstanceInv
  <2>2. Run("relaxed_dot", statics, impl, x).result = DotOf(impl, x)
    BY <2>1, DotRuns DEF InstanceInv, StaticsInv
  <2>3. Run("relaxed_dot", FreshStatics(module), impl, x).result = DotOf(impl, x)
    BY <2>1, DotRuns, FreshStaticsOf
  <2>. QED BY <1>13, <2>2, <2>3, ExpectedOf
<1>14. CASE export = "relaxed_madd"
  <2>1. x # MinWord /\ module = "relaxed_kernels" BY <1>14 DEF Comparable, Exports, InstanceInv
  <2>2. Run("relaxed_madd", statics, impl, x).result = MaddOf(impl, x)
    BY <2>1, MaddRuns DEF InstanceInv, StaticsInv
  <2>3. Run("relaxed_madd", FreshStatics(module), impl, x).result = MaddOf(impl, x)
    BY <2>1, MaddRuns, FreshStaticsOf
  <2>. QED BY <1>14, <2>2, <2>3, ExpectedOf
<1>15. CASE export \in {"vtable_mono", "vtable_bi", "vtable_poly4", "vtable_poly6"}
  BY <1>15, RunOf, ExpectedOf
<1>16. export \in {"fib", "fib_tail", "factorial", "sieve", "crc32", "convolve", "bulk_memory",
                   "call_indirect", "audio_dsp", "matmul", "matmul_fma", "relaxed_dot", "relaxed_madd",
                   "vtable_mono", "vtable_bi", "vtable_poly4", "vtable_poly6"}
  BY DEF Exports, InstanceInv
<1>. QED BY <1>2, <1>3, <1>4, <1>5, <1>6, <1>7, <1>8, <1>9, <1>10, <1>11, <1>12, <1>13, <1>14,
            <1>15, <1>16

\* A call leaves the statics as the next one needs them.
LEMMA CallKeepsStatics ==
    ASSUME InstanceInv, NEW export \in Exports[module], NEW x \in ArgumentsOf(export),
             Call(export, x)
    PROVE  StaticsInv'
<1> DEFINE ran == Run(export, statics, impl, x)
<1>1. /\ statics' = [s \in DOMAIN statics |-> IF s \in DOMAIN ran THEN ran[s] ELSE statics[s]]
      /\ module' = module
  BY DEF Call
<1>2. StaticsInv /\ module \in DOMAIN Exports BY DEF InstanceInv
<1>3. CASE module = "sieve"
  <2>1. export = "sieve" /\ x \in Nat
    BY <1>3, ArgumentsAssumption DEF Exports, Counting, ArgumentsOf
  <2>2. DOMAIN statics.SIEVE = 0..SIEVE_MAX /\ DOMAIN statics = {"SIEVE"}
    BY <1>2, <1>3 DEF StaticsInv, StaticsOf
  <2>3. ran = sieve(statics.SIEVE, x) BY <2>1, RunOf
  <2>4. DOMAIN ran.SIEVE = 0..SIEVE_MAX BY <2>1, <2>2, <2>3, SieveIsReference
  <2>5. "SIEVE" \in DOMAIN ran BY <2>1, <2>2, <2>3, SieveIsReference
  <2> HIDE DEF ran
  <2>6. DOMAIN statics' = {"SIEVE"} /\ statics'.SIEVE = ran.SIEVE BY <1>1, <2>2, <2>5
  <2>. QED BY <1>1, <1>3, <2>4, <2>6 DEF StaticsInv, StaticsOf
<1>4. CASE module = "convolution"
  <2>1. export = "convolve" BY <1>4 DEF Exports
  <2>2. CleanImage(statics.OUT_BUF) /\ DOMAIN statics = {"IN_BUF", "OUT_BUF"}
    BY <1>2, <1>4 DEF StaticsInv, StaticsOf
  <2>3. ran = convolve(statics.IN_BUF, statics.OUT_BUF, x) BY <2>1, RunOf
  <2>4. "OUT_BUF" \in DOMAIN ran
          /\ ran.OUT_BUF = Blurred(LcgBytes(x, IMAGE * IMAGE), statics.OUT_BUF)
    BY <2>3 DEF convolve
  <2> HIDE DEF ran
  <2>5. CleanImage(ran.OUT_BUF) BY <2>2, <2>4, BlurIsClean
  <2>6. DOMAIN statics' = {"IN_BUF", "OUT_BUF"} /\ statics'.OUT_BUF = ran.OUT_BUF
    BY <1>1, <2>2, <2>4
  <2>7. CleanImage(statics'.OUT_BUF) BY <2>5, <2>6
  <2>. QED BY <1>1, <1>4, <2>6, <2>7 DEF StaticsInv, StaticsOf
<1>5. CASE module = "bulk_memory"
  <2>1. export = "bulk_memory" BY <1>5 DEF Exports
  <2>2. CleanBytes(statics.DST) /\ DOMAIN statics = {"SRC", "DST"}
    BY <1>2, <1>5 DEF StaticsInv, StaticsOf
  <2>3. ran = bulk_memory(statics.SRC, statics.DST, x) BY <2>1, RunOf
  <2>4. "DST" \in DOMAIN ran /\ ran.DST = BulkRounds(LcgBytes(x, BULK_N), statics.DST)
    BY <2>3 DEF bulk_memory
  <2> HIDE DEF ran
  <2>5. CleanBytes(ran.DST) BY <2>2, <2>4, BulkIsClean
  <2>6. DOMAIN statics' = {"SRC", "DST"} /\ statics'.DST = ran.DST BY <1>1, <2>2, <2>4
  <2>7. CleanBytes(statics'.DST) BY <2>5, <2>6
  <2>. QED BY <1>1, <1>5, <2>6, <2>7 DEF StaticsInv, StaticsOf
<1>6. CASE module = "relaxed_kernels"
  <2>1. export \in {"relaxed_dot", "relaxed_madd"} BY <1>6 DEF Exports
  <2>2. /\ DOMAIN statics = StaticsOf("relaxed_kernels")
        /\ statics.DOT_SEED # MinWord =>
             statics.A = DotDrawn(statics.DOT_SEED).A /\ statics.BT = DotDrawn(statics.DOT_SEED).BT
        /\ statics.MADD_SEED # MinWord =>
             statics.X = MaddDrawn(statics.MADD_SEED).X
               /\ statics.COEF = MaddDrawn(statics.MADD_SEED).COEF
    BY <1>2, <1>6 DEF StaticsInv
  <2>3. CASE export = "relaxed_dot"
    <3>1. /\ DOMAIN ran = {"result", "A", "BT", "DOT_SEED"}
          /\ ran.DOT_SEED # MinWord
               => ran.A = DotDrawn(ran.DOT_SEED).A /\ ran.BT = DotDrawn(ran.DOT_SEED).BT
      BY <2>2, <2>3, DotRuns
    <3> HIDE DEF ran
    <3>2. /\ DOMAIN statics' = StaticsOf("relaxed_kernels")
          /\ statics'.A = ran.A /\ statics'.BT = ran.BT /\ statics'.DOT_SEED = ran.DOT_SEED
          /\ statics'.X = statics.X /\ statics'.COEF = statics.COEF
               /\ statics'.MADD_SEED = statics.MADD_SEED
      BY <1>1, <2>2, <3>1 DEF StaticsOf
    <3>. QED BY <1>1, <1>6, <2>2, <3>1, <3>2 DEF StaticsInv
  <2>4. CASE export = "relaxed_madd"
    <3>1. /\ DOMAIN ran = {"result", "X", "COEF", "MADD_SEED"}
          /\ ran.MADD_SEED # MinWord
               => ran.X = MaddDrawn(ran.MADD_SEED).X /\ ran.COEF = MaddDrawn(ran.MADD_SEED).COEF
      BY <2>2, <2>4, MaddRuns
    <3> HIDE DEF ran
    <3>2. /\ DOMAIN statics' = StaticsOf("relaxed_kernels")
          /\ statics'.A = statics.A /\ statics'.BT = statics.BT
               /\ statics'.DOT_SEED = statics.DOT_SEED
          /\ statics'.X = ran.X /\ statics'.COEF = ran.COEF /\ statics'.MADD_SEED = ran.MADD_SEED
      BY <1>1, <2>2, <3>1 DEF StaticsOf
    <3>. QED BY <1>1, <1>6, <2>2, <3>1, <3>2 DEF StaticsInv
  <2>. QED BY <2>1, <2>3, <2>4
<1>7. CASE module \notin {"sieve", "convolution", "bulk_memory", "relaxed_kernels"}
  BY <1>1, <1>7 DEF StaticsInv
<1>. QED BY <1>3, <1>4, <1>5, <1>6, <1>7

LEMMA InstanceSteps == InstanceInv /\ [InstanceNext]_instance_vars => InstanceInv'
<1>1. SUFFICES ASSUME InstanceInv, [InstanceNext]_instance_vars PROVE InstanceInv' OBVIOUS
<1>2. CASE UNCHANGED instance_vars
  BY <1>1, <1>2 DEF instance_vars, InstanceInv, StaticsInv, UsedInstanceAgrees, Comparable, Expected
<1>3. ASSUME NEW export \in Exports[module], NEW x \in ArgumentsOf(export), Call(export, x)
      PROVE  InstanceInv'
  <2>1. /\ module' = module /\ impl' = impl
        /\ last' = [export |-> export, arg |-> x, result |-> Run(export, statics, impl, x).result]
    BY <1>3 DEF Call
  <2>2. \A e, y : Comparable(e, y)' <=> Comparable(e, y) BY <2>1 DEF Comparable
  <2>3. \A e, y : Expected(e, y)' = Expected(e, y) BY <2>1 DEF Expected
  <2>4. UsedInstanceAgrees'
    <3>1. Comparable(export, x) => Run(export, statics, impl, x).result = Expected(export, x)
      BY <1>1, <1>3, ResultAgrees
    <3>2. last'.export = export /\ last'.arg = x
            /\ last'.result = Run(export, statics, impl, x).result BY <2>1
    <3>3. Comparable(last.export, last.arg)' => (last.result = Expected(last.export, last.arg))'
      BY <2>1, <2>2, <2>3, <3>1, <3>2
    <3>. QED BY <3>3 DEF UsedInstanceAgrees
  <2>5. StaticsInv' BY <1>1, <1>3, CallKeepsStatics
  <2>. QED BY <1>1, <2>1, <2>4, <2>5 DEF InstanceInv
<1>. QED BY <1>1, <1>2, <1>3 DEF InstanceNext

\* What a call leaves in an instance's memory never shows in the result of another.
THEOREM UsedInstancesAlwaysAgree == InstanceSpec => []UsedInstanceAgrees
<1>1. InstanceInv => UsedInstanceAgrees BY DEF InstanceInv
<1>. QED BY <1>1, InstanceStarts, InstanceSteps, PTL DEF InstanceSpec

-----------------------------------------------------------------------------
(* relaxed_kernels: the operands stay where the runtimes' choices coincide. *)

\* Loops whose steps agree agree.
LEMMA LoopsAgree ==
    ASSUME NEW c, NEW d, NEW start, NEW from \in Int, NEW upto \in Int,
           \A k \in from..upto : \A acc : StepOf(c, acc, k) = StepOf(d, acc, k)
    PROVE  LoopOf(c, start, from, upto) = LoopOf(d, start, from, upto)
<1>1. CASE upto < from BY <1>1, LoopStarts
<1>2. CASE from <= upto
  <2>1. from - 1 <= upto BY <1>2
  <2>2. PICK g : Runs(g, c, start, from, upto) BY <2>1, RunExists
  <2>3. \A k \in (from - 1)..upto : ~(k < from) => k \in from..upto OBVIOUS
  <2>4. \A k \in (from - 1)..upto : (IF k < from THEN start ELSE StepOf(c, g[k - 1], k))
                                      = IF k < from THEN start ELSE StepOf(d, g[k - 1], k)
    BY <2>3
  <2>5. Runs(g, d, start, from, upto) BY <2>2, <2>4 DEF Runs
  <2>6. LoopOf(c, start, from, upto) = g[upto] BY <1>2, <2>2, LoopRuns
  <2>7. LoopOf(d, start, from, upto) = g[upto] BY <1>2, <2>5, LoopRuns
  <2>. QED BY <2>6, <2>7
<1>. QED BY <1>1, <1>2

\* Exclusive or gives a number.
LEMMA XorNat == \A a, b : Xor(a, b) \in Nat
<1>1. ASSUME NEW ones PROVE WordOf(ones) \in Nat
  <2> DEFINE c == [kind |-> "bits", ones |-> ones]
             A == {n \in Nat : n <= WORD => LoopOf(c, 0, 0, n - 1) \in Nat}
  <2>1. \A acc, k : StepOf(c, acc, k) = (IF k \in ones THEN 2^k ELSE 0) + acc BY DEF StepOf
  <2>2. WordOf(ones) = LoopOf(c, 0, 0, WORD - 1)
    <3>1. WordOf(ones) = Sum(ones) BY Zenon DEF WordOf, Sum
    <3>2. WORD - 1 \in Int BY WordsAssumption
    <3>. QED BY <3>1, <3>2, SumLoop
  <2> HIDE DEF c
  <2>3. 0 \in A
    <3>1. 0 \in Int /\ 0 - 1 \in Int /\ 0 - 1 < 0 OBVIOUS
    <3>. QED BY <3>1, LoopStarts
  <2>4. ASSUME NEW n \in Nat, n \in A PROVE n + 1 \in A
    <3>1. SUFFICES ASSUME n + 1 <= WORD PROVE LoopOf(c, 0, 0, n) \in Nat
      <4>1. (n + 1) - 1 = n OBVIOUS
      <4>. QED BY <4>1
    <3>2. LoopOf(c, 0, 0, n) = StepOf(c, LoopOf(c, 0, 0, n - 1), n) BY LoopContinues
    <3>3. LoopOf(c, 0, 0, n - 1) \in Nat BY <2>4, <3>1, TwoSteps
    <3>4. Two(n) \in Nat
      <4>1. n \in 0..Limit BY <3>1, WordsAssumption DEF Limit
      <4>. QED BY <4>1, TwoPositive
    <3>5. LoopOf(c, 0, 0, n) = (IF n \in ones THEN Two(n) ELSE 0) + LoopOf(c, 0, 0, n - 1)
      BY <2>1, <3>2 DEF Two
    <3>. QED BY <3>3, <3>4, <3>5
  <2> HIDE DEF A
  <2>5. \A n \in 0..WORD : n \in A BY <2>3, <2>4, TwoSteps, Induction
  <2>6. WORD \in A BY <2>5, TwoSteps
  <2>7. LoopOf(c, 0, 0, WORD - 1) \in Nat BY <2>6, TwoSteps DEF A
  <2>. QED BY <2>2, <2>7
<1>. QED BY <1>1 DEF Xor

\* What the generator draws is words.
LEMMA WordsDrawn ==
    ASSUME NEW s \in Int, NEW n \in Nat, NEW i \in 1..n
    PROVE  LcgWords(s, n)[i] \in Nat /\ LcgWords(s, n)[i] < Two(WORD)
<1> DEFINE c == [kind |-> "lcg"]
           q(k) == LoopOf(c, << s >>, 1, k)
           Good(k) == /\ q(k) \in Seq(Int) /\ Len(q(k)) = k + 1
                      /\ \A j \in 2..(k + 1) : q(k)[j] \in Nat /\ q(k)[j] < Two(WORD)
           A == {k \in Nat : Good(k)}
<1>1. \A acc, k : StepOf(c, acc, k) = Append(acc, Lcg(acc[k])) BY DEF StepOf
<1>2. LcgWords(s, n) = Tail(q(n))
  <2>1. LcgWords(s, n) = Tail(WordsFrom(s, n)) BY Zenon DEF LcgWords, WordsFrom
  <2>2. n \in Int OBVIOUS
  <2>. QED BY <2>1, <2>2, DrawnLoop
<1> HIDE DEF c
<1>3. q(0) = << s >>
  <2>1. 1 \in Int /\ 0 \in Int /\ 0 < 1 OBVIOUS
  <2>. QED BY <2>1, LoopStarts
<1>4. \A k \in Nat : q(k + 1) = Append(q(k), Lcg(q(k)[k + 1]))
  <2>1. ASSUME NEW k \in Nat PROVE q(k + 1) = Append(q(k), Lcg(q(k)[k + 1]))
    <3>1. 1 \in Int /\ k + 1 \in Int /\ 1 <= k + 1 /\ (k + 1) - 1 = k OBVIOUS
    <3>2. LoopOf(c, << s >>, 1, k + 1) = StepOf(c, LoopOf(c, << s >>, 1, (k + 1) - 1), k + 1)
      BY <3>1, LoopContinues
    <3>. QED BY <1>1, <3>1, <3>2
  <2>. QED BY <2>1
<1> HIDE DEF q
<1>5. Good(0)
  <2>1. << s >> \in Seq(Int) /\ Len(<< s >>) = 1 OBVIOUS
  <2>2. 1 = 0 + 1 /\ \A j \in 2..(0 + 1) : FALSE OBVIOUS
  <2>3. q(0) \in Seq(Int) /\ Len(q(0)) = 0 + 1 BY <1>3, <2>1, <2>2
  <2>4. \A j \in 2..(0 + 1) : q(0)[j] \in Nat /\ q(0)[j] < Two(WORD) BY <2>2
  <2>. QED BY <2>3, <2>4
<1>6. ASSUME NEW k \in Nat, Good(k) PROVE Good(k + 1)
  <2>1. q(k)[k + 1] \in Int BY <1>6
  <2>2. Lcg(q(k)[k + 1]) \in Nat /\ Lcg(q(k)[k + 1]) < Two(WORD)
    <3>1. Wrap(1664525) \in Nat /\ Wrap(1013904223) \in Nat BY Wraps
    <3>2. q(k)[k + 1] * Wrap(1664525) + Wrap(1013904223) \in Int BY <2>1, <3>1
    <3>. QED BY <3>2, Wraps DEF Lcg
  <2> DEFINE w == Lcg(q(k)[k + 1])
  <2>3. w \in Nat /\ w < Two(WORD) BY <2>2
  <2>4. q(k + 1) = Append(q(k), w) BY <1>4
  <2> HIDE DEF w
  <2>5. q(k + 1) \in Seq(Int) /\ Len(q(k + 1)) = (k + 1) + 1 BY <1>6, <2>3, <2>4
  <2>6. ASSUME NEW j \in 2..((k + 1) + 1) PROVE q(k + 1)[j] \in Nat /\ q(k + 1)[j] < Two(WORD)
    <3>1. CASE j = Len(q(k)) + 1
      <4>1. q(k + 1)[j] = w BY <1>6, <2>3, <2>4, <3>1
      <4>. QED BY <2>3, <4>1
    <3>2. CASE j # Len(q(k)) + 1
      <4>1. j \in 2..(k + 1) /\ j \in 1..Len(q(k)) BY <1>6, <3>2
      <4>2. q(k + 1)[j] = q(k)[j]
        <5>1. w \in Int /\ q(k) \in Seq(Int) BY <1>6, <2>3
        <5>. QED BY <2>4, <4>1, <5>1, AppendProperties
      <4>. QED BY <1>6, <4>1, <4>2
    <3>. QED BY <3>1, <3>2
  <2>. QED BY <2>5, <2>6
<1>7. \A k \in 0..n : k \in A
  <2> HIDE DEF Good
  <2>1. 0 \in A BY <1>5
  <2>2. \A k \in 0..(n - 1) : k \in A => k + 1 \in A BY <1>6
  <2> HIDE DEF A
  <2>. QED BY <2>1, <2>2, Induction
<1>8. Good(n)
  <2> HIDE DEF Good
  <2>. QED BY <1>7
<1>9. Tail(q(n))[i] = q(n)[i + 1] /\ i + 1 \in 2..(n + 1) BY <1>8
<1>. QED BY <1>2, <1>8, <1>9

\* The top byte of a word.
LEMMA TopByte ==
    ASSUME NEW x \in Nat, x < Two(WORD)
    PROVE  HighBits(x, BYTE) \in Nat /\ HighBits(x, BYTE) < Two(BYTE)
<1> DEFINE p == Two(WORD - BYTE)
           q == Two(BYTE)
<1>1. WORD - BYTE \in Nat /\ BYTE \in Nat /\ BYTE + (WORD - BYTE) = WORD /\ WORD <= Limit
      /\ WORD - BYTE <= Limit /\ BYTE <= Limit
  BY WordsAssumption DEF Limit
<1>2. Two(WORD) = q * p BY <1>1, TwoSum
<1>3. p \in Nat \ {0} /\ q \in Nat \ {0} BY <1>1, TwoPositive
<1>4. HighBits(x, BYTE) = x \div p BY DEF HighBits, Two
<1> HIDE DEF p, q
<1>5. x \div p \in Nat /\ x < q * p BY <1>2, <1>3
<1>6. p * (x \div p) <= x BY <1>3
<1>7. x \div p < q
  <2>1. SUFFICES ASSUME q <= x \div p PROVE FALSE BY <1>3, <1>5
  <2>2. q * p <= (x \div p) * p BY <1>3, <1>5, <2>1
  <2>. QED BY <1>3, <1>5, <1>6, <2>2
<1>. QED BY <1>4, <1>5, <1>7 DEF q

\* Half the range of a byte: bytes are below 2 * Half, signed ones within Half of zero.
Half == Two(BYTE - 1)

LEMMA Halves ==
    /\ Half \in Nat \ {0} /\ 2^BYTE = 2 * Half /\ 2^(BYTE - 1) = Half
    /\ 2^(2 * BYTE - 1) = 2 * (Half * Half)
<1>1. BYTE - 1 \in Nat /\ (BYTE - 1) + 1 = BYTE /\ BYTE <= Limit /\ BYTE - 1 <= Limit
        /\ BYTE \in Nat
      /\ BYTE + (BYTE - 1) = 2 * BYTE - 1 /\ 2 * BYTE - 1 <= Limit
  BY WordsAssumption DEF Limit
<1>2. Half \in Nat \ {0} BY <1>1, TwoPositive DEF Half
<1>3. Two(BYTE) = 2 * Half BY <1>1, TwoSteps DEF Half
<1>4. Two(2 * BYTE - 1) = Two(BYTE) * Half BY <1>1, TwoSum DEF Half
<1>5. (2 * Half) * Half = 2 * (Half * Half) BY <1>2
<1>. QED BY <1>2, <1>3, <1>4, <1>5 DEF Two, Half

InBytes(f) == \A k \in 0..(DOT_M * DOT_K - 1) : f[k] \in 0..(2 * Half - 1)
InSevenBits(f) == \A k \in 0..(DOT_M * DOT_K - 1) : f[k] \in 0..(Half - 1)

LEMMA DotOperands ==
    ASSUME NEW x
    PROVE  InBytes(DotDrawn(x).A) /\ InSevenBits(DotDrawn(x).BT)
<1> DEFINE s == Xor(x, Wrap(\hF491))
           n == 2 * DOT_M * DOT_K
           w == LcgWords(s, n)
           cells == DOT_M * DOT_K
<1>1. s \in Int BY XorNat
<1>2. cells \in Nat /\ n = 2 * cells /\ n \in Nat BY RelaxedAssumption
<1> HIDE DEF s
<1>3. \A i \in 1..n : w[i] \in Nat /\ w[i] < Two(WORD)
  <2> HIDE DEF n
  <2>. QED BY <1>1, <1>2, WordsDrawn
<1>4. DotDrawn(x) = [A |-> [i \in 0..(cells - 1) |-> HighBits(w[2 * i + 1], BYTE)],
                     BT |-> [i \in 0..(cells - 1) |->
                       LowBits(HighBits(w[2 * i + 2], BYTE), BYTE - 1)]]
  BY DEF DotDrawn, DotBytes, s
<1> HIDE DEF w, n, cells
<1>5. \A i \in 0..(cells - 1) : 2 * i + 1 \in 1..n /\ 2 * i + 2 \in 1..n BY <1>2
<1>6. ASSUME NEW i \in 0..(cells - 1)
      PROVE  /\ HighBits(w[2 * i + 1], BYTE) \in 0..(2 * Half - 1)
             /\ LowBits(HighBits(w[2 * i + 2], BYTE), BYTE - 1) \in 0..(Half - 1)
  <2>1. HighBits(w[2 * i + 1], BYTE) \in Nat /\ HighBits(w[2 * i + 1], BYTE) < 2 * Half
    BY <1>3, <1>5, TopByte, Halves DEF Two
  <2>2. HighBits(w[2 * i + 2], BYTE) \in Nat BY <1>3, <1>5, TopByte
  <2>3. LowBits(HighBits(w[2 * i + 2], BYTE), BYTE - 1) = HighBits(w[2 * i + 2], BYTE) % Half
    BY Halves DEF LowBits
  <2>. QED BY <2>1, <2>2, <2>3, Halves
<1>. QED BY <1>4, <1>6 DEF InBytes, InSevenBits, cells

\* A signed byte times seven bits.
LEMMA ProductBound ==
    ASSUME NEW h \in Nat \ {0}, NEW a \in (-h)..(h - 1), NEW b \in 0..(h - 1)
    PROVE  a * b \in Int /\ -(h * (h - 1)) <= a * b /\ a * b <= h * (h - 1)
<1>1. a * b <= h * (h - 1)
  <2>1. a * b <= h * b OBVIOUS
  <2>2. h * b <= h * (h - 1) OBVIOUS
  <2>. QED BY <2>1, <2>2
<1>2. -(h * (h - 1)) <= a * b
  <2>1. (-h) * b <= a * b OBVIOUS
  <2>2. h * b <= h * (h - 1) OBVIOUS
  <2>3. (-h) * b = -(h * b) OBVIOUS
  <2>. QED BY <2>1, <2>2, <2>3
<1>. QED BY <1>1, <1>2

\* Two such products neither saturate nor wrap.
LEMMA PairsFit ==
    ASSUME NEW m \in Implementations, NEW x \in Int, NEW y \in Int,
           -(Half * (Half - 1)) <= x, x <= Half * (Half - 1), -(Half * (Half - 1)) <= y,
           y <= Half * (Half - 1)
    PROVE  PairSum(m, x + y) = x + y
<1> DEFINE h == Half
           top == 2 * (h * h)
<1>1. h \in Nat \ {0} BY Halves
<1>2. h * (h - 1) = h * h - h /\ h * h \in Nat BY <1>1
<1>3. -top <= x + y /\ x + y < top BY <1>1, <1>2
<1>4. top \in Nat \ {0} /\ x + y + top \in 0..(2 * top - 1) BY <1>1, <1>2, <1>3
<1> HIDE DEF top
<1>5. (x + y + top) % (2 * top) = x + y + top BY <1>4
<1>6. PairSum(m, x + y) = IF m.saturate
                          THEN IF x + y >= top THEN top - 1 ELSE IF x + y < -top THEN -top
                            ELSE x + y
                          ELSE ((x + y + top) % (2 * top)) - top
  BY Halves DEF PairSum, top
<1>. QED BY <1>3, <1>4, <1>5, <1>6

\* So one step of the dot product is what it is in mathematics, whatever the runtime.
LEMMA DotAddExact ==
    ASSUME NEW A, NEW BT, InBytes(A), InSevenBits(BT), NEW m \in Implementations,
           NEW a \in Nat, NEW b \in Nat, a + 15 < DOT_M * DOT_K, b + 15 < DOT_M * DOT_K
    PROVE  LET P(k) == SignedByte(A[a + k]) * BT[b + k]
               L(l) == (P(4 * l) + P(4 * l + 1)) + (P(4 * l + 2) + P(4 * l + 3))
           IN DotAdd(m, A, BT, a, b) = L(0) + L(1) + L(2) + L(3)
<1> DEFINE P(k) == SignedByte(A[a + k]) * BT[b + k]
           Q(k) == SignedByte(A[a + k]) * (IF m.unsigned7 THEN BT[b + k] ELSE SignedByte(BT[b + k]))
           L(l) == (P(4 * l) + P(4 * l + 1)) + (P(4 * l + 2) + P(4 * l + 3))
           K(l) == PairSum(m, Q(4 * l) + Q(4 * l + 1)) + PairSum(m, Q(4 * l + 2) + Q(4 * l + 3))
<1>0. DOT_M * DOT_K \in Nat /\ Half \in Nat \ {0} BY RelaxedAssumption, Halves
<1>1. ASSUME NEW k \in 0..15
      PROVE  /\ Q(k) = P(k) /\ P(k) \in Int
             /\ -(Half * (Half - 1)) <= P(k) /\ P(k) <= Half * (Half - 1)
  <2>1. a + k \in 0..(DOT_M * DOT_K - 1) /\ b + k \in 0..(DOT_M * DOT_K - 1) BY <1>0
  <2>2. A[a + k] \in 0..(2 * Half - 1) /\ BT[b + k] \in 0..(Half - 1)
    BY <2>1 DEF InBytes, InSevenBits
  <2>3. SignedByte(A[a + k]) \in (-Half)..(Half - 1) BY <1>0, <2>2, Halves DEF SignedByte
  <2>4. SignedByte(BT[b + k]) = BT[b + k] BY <1>0, <2>2, Halves DEF SignedByte
  <2>5. Q(k) = P(k) BY <2>4
  <2>6. P(k) \in Int /\ -(Half * (Half - 1)) <= P(k) /\ P(k) <= Half * (Half - 1)
    BY <1>0, <2>2, <2>3, ProductBound
  <2>. QED BY <2>5, <2>6
<1>2. DotAdd(m, A, BT, a, b) = K(0) + K(1) + K(2) + K(3) BY DEF DotAdd
<1> HIDE DEF P, Q
<1>3. ASSUME NEW l \in 0..3 PROVE K(l) = L(l)
  <2>1. 4 * l \in 0..15 /\ 4 * l + 1 \in 0..15 /\ 4 * l + 2 \in 0..15 /\ 4 * l + 3 \in 0..15 OBVIOUS
  <2>2. PairSum(m, P(4 * l) + P(4 * l + 1)) = P(4 * l) + P(4 * l + 1) BY <1>1, <2>1, PairsFit
  <2>3. PairSum(m, P(4 * l + 2) + P(4 * l + 3)) = P(4 * l + 2) + P(4 * l + 3)
    BY <1>1, <2>1, PairsFit
  <2>4. /\ Q(4 * l) = P(4 * l) /\ Q(4 * l + 1) = P(4 * l + 1)
        /\ Q(4 * l + 2) = P(4 * l + 2) /\ Q(4 * l + 3) = P(4 * l + 3)
    BY <1>1, <2>1
  <2>. QED BY <2>2, <2>3, <2>4
<1> HIDE DEF K, L
<1>4. DotAdd(m, A, BT, a, b) = L(0) + L(1) + L(2) + L(3) BY <1>2, <1>3
<1>. QED BY <1>4 DEF L, P

LEMMA DotCellsAgree ==
    ASSUME NEW A, NEW BT, InBytes(A), InSevenBits(BT), NEW m \in Implementations,
             NEW n \in Implementations,
           NEW i \in 0..(DOT_M - 1), NEW j \in 0..(DOT_M - 1)
    PROVE  DotCell(m, A, BT, i, j) = DotCell(n, A, BT, i, j)
<1> DEFINE c(o) == [kind |-> "cell", impl |-> o, a |-> A, bt |-> BT, i |-> i, j |-> j]
           upto == DOT_K \div 16 - 1
<1>1. DOT_M \in Nat /\ DOT_K \in Nat /\ upto \in Int /\ 0 \in Int BY RelaxedAssumption
<1>2. \A o, acc, k :
        StepOf(c(o), acc, k) = acc + DotAdd(o, A, BT, i * DOT_K + 16 * k, j * DOT_K + 16 * k)
  BY DEF StepOf
<1>3. \A o : DotCell(o, A, BT, i, j) = LoopOf(c(o), 0, 0, upto) BY <1>1, DotCellLoop
<1>4. ASSUME NEW k \in 0..upto
      PROVE  DotAdd(m, A, BT, i * DOT_K + 16 * k, j * DOT_K + 16 * k)
               = DotAdd(n, A, BT, i * DOT_K + 16 * k, j * DOT_K + 16 * k)
  <2>1. k \in Nat /\ 16 * k + 15 < DOT_K BY <1>1
  <2>2. ASSUME NEW r \in 0..(DOT_M - 1)
        PROVE  r * DOT_K + 16 * k \in Nat /\ r * DOT_K + 16 * k + 15 < DOT_M * DOT_K
    <3>1. r * DOT_K \in Nat /\ DOT_M * DOT_K \in Nat BY <1>1
    <3>2. (r + 1) * DOT_K <= DOT_M * DOT_K BY <1>1
    <3>3. (r + 1) * DOT_K = r * DOT_K + DOT_K BY <1>1
    <3>. QED BY <1>1, <2>1, <3>1, <3>2, <3>3
  <2> DEFINE a == i * DOT_K + 16 * k
             b == j * DOT_K + 16 * k
  <2>3. a \in Nat /\ b \in Nat /\ a + 15 < DOT_M * DOT_K /\ b + 15 < DOT_M * DOT_K BY <2>2
  <2> HIDE DEF a, b
  <2>4. DotAdd(m, A, BT, a, b) = DotAdd(n, A, BT, a, b) BY <2>3, DotAddExact
  <2>. QED BY <2>4 DEF a, b
<1>5. \A k \in 0..upto : \A acc : StepOf(c(m), acc, k) = StepOf(c(n), acc, k)
  <2> HIDE DEF c, upto
  <2>. QED BY <1>2, <1>4
<1> HIDE DEF c, upto
<1>6. LoopOf(c(m), 0, 0, upto) = LoopOf(c(n), 0, 0, upto) BY <1>1, <1>5, LoopsAgree
<1>. QED BY <1>3, <1>6

LEMMA DotsAgree ==
    ASSUME NEW x, NEW m \in Implementations, NEW n \in Implementations
    PROVE  DotOf(m, x) = DotOf(n, x)
<1> DEFINE A == DotDrawn(x).A
           BT == DotDrawn(x).BT
           c(o) == [kind |-> "dot", impl |-> o, a |-> A, bt |-> BT]
           upto == DOT_M * DOT_M - 1
<1>1. InBytes(A) /\ InSevenBits(BT) BY DotOperands
<1>2. DOT_M \in Nat /\ upto \in Int /\ 0 \in Int BY RelaxedAssumption
<1> HIDE DEF A, BT
<1>3. \A o : dot_kernel(o, A, BT) = DotRounds(o, A, BT) BY Zenon DEF dot_kernel, DotRounds, DotCell
<1>4. \A o : DotRounds(o, A, BT) = LoopOf(c(o), 0, 0, upto) BY <1>2, DotRoundsLoop
<1>5. \A o, acc, k :
        StepOf(c(o), acc, k) = Wrap(RotateLeft(acc, 3) + DotCell(o, A, BT, k \div DOT_M, k % DOT_M))
  BY DEF StepOf
<1>6. ASSUME NEW k \in 0..upto PROVE k \div DOT_M \in 0..(DOT_M - 1) /\ k % DOT_M \in 0..(DOT_M - 1)
  <2>1. DOT_M # 0 BY <1>2
  <2>2. k \in Nat /\ k < DOT_M * DOT_M BY <1>2
  <2>3. k % DOT_M \in 0..(DOT_M - 1) BY <1>2, <2>1, <2>2
  <2>4. k \div DOT_M \in Nat /\ DOT_M * (k \div DOT_M) <= k BY <1>2, <2>1, <2>2
  <2>5. k \div DOT_M < DOT_M
    <3>1. SUFFICES ASSUME DOT_M <= k \div DOT_M PROVE FALSE BY <1>2, <2>4
    <3>2. DOT_M * DOT_M <= DOT_M * (k \div DOT_M) BY <1>2, <2>4, <3>1
    <3>. QED BY <1>2, <2>2, <2>4, <3>2
  <2>. QED BY <1>2, <2>3, <2>4, <2>5
<1> HIDE DEF c, upto
<1>7. \A k \in 0..upto : \A acc : StepOf(c(m), acc, k) = StepOf(c(n), acc, k)
  <2>1. \A k \in 0..upto :
          DotCell(m, A, BT, k \div DOT_M, k % DOT_M) = DotCell(n, A, BT, k \div DOT_M, k % DOT_M)
    BY <1>1, <1>6, DotCellsAgree
  <2>. QED BY <1>5, <2>1
<1>8. LoopOf(c(m), 0, 0, upto) = LoopOf(c(n), 0, 0, upto) BY <1>2, <1>7, LoopsAgree
<1>. QED BY <1>3, <1>4, <1>8 DEF DotOf, A, BT

\* A number below 2^MANTISSA is a float as it stands.
LEMMA RoundExact ==
    ASSUME NEW x \in Int, -Two(MANTISSA) < x, x < Two(MANTISSA)
    PROVE  Round(x) = x
<1> DEFINE m == IF x < 0 THEN -x ELSE x
           IsE(k) == m < 2^(MANTISSA + k) /\ (k > 0 => m >= 2^(MANTISSA + k - 1))
           e == CHOOSE k \in 0..(2 * WORD) : IsE(k)
           q == m \div 2^e
           up == 2 * (m % 2^e) > 2^e \/ (2 * (m % 2^e) = 2^e /\ q % 2 = 1)
           r == 2^e * (q + IF up THEN 1 ELSE 0)
<1>1. Round(x) = IF x < 0 THEN -r ELSE r BY Zenon DEF Round
<1>2. MANTISSA \in Nat /\ MANTISSA \in 0..Limit /\ 0 \in 0..(2 * WORD) BY WordsAssumption DEF Limit
<1>3. m \in Nat /\ m < Two(MANTISSA) BY <1>2, TwoPositive
<1>4. x = IF x < 0 THEN -m ELSE m OBVIOUS
<1> HIDE DEF m
<1>5. IsE(0)
  <2>1. MANTISSA + 0 = MANTISSA BY <1>2
  <2>. QED BY <1>3, <2>1 DEF Two
<1>6. ASSUME NEW k \in 0..(2 * WORD), IsE(k) PROVE k = 0
  <2>1. SUFFICES ASSUME k > 0 PROVE FALSE BY WordsAssumption
  <2>2. MANTISSA + k - 1 \in Nat /\ MANTISSA <= MANTISSA + k - 1 /\ MANTISSA + k - 1 <= Limit
    BY <1>2, <2>1, WordsAssumption DEF Limit
  <2>3. Two(MANTISSA) <= Two(MANTISSA + k - 1) BY <1>2, <2>2, TwoMonotone
  <2>4. m >= Two(MANTISSA + k - 1) BY <1>6, <2>1 DEF Two
  <2>5. Two(MANTISSA) \in Nat /\ Two(MANTISSA + k - 1) \in Nat BY <1>2, <2>2, TwoPositive
  <2>. QED BY <1>3, <2>3, <2>4, <2>5
<1> HIDE DEF IsE
<1>7. e \in 0..(2 * WORD) /\ IsE(e) BY <1>2, <1>5, Zenon
<1>8. e = 0 BY <1>6, <1>7
<1>9. 2^e = 1 BY <1>8, PowersOfTwo
<1>10. q = m /\ m % 2^e = 0 BY <1>3, <1>9
<1> HIDE DEF e
<1>11. ~up BY <1>9, <1>10
<1>12. r = m BY <1>3, <1>9, <1>10, <1>11
<1>. QED BY <1>1, <1>4, <1>12

Three(n) == 3^n
MaddBound(d) == 2 * Three(d + 1) - 2

LEMMA ThreeSteps ==
    /\ DEG \in Nat /\ Three(0) = 1 /\ \A n \in Nat : n <= DEG => Three(n + 1) = 3 * Three(n)
    /\ 2 * Three(DEG + 1) <= Two(MANTISSA) /\ Two(MANTISSA) \in Nat
<1>1. MANTISSA \in 0..Limit BY WordsAssumption DEF Limit
<1>2. Two(MANTISSA) \in Nat BY <1>1, TwoPositive
<1>. QED BY <1>2, RelaxedAssumption, PowersOfThree DEF Three, Two

\* What a polynomial of degree d can be: coefficients up to 4, points up to 3.
LEMMA MaddBounds ==
    /\ MaddBound(0) = 4
    /\ \A d \in 0..DEG : MaddBound(d) \in Nat /\ MaddBound(d) < Two(MANTISSA)
    /\ \A d \in 0..(DEG - 1) : MaddBound(d + 1) = 3 * MaddBound(d) + 4
<1>1. Three(0 + 1) = 3 * Three(0) BY ThreeSteps
<1>2. MaddBound(0) = 4 BY <1>1, ThreeSteps DEF MaddBound
<1> DEFINE A == {n \in Nat : n <= DEG + 1 => Three(n) \in Nat \ {0}}
<1>3. 0 \in A BY ThreeSteps
<1>4. ASSUME NEW n \in Nat, n \in A PROVE n + 1 \in A
  <2>1. SUFFICES ASSUME n + 1 <= DEG + 1 PROVE Three(n + 1) \in Nat \ {0} OBVIOUS
  <2>2. n <= DEG /\ n <= DEG + 1 BY <2>1, ThreeSteps
  <2>. QED BY <1>4, <2>2, ThreeSteps
<1>5. \A n \in 0..(DEG + 1) : n \in A
  <2> HIDE DEF A
  <2>. QED BY <1>3, <1>4, ThreeSteps, Induction
<1>6. \A n \in 0..(DEG + 1) : Three(n) \in Nat \ {0} BY <1>5, ThreeSteps
<1> HIDE DEF A
<1>7. \A d \in 0..(DEG - 1) : MaddBound(d + 1) = 3 * MaddBound(d) + 4
  <2>1. ASSUME NEW d \in 0..(DEG - 1) PROVE MaddBound(d + 1) = 3 * MaddBound(d) + 4
    <3>1. d + 1 \in Nat /\ d + 1 <= DEG /\ d + 1 \in 0..(DEG + 1) BY ThreeSteps
    <3>2. Three((d + 1) + 1) = 3 * Three(d + 1) BY <3>1, ThreeSteps
    <3>3. Three(d + 1) \in Nat BY <1>6, <3>1
    <3>. QED BY <3>2, <3>3 DEF MaddBound
  <2>. QED BY <2>1
<1>8. ASSUME NEW d \in 0..DEG PROVE MaddBound(d) \in Nat
  <2>1. d + 1 \in 0..(DEG + 1) BY ThreeSteps
  <2>2. Three(d + 1) \in Nat \ {0} BY <1>6, <2>1
  <2>. QED BY <2>2 DEF MaddBound
<1>9. \A d \in 0..DEG : MaddBound(d) < Two(MANTISSA)
  <2> DEFINE B == {n \in Nat : n <= DEG => MaddBound(DEG - n) <= MaddBound(DEG)}
  <2>1. DEG \in Nat BY ThreeSteps
  <2>2. 0 \in B
    <3>1. MaddBound(DEG) \in Nat /\ DEG - 0 = DEG BY <1>8, <2>1
    <3>. QED BY <3>1
  <2>3. ASSUME NEW n \in Nat, n \in B PROVE n + 1 \in B
    <3>1. SUFFICES ASSUME n + 1 <= DEG PROVE MaddBound(DEG - (n + 1)) <= MaddBound(DEG) OBVIOUS
    <3>2. DEG - (n + 1) \in 0..(DEG - 1) /\ (DEG - (n + 1)) + 1 = DEG - n /\ n <= DEG BY <2>1, <3>1
    <3>3. MaddBound(DEG - n) = 3 * MaddBound(DEG - (n + 1)) + 4 BY <1>7, <3>2
    <3>4. MaddBound(DEG - (n + 1)) \in Nat /\ MaddBound(DEG - n) \in Nat /\ MaddBound(DEG) \in Nat
      <4>1. DEG - (n + 1) \in 0..DEG /\ DEG - n \in 0..DEG /\ DEG \in 0..DEG BY <2>1, <3>1
      <4>. QED BY <1>8, <4>1
    <3>5. MaddBound(DEG - n) <= MaddBound(DEG) BY <2>3, <3>2
    <3>. QED BY <3>3, <3>4, <3>5
  <2>4. \A n \in 0..DEG : n \in B
    <3> HIDE DEF B
    <3>. QED BY <2>1, <2>2, <2>3, Induction
  <2>5. ASSUME NEW d \in 0..DEG PROVE MaddBound(d) < Two(MANTISSA)
    <3>1. DEG - d \in 0..DEG /\ DEG - (DEG - d) = d /\ DEG \in 0..DEG BY <2>1
    <3>2. MaddBound(d) <= MaddBound(DEG) BY <2>4, <3>1
    <3>3. Three(DEG + 1) \in Nat
      <4>1. DEG + 1 \in 0..(DEG + 1) BY <2>1
      <4>. QED BY <1>6, <4>1
    <3>4. MaddBound(DEG) < Two(MANTISSA) BY <3>3, ThreeSteps DEF MaddBound
    <3>5. MaddBound(d) \in Nat /\ MaddBound(DEG) \in Nat BY <1>8, <3>1
    <3>. QED BY <3>2, <3>4, <3>5, ThreeSteps
  <2>. QED BY <2>5
<1>. QED BY <1>2, <1>7, <1>8, <1>9

InPoints(x) == x \in (-3)..3
InCoefficients(f) == \A d \in 0..DEG : f[d] \in (-4)..4

\* A step of Horner's rule is exact, rounded once or twice.
LEMMA HornerStep ==
    ASSUME NEW d \in 0..(DEG - 1), NEW p \in Int, -MaddBound(d) <= p, p <= MaddBound(d),
           NEW x, InPoints(x), NEW c \in (-4)..4, NEW m \in Implementations
    PROVE  /\ f32x4_relaxed_madd(m, p, x, c) = c + p * x
           /\ c + p * x \in Int /\ -MaddBound(d + 1) <= c + p * x /\ c + p * x <= MaddBound(d + 1)
<1> DEFINE b == MaddBound(d)
           e == MaddBound(d + 1)
<1>1. DEG \in Nat /\ d \in 0..DEG /\ d + 1 \in 0..DEG BY ThreeSteps
<1>2. b \in Nat /\ e \in Nat /\ e = 3 * b + 4 /\ e < Two(MANTISSA) /\ Two(MANTISSA) \in Nat
  BY <1>1, MaddBounds, ThreeSteps
<1> HIDE DEF b, e
<1>3. x \in Int /\ -3 <= x /\ x <= 3 BY DEF InPoints
<1>4. p * x \in Int /\ -(3 * b) <= p * x /\ p * x <= 3 * b
  <2>1. -b <= p /\ p <= b BY DEF b
  <2>2. x \in {-3, -2, -1, 0, 1, 2, 3} BY <1>3
  <2>. QED BY <1>2, <2>1, <2>2
<1>5. c + p * x \in Int /\ -e <= c + p * x /\ c + p * x <= e BY <1>2, <1>4
<1>6. Round(p * x) = p * x BY <1>2, <1>4, RoundExact
<1>7. Round(c + p * x) = c + p * x BY <1>2, <1>5, RoundExact
<1>8. f32x4_relaxed_madd(m, p, x, c) = c + p * x
  BY <1>6, <1>7 DEF f32x4_relaxed_madd, MulAdd, MulThenAdd
<1>. QED BY <1>5, <1>8 DEF e

LEMMA HornersAgree ==
    ASSUME NEW COEF, InCoefficients(COEF), NEW x, InPoints(x), NEW m \in Implementations,
             NEW n \in Implementations
    PROVE  HornerOf(m, COEF, x) = HornerOf(n, COEF, x)
<1> DEFINE c(o) == [kind |-> "horner", impl |-> o, coef |-> COEF, x |-> x]
           p(o, k) == LoopOf(c(o), COEF[DEG], 1, k)
           Same(k) == p(m, k) = p(n, k) /\ p(m, k) \in Int /\ -MaddBound(k) <= p(m, k)
             /\ p(m, k) <= MaddBound(k)
           A == {k \in Nat : k <= DEG => Same(k)}
<1>1. DEG \in Nat /\ 1 \in Int /\ DEG \in Int BY ThreeSteps
<1>2. \A o : HornerOf(o, COEF, x) = p(o, DEG) BY <1>1, HornerOfLoop
<1>3. \A o, acc, k : StepOf(c(o), acc, k) = f32x4_relaxed_madd(o, acc, x, COEF[DEG - k])
  BY DEF StepOf
<1> HIDE DEF c
<1>4. \A o : p(o, 0) = COEF[DEG]
  <2>1. 1 \in Int /\ 0 \in Int /\ 0 < 1 OBVIOUS
  <2>. QED BY <2>1, LoopStarts
<1>5. \A o : \A k \in Nat : p(o, k + 1) = f32x4_relaxed_madd(o, p(o, k), x, COEF[DEG - (k + 1)])
  <2>1. ASSUME NEW o, NEW k \in Nat
        PROVE  p(o, k + 1) = f32x4_relaxed_madd(o, p(o, k), x, COEF[DEG - (k + 1)])
    <3>1. 1 \in Int /\ k + 1 \in Int /\ 1 <= k + 1 /\ (k + 1) - 1 = k OBVIOUS
    <3>2. LoopOf(c(o), COEF[DEG], 1, k + 1)
            = StepOf(c(o), LoopOf(c(o), COEF[DEG], 1, (k + 1) - 1), k + 1)
      BY <3>1, LoopContinues
    <3>. QED BY <1>3, <3>1, <3>2
  <2>. QED BY <2>1
<1> HIDE DEF p
<1>6. Same(0)
  <2>1. COEF[DEG] \in (-4)..4 BY <1>1 DEF InCoefficients
  <2>. QED BY <1>4, <2>1, MaddBounds
<1>7. ASSUME NEW k \in Nat, k < DEG, Same(k) PROVE Same(k + 1)
  <2>1. k \in 0..(DEG - 1) /\ DEG - (k + 1) \in 0..DEG BY <1>1, <1>7
  <2>2. COEF[DEG - (k + 1)] \in (-4)..4 BY <2>1 DEF InCoefficients
  <2> DEFINE v == COEF[DEG - (k + 1)] + p(m, k) * x
  <2>3. /\ f32x4_relaxed_madd(m, p(m, k), x, COEF[DEG - (k + 1)]) = v
        /\ f32x4_relaxed_madd(n, p(m, k), x, COEF[DEG - (k + 1)]) = v
        /\ v \in Int /\ -MaddBound(k + 1) <= v /\ v <= MaddBound(k + 1)
    BY <1>7, <2>1, <2>2, HornerStep
  <2>4. p(m, k + 1) = v /\ p(n, k + 1) = v BY <1>5, <1>7, <2>3
  <2> HIDE DEF v
  <2>. QED BY <2>3, <2>4
<1>8. Same(DEG)
  <2> HIDE DEF Same
  <2>1. 0 \in A BY <1>6
  <2>2. \A k \in 0..(DEG - 1) : k \in A => k + 1 \in A BY <1>1, <1>7
  <2> HIDE DEF A
  <2>3. \A k \in 0..DEG : k \in A BY <1>1, <2>1, <2>2, Induction
  <2>. QED BY <1>1, <2>3 DEF A
<1>. QED BY <1>2, <1>8

LEMMA MaddOperands ==
    ASSUME NEW x
    PROVE  (\A i \in 0..(NPTS - 1) : InPoints(MaddDrawn(x).X[i]))
             /\ InCoefficients(MaddDrawn(x).COEF)
<1> DEFINE s == Xor(x, Wrap(\h79B9))
           n == NPTS + DEG + 1
           w == LcgWords(s, n)
<1>1. s \in Int /\ n \in Nat BY XorNat, RelaxedAssumption
<1> HIDE DEF s
<1>2. \A i \in 1..n : HighBits(w[i], BYTE) \in Nat
  <2> HIDE DEF n
  <2>. QED BY <1>1, WordsDrawn, TopByte
<1>3. MaddDrawn(x) = [X |-> [i \in 0..(NPTS - 1) |-> (HighBits(w[i + 1], BYTE) % 7) - 3],
                      COEF |-> [c \in 0..DEG |-> (HighBits(w[NPTS + c + 1], BYTE) % 9) - 4]]
  BY DEF MaddDrawn, s
<1> HIDE DEF w
<1>4. ASSUME NEW i \in 0..(NPTS - 1) PROVE InPoints(MaddDrawn(x).X[i])
  <2>1. i + 1 \in 1..n BY RelaxedAssumption
  <2>2. HighBits(w[i + 1], BYTE) \in Nat BY <1>2, <2>1
  <2>. QED BY <1>3, <2>2 DEF InPoints
<1>5. ASSUME NEW c \in 0..DEG PROVE MaddDrawn(x).COEF[c] \in (-4)..4
  <2>1. NPTS + c + 1 \in 1..n BY RelaxedAssumption
  <2>2. HighBits(w[NPTS + c + 1], BYTE) \in Nat BY <1>2, <2>1
  <2>. QED BY <1>3, <2>2
<1>. QED BY <1>4, <1>5 DEF InCoefficients

LEMMA MaddsAgree ==
    ASSUME NEW x, NEW m \in Implementations, NEW n \in Implementations
    PROVE  MaddOf(m, x) = MaddOf(n, x)
<1> DEFINE Pts == MaddDrawn(x).X
           COEF == MaddDrawn(x).COEF
           c(o) == [kind |-> "madd", impl |-> o, coef |-> COEF, x |-> Pts]
           zero == [l \in Lanes |-> 0]
           upto == NPTS \div 4 - 1
<1>1. (\A i \in 0..(NPTS - 1) : InPoints(Pts[i])) /\ InCoefficients(COEF) BY MaddOperands
<1>2. NPTS \in Nat /\ upto \in Int /\ 0 \in Int BY RelaxedAssumption
<1> HIDE DEF Pts, COEF
<1>3. \A o : MaddRounds(o, Pts, COEF) = LoopOf(c(o), zero, 0, upto) BY <1>2, MaddRoundsLoop
<1>4. \A o, acc, k :
        StepOf(c(o), acc, k) = [l \in Lanes |-> Wrap(acc[l] * 31 + HornerOf(o, COEF, Pts[4 * k + l]))]
  BY DEF StepOf
<1> HIDE DEF c
<1>5. \A k \in 0..upto : \A acc : StepOf(c(m), acc, k) = StepOf(c(n), acc, k)
  <2>1. ASSUME NEW k \in 0..upto, NEW l \in Lanes
        PROVE  HornerOf(m, COEF, Pts[4 * k + l]) = HornerOf(n, COEF, Pts[4 * k + l])
    <3>1. 4 * k + l \in 0..(NPTS - 1) BY <1>2 DEF Lanes
    <3>. QED BY <1>1, <3>1, HornersAgree
  <2> HIDE DEF upto
  <2>. QED BY <1>4, <2>1
<1> HIDE DEF zero, upto
<1>6. MaddRounds(m, Pts, COEF) = MaddRounds(n, Pts, COEF)
  <2>1. LoopOf(c(m), zero, 0, upto) = LoopOf(c(n), zero, 0, upto) BY <1>2, <1>5, LoopsAgree
  <2>. QED BY <1>3, <2>1
<1> DEFINE Of(acc) == LET Turned(l) == RotateLeft(acc[l], l * (WORD \div 4))
                      IN Xor(Xor(Turned(0), Turned(1)), Xor(Turned(2), Turned(3)))
<1>7. \A o : madd_kernel(o, Pts, COEF) = Of(MaddRounds(o, Pts, COEF))
  BY Zenon DEF madd_kernel, MaddRounds, HornerOf
<1>8. madd_kernel(m, Pts, COEF) = madd_kernel(n, Pts, COEF)
  <2> HIDE DEF Of
  <2>. QED BY <1>6, <1>7
<1>. QED BY <1>8 DEF MaddOf, Pts, COEF

\* A result of the relaxed kernels is that of the operands its own seed draws.
ResultsDrawn ==
    /\ last.export = "relaxed_dot" /\ last.arg # MinWord =>
         module = "relaxed_kernels" /\ last.result = DotOf(impl, last.arg)
    /\ last.export = "relaxed_madd" /\ last.arg # MinWord =>
         module = "relaxed_kernels" /\ last.result = MaddOf(impl, last.arg)

LEMMA ResultsStartDrawn == InstanceInit => ResultsDrawn
BY DEF InstanceInit, NoCall, ResultsDrawn

LEMMA ResultsStayDrawn == InstanceInv /\ ResultsDrawn /\ [InstanceNext]_instance_vars
  => ResultsDrawn'
<1>1. SUFFICES ASSUME InstanceInv, ResultsDrawn, [InstanceNext]_instance_vars
               PROVE  ResultsDrawn'
  OBVIOUS
<1>2. CASE UNCHANGED instance_vars BY <1>1, <1>2 DEF instance_vars, ResultsDrawn
<1>3. ASSUME NEW export \in Exports[module], NEW x \in ArgumentsOf(export), Call(export, x)
      PROVE  ResultsDrawn'
  <2>1. /\ module' = module /\ impl' = impl
        /\ last' = [export |-> export, arg |-> x, result |-> Run(export, statics, impl, x).result]
    BY <1>3 DEF Call
  <2>2. last'.export = export /\ last'.arg = x
          /\ last'.result = Run(export, statics, impl, x).result BY <2>1
  <2>3. ASSUME export = "relaxed_dot", x # MinWord
        PROVE  module = "relaxed_kernels" /\ Run(export, statics, impl, x).result = DotOf(impl, x)
    <3>1. module = "relaxed_kernels" BY <1>1, <2>3 DEF Exports, InstanceInv
    <3>2. Run("relaxed_dot", statics, impl, x).result = DotOf(impl, x)
      BY <1>1, <2>3, <3>1, DotRuns DEF InstanceInv, StaticsInv
    <3>. QED BY <2>3, <3>1, <3>2
  <2>4. ASSUME export = "relaxed_madd", x # MinWord
        PROVE  module = "relaxed_kernels" /\ Run(export, statics, impl, x).result = MaddOf(impl, x)
    <3>1. module = "relaxed_kernels" BY <1>1, <2>4 DEF Exports, InstanceInv
    <3>2. Run("relaxed_madd", statics, impl, x).result = MaddOf(impl, x)
      BY <1>1, <2>4, <3>1, MaddRuns DEF InstanceInv, StaticsInv
    <3>. QED BY <2>4, <3>1, <3>2
  <2>. QED BY <2>1, <2>2, <2>3, <2>4 DEF ResultsDrawn
<1>. QED BY <1>1, <1>2, <1>3 DEF InstanceNext

\* WordsFrom operands lie where no choice of the runtime shows.
LEMMA ChoicesAgree == InstanceInv /\ ResultsDrawn => RelaxedChoicesAgree
<1>1. SUFFICES ASSUME InstanceInv, ResultsDrawn, last.export \in {"relaxed_dot", "relaxed_madd"},
                      last.arg # MinWord, NEW i \in Implementations
               PROVE  Run(last.export, FreshStatics(module), i, last.arg).result = last.result
  BY DEF RelaxedChoicesAgree
<1>2. impl \in Implementations BY <1>1 DEF InstanceInv
<1>3. CASE last.export = "relaxed_dot"
  <2>1. module = "relaxed_kernels" /\ last.result = DotOf(impl, last.arg)
    BY <1>1, <1>3 DEF ResultsDrawn
  <2>2. Run("relaxed_dot", FreshStatics("relaxed_kernels"), i, last.arg).result = DotOf(i, last.arg)
    BY <1>1, DotRuns, FreshStaticsOf
  <2>. QED BY <1>1, <1>2, <1>3, <2>1, <2>2, DotsAgree
<1>4. CASE last.export = "relaxed_madd"
  <2>1. module = "relaxed_kernels" /\ last.result = MaddOf(impl, last.arg)
    BY <1>1, <1>4 DEF ResultsDrawn
  <2>2. Run("relaxed_madd", FreshStatics("relaxed_kernels"), i, last.arg).result
          = MaddOf(i, last.arg)
    BY <1>1, MaddRuns, FreshStaticsOf
  <2>. QED BY <1>1, <1>2, <1>4, <2>1, <2>2, MaddsAgree
<1>. QED BY <1>1, <1>3, <1>4

\* However a runtime executes the relaxed instructions, relaxed_kernels has one result per
\* seed: the operands stay where wrapping, saturation, signedness and rounding coincide.
THEOREM RelaxedChoicesAlwaysAgree == InstanceSpec => []RelaxedChoicesAgree
<1>1. InstanceInit => InstanceInv /\ ResultsDrawn BY InstanceStarts, ResultsStartDrawn
<1>2. InstanceInv /\ ResultsDrawn /\ [InstanceNext]_instance_vars => (InstanceInv /\ ResultsDrawn)'
  BY InstanceSteps, ResultsStayDrawn
<1>. QED BY <1>1, <1>2, ChoicesAgree, PTL DEF InstanceSpec
=============================================================================
