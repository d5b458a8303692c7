--------------------------- MODULE ReadData_proofs ---------------------------
(***************************************************************************)
(* Proofs about the reader of the stream, for any messages and any widths, *)
(* and however TCP cuts the stream up: as long as each size is stored in   *)
(* one piece and each bare read gets what it asks for, the server starts   *)
(* every read at the first byte of the field it is meant for and asks for  *)
(* as many bytes as the client sent.                                       *)
(***************************************************************************)
EXTENDS ReadData, TLAPS, SequenceTheorems, WellFoundedInduction

\* The reader is at its field: it knows what that is and how much of it has
\* been consumed; the cursor runs IntSize times as fast.
AtField ==
    /\ field <= NFields
    /\ is = Fields[field].is /\ want = Fields[field].width
    /\ is # "type" => kind = Fields[field].kind
    /\ consumed = Offset[field] + (want - to_read)
    /\ tmp = IntSize * (want - to_read)

ReadInv ==
    /\ field \in 1..(NFields + 1) /\ want \in Nat /\ to_read \in 0..want
    /\ consumed \in Nat /\ avail \in Nat /\ tmp \in Nat
    /\ ~cut /\ status = "reading" => AtField

-----------------------------------------------------------------------------
(* Fields and Offset *)

\* A set that holds 0 and with each number its successor holds every number.
LEMMA SetInduction ==
    ASSUME NEW S, 0 \in S, \A n \in Nat : n \in S => n + 1 \in S
    PROVE  Nat \subseteq S
<1> DEFINE T == Nat \ S
           Rel == OpToRel(<, Nat)
<1> SUFFICES ASSUME T # {} PROVE FALSE
    OBVIOUS
<1>1. IsWellFoundedOn(Rel, Nat)
    BY NatLessThanWellFounded
<1>2. T \subseteq Nat
    OBVIOUS
<1>3. PICK x \in T : \A y \in T : ~(<<y, x>> \in Rel)
  <2> HIDE DEF Rel, T
  <2> QED
      BY <1>1, <1>2, WFMin
<1>4. x \in Nat /\ x # 0 /\ x - 1 \in Nat /\ x - 1 < x /\ (x - 1) + 1 = x
    OBVIOUS
<1>5. <<x - 1, x>> \in Rel
    BY <1>4 DEF OpToRel
<1>6. x - 1 \in S
    BY <1>3, <1>4, <1>5
<1> QED
    BY <1>4, <1>6

\* What is assumed of the messages, field by field.
LEMMA FieldsType ==
    /\ NFields \in Nat /\ NFields > 0
    /\ \A k \in 1..NFields : /\ Fields[k].width \in Nat /\ Fields[k].width > 0
                             /\ Fields[k].kind \in Kinds
    /\ IntSize \in Nat /\ IntSize > 0
    /\ SizeWidth \in Nat /\ TimeWidth \in Nat
<1>1. /\ Fields \in Seq([is : Parts, kind : Kinds, width : Nat \ {0}]) /\ Fields # <<>>
      /\ IntSize \in Nat \ {0} /\ SizeWidth \in Nat \ {0} /\ TimeWidth \in Nat \ {0}
    BY ReadAssumption
<1>2. NFields \in Nat /\ NFields > 0
    BY <1>1, LenProperties, EmptySeq DEF NFields
<1>3. \A k \in 1..NFields : Fields[k] \in [is : Parts, kind : Kinds, width : Nat \ {0}]
    BY <1>1, ElementOfSeq DEF NFields
<1> QED
    BY <1>1, <1>2, <1>3

LEMMA FieldsOrder ==
    ASSUME NEW k \in 1..NFields
    PROVE  /\ Fields[1].is = "type" /\ Fields[1].width = 1
           /\ Fields[k].is # "time" => k + 1 \in 1..NFields
           /\ Fields[k].kind # "END" => k + 1 \in 1..NFields
           /\ k + 1 \in 1..NFields =>
                 /\ Fields[k + 1].is = After(Fields[k].is, Fields[k].kind)
                 /\ Fields[k].is # "time" => Fields[k + 1].kind = Fields[k].kind
                 /\ Fields[k + 1].is = "type" => Fields[k + 1].width = 1
                 /\ Fields[k + 1].is = "size" => Fields[k + 1].width = SizeWidth
                 /\ Fields[k + 1].is = "time" => Fields[k + 1].width = TimeWidth
<1> USE FieldsType
<1>1. k # NFields => k \in 1..(NFields - 1) /\ k + 1 \in 1..NFields
    OBVIOUS
<1>2. k + 1 \in 1..NFields => k # NFields
    OBVIOUS
<1>3. 1 \in 1..NFields
    OBVIOUS
<1> QED
    BY <1>1, <1>2, <1>3, ReadAssumption

\* The recursion defines a function.
LEMMA OffsetDef ==
    Offset = [k \in 1..NFields + 1 |-> IF k = 1 THEN 0 ELSE Offset[k - 1] + Fields[k - 1].width]
<1> DEFINE IsOffset(f, n) ==
             f = [k \in 1..n + 1 |-> IF k = 1 THEN 0 ELSE f[k - 1] + Fields[k - 1].width]
           S == {n \in Nat : \E f : IsOffset(f, n)}
<1>1. 0 \in S
  <2>1. IsOffset([k \in 1..1 |-> 0], 0)
      OBVIOUS
  <2> QED
      BY <2>1
<1>2. ASSUME NEW n \in Nat, n \in S PROVE n + 1 \in S
  <2>1. PICK f : IsOffset(f, n)
      BY <1>2
  <2> DEFINE g == [k \in 1..(n + 1) + 1 |->
                      IF k = n + 2 THEN f[n + 1] + Fields[n + 1].width ELSE f[k]]
  <2>2. ASSUME NEW k \in 1..(n + 1) + 1
        PROVE  g[k] = IF k = 1 THEN 0 ELSE g[k - 1] + Fields[k - 1].width
    <3>1. CASE k = n + 2
      <4>1. k - 1 = n + 1 /\ k - 1 \in 1..(n + 1) + 1 /\ k - 1 # n + 2 /\ k # 1
          BY <3>1
      <4> QED
          BY <3>1, <4>1
    <3>2. CASE k # n + 2
      <4>1. k \in 1..n + 1
          BY <3>2
      <4>2. g[k] = f[k] /\ f[k] = IF k = 1 THEN 0 ELSE f[k - 1] + Fields[k - 1].width
          BY <2>1, <3>2, <4>1
      <4>3. k # 1 => g[k - 1] = f[k - 1]
          BY <4>1
      <4> QED
          BY <4>2, <4>3
    <3> QED
        BY <3>1, <3>2
  <2>3. IsOffset(g, n + 1)
    <3>1. g = [k \in 1..(n + 1) + 1 |-> g[k]]
        OBVIOUS
    <3> HIDE DEF g
    <3> QED
        BY <2>2, <3>1
  <2> HIDE DEF g
  <2> QED
      BY <2>3
<1>3. NFields \in S
  <2> HIDE DEF S
  <2> QED
      BY <1>1, <1>2, SetInduction, FieldsType
<1>4. \E f : IsOffset(f, NFields)
    BY <1>3
<1> QED
    BY <1>4 DEF Offset

LEMMA OffsetNext ==
    /\ Offset[1] = 0
    /\ \A k \in 1..NFields : Offset[k + 1] = Offset[k] + Fields[k].width
    /\ \A k \in 1..(NFields + 1) : Offset[k] \in Nat
<1> USE FieldsType
<1>1. Offset[1] = 0
    BY OffsetDef
<1>2. \A k \in 1..NFields : Offset[k + 1] = Offset[k] + Fields[k].width
  <2> TAKE k \in 1..NFields
  <2>1. k + 1 \in 1..NFields + 1 /\ k + 1 # 1 /\ (k + 1) - 1 = k
      OBVIOUS
  <2> QED
      BY <2>1, OffsetDef
<1> DEFINE S == {n \in Nat : n <= NFields => Offset[n + 1] \in Nat}
<1>3. 0 \in S
    BY <1>1
<1>4. ASSUME NEW n \in Nat, n \in S PROVE n + 1 \in S
  <2>1. n + 1 <= NFields => Offset[(n + 1) + 1] = Offset[n + 1] + Fields[n + 1].width
      BY <1>2
  <2> QED
      BY <1>4, <2>1
<1>5. Nat \subseteq S
  <2> HIDE DEF S
  <2> QED
      BY <1>3, <1>4, SetInduction
<1>6. \A k \in 1..(NFields + 1) : Offset[k] \in Nat
  <2> TAKE k \in 1..(NFields + 1)
  <2>1. k - 1 \in Nat /\ k - 1 <= NFields /\ (k - 1) + 1 = k
      OBVIOUS
  <2> QED
      BY <1>5, <2>1
<1> QED
    BY <1>1, <1>2, <1>6

\* The fields take room: no two of them end at the same byte.
LEMMA OffsetGrows ==
    ASSUME NEW j \in 1..NFields, NEW k \in 1..NFields, Offset[j + 1] = Offset[k + 1]
    PROVE  j = k
<1> USE FieldsType
<1> DEFINE S == {d \in Nat : \A a \in 1..NFields : a + d <= NFields =>
                                 Offset[a] + Fields[a].width <= Offset[(a + d) + 1]}
<1>1. 0 \in S
  <2> SUFFICES ASSUME NEW a \in 1..NFields
               PROVE  Offset[a] + Fields[a].width <= Offset[(a + 0) + 1]
      OBVIOUS
  <2>1. a + 0 = a /\ Offset[a + 1] = Offset[a] + Fields[a].width /\ Offset[a] \in Nat
      BY OffsetNext
  <2> QED
      BY <2>1
<1>2. ASSUME NEW d \in Nat, d \in S PROVE d + 1 \in S
  <2> SUFFICES ASSUME NEW a \in 1..NFields, a + (d + 1) <= NFields
               PROVE  Offset[a] + Fields[a].width <= Offset[(a + (d + 1)) + 1]
      OBVIOUS
  <2> DEFINE b == a + (d + 1)
  <2>1. b \in 1..NFields /\ a + d <= NFields /\ (a + d) + 1 = b
      OBVIOUS
  <2>2. Offset[a] + Fields[a].width <= Offset[b]
      BY <1>2, <2>1
  <2>3. Offset[b + 1] = Offset[b] + Fields[b].width /\ Offset[b] \in Nat /\ Offset[a] \in Nat
      BY <2>1, OffsetNext
  <2> HIDE DEF b
  <2>4. Offset[a] + Fields[a].width <= Offset[b + 1]
      BY <2>1, <2>2, <2>3
  <2> QED
      BY <2>4 DEF b
<1>3. Nat \subseteq S
  <2> HIDE DEF S
  <2> QED
      BY <1>1, <1>2, SetInduction
<1>4. ASSUME NEW a \in 1..NFields, NEW b \in 1..NFields, a < b
      PROVE  Offset[a + 1] < Offset[b + 1]
  <2> DEFINE d == (b - a) - 1
  <2>1. d \in Nat /\ (a + 1) + d = b /\ a + 1 \in 1..NFields
      BY <1>4
  <2>2. Offset[a + 1] + Fields[a + 1].width <= Offset[b + 1]
    <3>1. d \in S
      <4> HIDE DEF S, d
      <4> QED
          BY <1>3, <2>1
    <3> HIDE DEF d
    <3>2. (a + 1) + d <= NFields
        BY <2>1
    <3> QED
        BY <2>1, <3>1, <3>2
  <2>3. Offset[a + 1] \in Nat /\ Offset[b + 1] \in Nat /\ b + 1 \in 1..(NFields + 1)
      BY <2>1, OffsetNext
  <2> QED
      BY <2>1, <2>2, <2>3
<1>5. Offset[j + 1] \in Nat
    BY OffsetNext
<1>6. j < k \/ k < j \/ j = k
    OBVIOUS
<1> QED
    BY <1>4, <1>5, <1>6

-----------------------------------------------------------------------------
(* The reader *)

\* The cursor after n more bytes.
LEMMA Cursor ==
    ASSUME NEW s \in Nat, s > 0, NEW d \in Nat, NEW n \in Nat
    PROVE  s * d + s * n = s * (d + n) /\ (s * d = 0 => d = 0) /\ s * d \in Nat
OBVIOUS

\* A turn of readData that gets n bytes keeps count of them.
LEMMA Fetched ==
    ASSUME ReadInv, NEW n \in Nat, n <= avail, n <= to_read, Fetch(n),
           to_read' = to_read - n, tmp' = tmp + IntSize * n,
           UNCHANGED <<status, callVars, cut>>
    PROVE  ReadInv'
<1>0. /\ want \in Nat /\ to_read \in 0..want /\ field \in 1..(NFields + 1)
      /\ consumed \in Nat /\ avail \in Nat /\ tmp \in Nat /\ IntSize \in Nat /\ IntSize > 0
      /\ Offset[field] \in Nat
    BY OffsetNext, FieldsType DEF ReadInv
<1>1. /\ consumed' = consumed + n /\ avail' = avail - n
      /\ UNCHANGED <<status, kind, is, want, field, cut>>
    BY DEF Fetch, callVars
<1>2. consumed' \in Nat /\ avail' \in Nat /\ tmp' \in Nat /\ to_read' \in 0..want
    BY <1>0, <1>1, Cursor
<1>3. ASSUME AtField PROVE AtField'
  <2> DEFINE d == want - to_read
  <2>1. consumed = Offset[field] + d /\ tmp = IntSize * d
      BY <1>3 DEF AtField
  <2>2. d \in Nat /\ want - to_read' = d + n
      BY <1>0
  <2>3. consumed' = Offset[field] + (d + n)
      BY <1>0, <1>1, <2>1, <2>2
  <2>4. tmp' = IntSize * (d + n)
    <3> HIDE DEF d
    <3> QED
        BY <1>0, <2>1, <2>2, Cursor
  <2>5. Offset' = Offset
      BY DEF Offset, NFields
  <2>6. consumed' = Offset[field] + (want - to_read') /\ tmp' = IntSize * (want - to_read')
      BY <2>2, <2>3, <2>4
  <2> QED
      BY <1>1, <1>3, <2>6 DEF AtField
<1> QED
    BY <1>0, <1>1, <1>2, <1>3 DEF ReadInv

\* A reader at its field, with nothing more wanted of it, has come to its end.
LEMMA FieldEnds ==
    ASSUME ReadInv, AtField, to_read = 0
    PROVE  /\ field \in 1..NFields /\ consumed = Offset[field + 1]
           /\ EndingHere(is) = {field}
<1>1. field \in 1..NFields /\ want \in Nat /\ consumed = Offset[field] + want
    BY FieldsType DEF ReadInv, AtField
<1>2. consumed = Offset[field + 1]
    BY <1>1, OffsetNext DEF AtField
<1>3. \A k \in 1..NFields : Offset[k + 1] = consumed => k = field
    BY <1>1, <1>2, OffsetGrows
<1>4. is = Fields[field].is
    BY DEF AtField
<1> QED
    BY <1>1, <1>2, <1>3, <1>4 DEF EndingHere

\* A read that begins where the field before it ended, and that is what comes
\* after it, is at its field.
LEMMA Begun ==
    ASSUME ReadInv, NEW part, NEW size \in Nat, Begin(part, size),
           consumed' \in Nat, avail' \in Nat,
           (~cut' /\ status' = "reading") =>
               /\ field + 1 \in 1..NFields
               /\ part = Fields[field + 1].is /\ size = Fields[field + 1].width
               /\ part # "type" => kind' = Fields[field + 1].kind
               /\ consumed' = Offset[field + 1]
    PROVE  ReadInv'
<1>1. /\ is' = part /\ want' = size /\ to_read' = size /\ tmp' = 0
      /\ field' = Smaller(field + 1, NFields + 1)
    BY DEF Begin
<1>2. /\ field \in 1..(NFields + 1) /\ NFields \in Nat /\ IntSize \in Nat
      /\ \A k \in 1..(NFields + 1) : Offset[k] \in Nat
    BY FieldsType, OffsetNext DEF ReadInv
<1>3. field' \in 1..(NFields + 1)
    BY <1>1, <1>2 DEF Smaller
<1>4. ASSUME ~cut', status' = "reading" PROVE AtField'
  <2>1. field + 1 \in 1..NFields /\ field' = field + 1
      BY <1>1, <1>2, <1>4 DEF Smaller
  <2>2. consumed' = Offset[field + 1] + (size - size) /\ 0 = IntSize * (size - size)
      BY <1>2, <1>4, <2>1
  <2> QED
      BY <1>1, <1>4, <2>1, <2>2 DEF AtField
<1> QED
    BY <1>1, <1>3, <1>4 DEF ReadInv

\* A step that moves nothing of the reader.
LEMMA Still ==
    ASSUME ReadInv, UNCHANGED <<callVars, to_read, tmp, consumed>>, avail' \in Nat,
           status' = "reading" => status = "reading", ~cut' => ~cut
    PROVE  ReadInv'
BY DEF ReadInv, AtField, callVars

LEMMA TypeHandled ==
    ASSUME ReadInv, HandleType
    PROVE  ReadInv'
<1>1. PICK k \in TypesRead \ {"unknown"} :
          /\ kind' = k
          /\ IF k = "TAG" THEN Begin("size", SizeWidth) ELSE Begin("time", TimeWidth)
    BY DEF HandleType
<1>2. /\ status = "reading" /\ is = "type" /\ to_read = 0
      /\ UNCHANGED <<avail, status, consumed, cut>>
    BY DEF HandleType, Returned
<1> DEFINE part == IF k = "TAG" THEN "size" ELSE "time"
           size == IF k = "TAG" THEN SizeWidth ELSE TimeWidth
<1>3. Begin(part, size) /\ size \in Nat
    BY <1>1, FieldsType
<1>4. consumed' \in Nat /\ avail' \in Nat
    BY <1>2 DEF ReadInv
<1>5. ASSUME ~cut
      PROVE  /\ field + 1 \in 1..NFields
             /\ part = Fields[field + 1].is /\ size = Fields[field + 1].width
             /\ kind' = Fields[field + 1].kind
             /\ consumed = Offset[field + 1]
  <2>1. AtField
      BY <1>2, <1>5 DEF ReadInv
  <2>2. field \in 1..NFields /\ consumed = Offset[field + 1] /\ EndingHere("type") = {field}
      BY <1>2, <2>1, FieldEnds
  <2>3. TypesRead = {Fields[field].kind}
      BY <2>2 DEF TypesRead
  <2>4. k = Fields[field].kind /\ Fields[field].is = "type"
      BY <1>1, <1>2, <2>1, <2>3 DEF AtField
  <2>5. field + 1 \in 1..NFields /\ Fields[field + 1].kind = k /\ Fields[field + 1].is = part
      BY <2>2, <2>4, FieldsOrder DEF After
  <2>6. Fields[field + 1].width = size
      BY <2>2, <2>5, FieldsOrder
  <2> QED
      BY <1>1, <2>2, <2>5, <2>6
<1> HIDE DEF part, size
<1> QED
    BY <1>2, <1>3, <1>4, <1>5, Begun

LEMMA SizeHandled ==
    ASSUME ReadInv, HandleSize
    PROVE  ReadInv'
<1>1. PICK n \in SizesRead : Begin("text", n)
    BY DEF HandleSize
<1>2. /\ status = "reading" /\ is = "size" /\ to_read = 0 /\ cut' = (cut \/ ~InPlace)
      /\ UNCHANGED <<avail, status, kind, consumed>>
    BY DEF HandleSize, Returned
<1>3. n \in Nat
  <2>1. \A k \in EndingHere("size") : Fields[k + 1].width \in Nat
      BY FieldsType, FieldsOrder DEF EndingHere
  <2> QED
      BY <1>1, <2>1, ReadAssumption DEF SizesRead
<1>4. consumed' \in Nat /\ avail' \in Nat
    BY <1>2 DEF ReadInv
<1>5. ASSUME ~cut'
      PROVE  /\ field + 1 \in 1..NFields
             /\ "text" = Fields[field + 1].is /\ n = Fields[field + 1].width
             /\ kind' = Fields[field + 1].kind
             /\ consumed = Offset[field + 1]
  <2>1. AtField /\ InPlace
      BY <1>2, <1>5 DEF ReadInv
  <2>2. field \in 1..NFields /\ consumed = Offset[field + 1] /\ EndingHere("size") = {field}
      BY <1>2, <2>1, FieldEnds
  <2>3. SizesRead = {Fields[field + 1].width}
      BY <2>1, <2>2 DEF SizesRead
  <2>4. Fields[field].is = "size" /\ kind = Fields[field].kind
      BY <1>2, <2>1 DEF AtField
  <2>5. /\ field + 1 \in 1..NFields /\ Fields[field + 1].kind = kind
        /\ Fields[field + 1].is = "text"
      BY <2>2, <2>4, FieldsOrder DEF After
  <2> QED
      BY <1>1, <1>2, <2>2, <2>3, <2>5
<1> QED
    BY <1>1, <1>2, <1>3, <1>4, <1>5, Begun

\* The text and the time of a tag.
LEMMA TagHandled ==
    ASSUME ReadInv, HandleText \/ HandleTagTime
    PROVE  ReadInv'
<1> DEFINE part == IF is = "text" THEN "time" ELSE "type"
           size == IF is = "text" THEN TimeWidth ELSE 1
<1>1. /\ status = "reading" /\ to_read = 0 /\ is \in {"text", "time"}
      /\ is = "time" => kind = "TAG"
      /\ UNCHANGED <<avail, status, kind, consumed, cut>>
      /\ Begin(part, size)
    BY DEF HandleText, HandleTagTime, Returned, Bare
<1>2. consumed' \in Nat /\ avail' \in Nat /\ size \in Nat
    BY <1>1, FieldsType DEF ReadInv
<1>3. ASSUME ~cut
      PROVE  /\ field + 1 \in 1..NFields
             /\ part = Fields[field + 1].is /\ size = Fields[field + 1].width
             /\ part # "type" => kind = Fields[field + 1].kind
             /\ consumed = Offset[field + 1]
  <2>1. AtField
      BY <1>1, <1>3 DEF ReadInv
  <2>2. field \in 1..NFields /\ consumed = Offset[field + 1]
      BY <1>1, <2>1, FieldEnds
  <2>3. Fields[field].is = is /\ kind = Fields[field].kind
      BY <1>1, <2>1 DEF AtField
  <2>4. field + 1 \in 1..NFields
      BY <1>1, <2>2, <2>3, FieldsOrder
  <2>5. Fields[field + 1].is = part
      BY <1>1, <2>2, <2>3, <2>4, FieldsOrder DEF After
  <2>6. part # "type" => Fields[field + 1].kind = kind
      BY <1>1, <2>2, <2>3, <2>4, FieldsOrder
  <2>7. Fields[field + 1].width = size
      BY <2>2, <2>4, <2>5, FieldsOrder
  <2> QED
      BY <2>2, <2>4, <2>5, <2>6, <2>7
<1> HIDE DEF part, size
<1> QED
    BY <1>1, <1>2, <1>3, Begun

\* A bare read that gets what it asks for comes to the end of its field.
LEMMA BareHandled ==
    ASSUME ReadInv, BareRead
    PROVE  ReadInv'
<1> DEFINE n == Smaller(avail, to_read)
<1>0. /\ avail \in Nat /\ consumed \in Nat /\ want \in Nat /\ to_read \in 0..want
    BY DEF ReadInv
<1>1. /\ status = "reading" /\ is = "time"
      /\ avail' = avail - n /\ consumed' = consumed + n /\ cut' = (cut \/ n < want)
      /\ status' = "reading" => kind # "END"
      /\ Begin("type", 1) /\ kind' = kind
    BY DEF BareRead, Bare
<1>2. n \in Nat /\ n <= avail /\ n <= to_read
    BY <1>0 DEF Smaller
<1> HIDE DEF n
<1>3. consumed' \in Nat /\ avail' \in Nat
    BY <1>0, <1>1, <1>2
<1>4. ASSUME ~cut', status' = "reading"
      PROVE  /\ field + 1 \in 1..NFields
             /\ "type" = Fields[field + 1].is /\ 1 = Fields[field + 1].width
             /\ consumed' = Offset[field + 1]
  <2>0. ~cut /\ ~(n < want)
      BY <1>1, <1>4
  <2>1. AtField /\ n = want /\ to_read = want
    <3>1. AtField
        BY <1>1, <2>0 DEF ReadInv
    <3> QED
        BY <1>0, <1>2, <2>0, <3>1
  <2>2. /\ field \in 1..NFields /\ Fields[field].is = "time" /\ Fields[field].kind # "END"
        /\ want = Fields[field].width /\ consumed = Offset[field] + (want - want)
      BY <1>1, <1>4, <2>1, FieldsType DEF AtField, ReadInv
  <2>3. field + 1 \in 1..NFields /\ Fields[field + 1].is = "type"
      BY <2>2, FieldsOrder DEF After
  <2>4. Fields[field + 1].width = 1
      BY <2>2, <2>3, FieldsOrder
  <2>5. Offset[field + 1] = Offset[field] + Fields[field].width /\ Offset[field] \in Nat
      BY <2>2, FieldsType, OffsetNext
  <2> QED
      BY <1>0, <1>1, <2>1, <2>2, <2>3, <2>4, <2>5
<1> QED
    BY <1>1, <1>3, <1>4, Begun

LEMMA ReadInitially == Init => ReadInv
<1> SUFFICES ASSUME Init PROVE ReadInv
    OBVIOUS
<1>1. /\ NFields \in Nat /\ NFields > 0 /\ IntSize \in Nat /\ Offset[1] = 0
      /\ Fields[1].is = "type" /\ Fields[1].width = 1
    BY FieldsType, FieldsOrder, OffsetNext
<1>2. /\ field = 1 /\ consumed = 0 /\ avail = 0 /\ tmp = 0 /\ want = 1 /\ to_read = 1
      /\ is = "type"
    BY DEF Init
<1>3. want - to_read = 0 /\ IntSize * 0 = 0
    BY <1>1, <1>2
<1> QED
    BY <1>1, <1>2, <1>3 DEF ReadInv, AtField

\* The reader's own account of the stream holds however the bytes arrive.
THEOREM ReaderCounts == Spec => []ReadInv
<1>1. ReadInv /\ [Next]_vars => ReadInv'
  <2> SUFFICES ASSUME ReadInv, [Next]_vars PROVE ReadInv'
      OBVIOUS
  <2>1. avail \in Nat /\ want \in Nat /\ to_read \in 0..want
      BY DEF ReadInv
  <2>2. ASSUME NEW n \in 1..Total, Arrive(n) PROVE ReadInv'
    <3>1. Total \in Nat
        BY FieldsType, OffsetNext DEF Total
    <3>2. avail' \in Nat
        BY <2>1, <2>2, <3>1 DEF Arrive
    <3> QED
        BY <2>2, <3>2, Still DEF Arrive
  <2>3. CASE HangUp \/ ReadReset \/ UnknownType \/ HandleSizeTooBig
      BY <2>1, <2>3, Still DEF HangUp, ReadReset, UnknownType, HandleSizeTooBig
  <2>4. CASE ReadPart
    <3>1. Smaller(avail, to_read) \in Nat /\ Smaller(avail, to_read) <= avail
          /\ Smaller(avail, to_read) <= to_read
        BY <2>1 DEF Smaller
    <3> QED
        BY <2>4, <3>1, Fetched DEF ReadPart
  <2>5. CASE ReadRest
    <3>1. to_read \in Nat /\ to_read <= avail /\ to_read' = to_read - to_read
        BY <2>1, <2>5 DEF ReadRest
    <3> QED
        BY <2>5, <3>1, Fetched DEF ReadRest
  <2>6. CASE ReadEof \/ Quiet \/ UNCHANGED vars
      BY <2>1, <2>6, Still DEF ReadEof, Quiet, vars
  <2> QED
      BY <2>2, <2>3, <2>4, <2>5, <2>6, TypeHandled, SizeHandled, TagHandled, BareHandled
         DEF Next, Reader
<1> QED
    BY <1>1, ReadInitially, PTL DEF Spec

\* However TCP cuts the stream, and whenever the client goes: while no size was
\* cut up and no bare read came short, every read starts at the first byte of
\* the field it is meant for and has that field's width.
THEOREM InStepHolds == Spec => []InStep
<1>1. ReadInv => InStep
  <2> SUFFICES ASSUME ReadInv, status = "reading", ~cut, to_read = want
               PROVE  /\ field <= NFields /\ consumed = Offset[field]
                      /\ is = Fields[field].is /\ want = Fields[field].width
      BY DEF InStep
  <2>1. AtField /\ want \in Nat /\ field \in 1..(NFields + 1)
      BY DEF ReadInv
  <2>2. Offset[field] \in Nat
      BY <2>1, OffsetNext
  <2> QED
      BY <2>1, <2>2 DEF AtField
<1> QED
    BY <1>1, ReaderCounts, PTL
=============================================================================
