----------------------- MODULE EOSHandleResolver_proofs -----------------------
(***************************************************************************)
(* Theorems about parsing and resolving: in whatever order the directory   *)
(* lists the headers, what is put down is what they declare, for any SDK   *)
(* of the kind the assumptions of EOSHandleResolver describe.              *)
(***************************************************************************)
EXTENDS EOSHandleResolver, TLAPS, SequenceTheorems

-----------------------------------------------------------------------------
(* The way to a header.                                                    *)

Depends(h) == ~StandsAlone(h) /\ Includers(h) # {}
Includer(h) == CHOOSE g \in Includers(h) : TRUE

(* The least set with h in it and, with a header, the one that includes it *)
(* is a solution of the recursive equation.                                *)
Closed(C) == \A x \in C : Depends(x) => Includer(x) \in C
Least(h) == {g \in Headers : \A C \in SUBSET Headers : h \in C /\ Closed(C) => g \in C}

LEMMA IncluderIsOne ==
  ASSUME NEW h \in Headers, Depends(h)
  PROVE  Includer(h) \in Includers(h) /\ Includer(h) \in Headers
  <1>1. Includer(h) \in Includers(h)
    BY DEF Depends, Includer
  <1>. QED  BY <1>1 DEF Includers

LEMMA LeastIsClosed ==
  ASSUME NEW h \in Headers
  PROVE  h \in Least(h) /\ Closed(Least(h)) /\ Least(h) \in SUBSET Headers
  <1>1. h \in Least(h) /\ Least(h) \in SUBSET Headers
    BY DEF Least
  <1>2. ASSUME NEW x \in Least(h), Depends(x)
        PROVE  Includer(x) \in Least(h)
    <2>1. x \in Headers /\ Includer(x) \in Headers
      BY <1>2, IncluderIsOne DEF Least
    <2>2. ASSUME NEW C \in SUBSET Headers, h \in C, Closed(C)
          PROVE  Includer(x) \in C
      BY <1>2, <2>2 DEF Least, Closed
    <2>. QED  BY <2>1, <2>2 DEF Least
  <1>. QED  BY <1>1, <1>2 DEF Closed

LEMMA LeastStep ==
  ASSUME NEW h \in Headers
  PROVE  Least(h) = IF Depends(h) THEN {h} \cup Least(Includer(h)) ELSE {h}
  <1>1. CASE ~Depends(h)
    <2>1. Closed({h})
      BY <1>1 DEF Closed
    <2>2. Least(h) \subseteq {h}
      BY <2>1 DEF Least
    <2>. QED  BY <1>1, <2>2, LeastIsClosed
  <1>2. CASE Depends(h)
    <2>. DEFINE c == Includer(h)
    <2>1. c \in Headers
      BY <1>2, IncluderIsOne
    <2>2. c \in Least(c) /\ Closed(Least(c)) /\ Least(c) \in SUBSET Headers
      BY <2>1, LeastIsClosed
    <2>3. Closed({h} \cup Least(c)) /\ {h} \cup Least(c) \in SUBSET Headers
      BY <2>2 DEF Closed
    <2>4. Least(h) \subseteq {h} \cup Least(c)
      BY <2>3 DEF Least
    <2>5. ASSUME NEW g \in Least(c)
          PROVE  g \in Least(h)
      <3>1. g \in Headers
        BY <2>5 DEF Least
      <3>2. ASSUME NEW C \in SUBSET Headers, h \in C, Closed(C)
            PROVE  g \in C
        <4>1. c \in C
          BY <3>2, <1>2 DEF Closed
        <4>. QED  BY <4>1, <3>2, <2>5 DEF Least
      <3>. QED  BY <3>1, <3>2 DEF Least
    <2>6. h \in Least(h)
      BY LeastIsClosed
    <2>. QED  BY <1>2, <2>4, <2>5, <2>6
  <1>. QED  BY <1>1, <1>2

(* Hence Way, which is chosen among the solutions, is one.                 *)
LEMMA WayStep ==
  ASSUME NEW h \in Headers
  PROVE  Way[h] = IF Depends(h) THEN {h} \cup Way[Includer(h)] ELSE {h}
  <1>. DEFINE Solves(w) ==
         w = [x \in Headers |->
                IF StandsAlone(x) \/ Includers(x) = {} THEN {x}
                ELSE {x} \cup w[CHOOSE g \in Includers(x) : TRUE]]
  <1>1. Solves([x \in Headers |-> Least(x)])
    <2>. DEFINE w == [x \in Headers |-> Least(x)]
    <2>1. ASSUME NEW x \in Headers
          PROVE  Least(x) = IF StandsAlone(x) \/ Includers(x) = {} THEN {x}
                            ELSE {x} \cup w[CHOOSE g \in Includers(x) : TRUE]
      <3>1. CASE Depends(x)
        <4>1. w[Includer(x)] = Least(Includer(x))
          BY <3>1, IncluderIsOne
        <4>. QED  BY <3>1, <4>1, LeastStep DEF Depends, Includer
      <3>2. CASE ~Depends(x)
        BY <3>2, LeastStep DEF Depends
      <3>. QED  BY <3>1, <3>2
    <2>. QED  BY <2>1
  <1>2. Way = CHOOSE w : Solves(w)
    BY DEF Way
  <1>3. Solves(Way)
    <2>. HIDE DEF Solves
    <2>. QED  BY <1>1, <1>2
  <1>. QED  BY <1>3 DEF Depends, Includer

LEMMA WayHeaders == \A h \in Headers : h \in Way[h] /\ Way[h] \subseteq Headers
  <1>. DEFINE Bad == {h \in Headers : ~StandsAlone(h) /\ ~(h \in Way[h] /\ Way[h] \subseteq Headers)}
  <1>1. ASSUME NEW h \in Headers, ~Depends(h)
        PROVE  h \in Way[h] /\ Way[h] \subseteq Headers
    BY <1>1, WayStep
  <1>2. Bad = {}
    <2>. SUFFICES ASSUME Bad # {} PROVE FALSE
      OBVIOUS
    <2>1. PICK h \in Bad : Includers(h) \cap Bad = {}
      BY NoCycle
    <2>2. Depends(h) /\ h \in Headers
      BY <1>1
    <2>3. Includer(h) \in Headers /\ Includer(h) \notin Bad
      BY <2>1, <2>2, IncluderIsOne
    <2>4. Way[Includer(h)] \subseteq Headers
      BY <2>3, <1>1 DEF Depends
    <2>. QED  BY <2>2, <2>4, WayStep
  <1>. QED  BY <1>1, <1>2 DEF Depends

(* One header on the way stands alone, at most.                            *)
LEMMA OneAlone ==
  ASSUME NEW h \in Headers, NEW r \in Way[h], NEW s \in Way[h],
         StandsAlone(r), StandsAlone(s)
  PROVE  r = s
  <1>. DEFINE Two(x) == \E p, q \in Way[x] : StandsAlone(p) /\ StandsAlone(q) /\ p # q
              Bad == {x \in Headers : ~StandsAlone(x) /\ Two(x)}
  <1>1. ASSUME NEW x \in Headers, ~Depends(x)
        PROVE  ~Two(x)
    BY <1>1, WayStep
  <1>2. Bad = {}
    <2>. SUFFICES ASSUME Bad # {} PROVE FALSE
      OBVIOUS
    <2>1. PICK x \in Bad : Includers(x) \cap Bad = {}
      BY NoCycle
    <2>2. x \in Headers /\ ~StandsAlone(x) /\ Two(x)
      OBVIOUS
    <2>3. Depends(x)
      BY <1>1, <2>2
    <2>4. Includer(x) \in Headers /\ Includer(x) \notin Bad
      BY <2>1, <2>2, <2>3, IncluderIsOne
    <2>5. ~Two(Includer(x))
      BY <2>4, <1>1 DEF Depends
    <2>6. Way[x] = {x} \cup Way[Includer(x)]
      BY <2>2, <2>3, WayStep
    <2>. QED  BY <2>2, <2>5, <2>6
  <1>3. ~Two(h)
    BY <1>1, <1>2 DEF Depends
  <1>. QED  BY <1>3

LEMMA ReaderStandsAlone ==
  ASSUME NEW h \in Read
  PROVE  Reader(h) \in Way[h] /\ Reader(h) \in Headers /\ StandsAlone(Reader(h))
  BY WayHeaders DEF Read, Reader

(* What is read for itself, and what is read through another.              *)
LEMMA ReadAlone ==
  ASSUME NEW h \in Headers, StandsAlone(h)
  PROVE  /\ h \in Read /\ Reader(h) = h /\ Way[h] = {h}
         /\ Old(h) <=> h \notin Range(FirstHeaders) /\ About[h].deprecated
  <1>1. Way[h] = {h}
    BY WayStep DEF Depends
  <1>2. h \in Read
    BY <1>1 DEF Read
  <1>. QED  BY <1>1, <1>2, ReaderStandsAlone DEF Old

LEMMA ReadIncluded ==
  ASSUME NEW h \in Headers, ~StandsAlone(h), NEW g \in Includers(h), g \in Read
  PROVE  /\ h \in Read /\ Reader(h) = Reader(g) /\ Way[h] = {h} \cup Way[g]
         /\ Old(h) <=> About[h].deprecated \/ Old(g)
  <1>1. Depends(h) /\ Includer(h) = g
    BY OneReader, IncluderIsOne DEF Depends
  <1>2. Way[h] = {h} \cup Way[g]
    BY <1>1, WayStep
  <1>3. h \in Read
    BY <1>2 DEF Read
  <1>4. Reader(g) \in Way[g] /\ StandsAlone(Reader(g)) /\ Reader(h) \in Way[h] /\ StandsAlone(Reader(h))
    BY <1>3, ReaderStandsAlone
  <1>5. Reader(h) = Reader(g)
    BY <1>2, <1>4, OneAlone
  <1>6. h \notin Range(FirstHeaders)
    BY DEF StandsAlone
  <1>. QED  BY <1>2, <1>3, <1>5, <1>6 DEF Old

(* And nothing else is.                                                    *)
LEMMA ReadThrough ==
  ASSUME NEW h \in Read, ~StandsAlone(h)
  PROVE  \E g \in Includers(h) : g \in Read
  <1>1. Depends(h)
    BY WayStep DEF Read
  <1>2. Includer(h) \in Includers(h) /\ Way[h] = {h} \cup Way[Includer(h)]
        /\ Includer(h) \in Headers
    BY <1>1, IncluderIsOne, WayStep DEF Read
  <1>. QED  BY <1>2 DEF Read

-----------------------------------------------------------------------------
(* Types.  A frame of the stack, what docs holds, what is deferred.        *)

DocValues == {None} \cup [of : UNION {DocsIn(h) : h \in Headers}, from : Headers]
Frames == [il : DOMAIN ClassOf, header : Headers, at : Nat \ {0}, dep : BOOLEAN,
           skip : BOOLEAN, saved : DocValues]
Deferreds == [il : DOMAIN ClassOf, name : DOMAIN Facts]

(* What belongs to the parser; the interfaces it works for were met.       *)
ParserType ==
    /\ stack \in Seq(Frames) /\ visited \subseteq Headers
    /\ docs \in [DOMAIN ClassOf -> DocValues]
    /\ deferred \in Seq(Deferreds)
    /\ ils \in Seq(DOMAIN ClassOf) /\ ils # <<>>
    /\ \A k \in DOMAIN stack : stack[k].il \in Range(ils)
    /\ \A k \in DOMAIN deferred : deferred[k].il \in Range(ils)
    /\ \A i \in infos : i.il \in Range(ils) /\ i.name \in DOMAIN Facts

TypeInv ==
    /\ TypeOK /\ ParserType
    /\ \A p \in extras : p[2] \in DOMAIN Facts

(* A line that is read, and the frame it is read in.                       *)
LEMMA ReadingFacts ==
  ASSUME ParserType, NEW kind, Reading(kind)
  PROVE  /\ stack # <<>> /\ Top \in Frames /\ Top = stack[1] /\ Tail(stack) \in Seq(Frames)
         /\ Top.header \in Headers /\ Top.at \in DOMAIN Lines[Top.header]
         /\ Line = Lines[Top.header][Top.at] /\ Line.kind = kind
         /\ Line.of \in Says(Top.header, kind)
         /\ kind \in {"declare", "enum start"} => Line.of \in DOMAIN Facts
         /\ Top.il \in Range(ils) /\ Top.il \in DOMAIN ClassOf
  <1>1. stack # <<>> /\ Top = stack[1] /\ Top \in Frames /\ Tail(stack) \in Seq(Frames)
        /\ 1 \in DOMAIN stack
    BY DEF ParserType, Reading, Top
  <1>2. Top.header \in Headers /\ Top.il \in DOMAIN ClassOf /\ Top.at \in Nat \ {0}
    BY <1>1 DEF Frames
  <1>3. Lines[Top.header] \in Seq({Lines[Top.header][k] : k \in DOMAIN Lines[Top.header]})
    BY <1>2, LinesAssumption
  <1>4. Top.at \in DOMAIN Lines[Top.header] /\ Line = Lines[Top.header][Top.at] /\ Line.kind = kind
    BY <1>2, <1>3 DEF Reading, Line
  <1>5. Line \in Range(Lines[Top.header])
    BY <1>4 DEF Range
  <1>6. Line.of \in Says(Top.header, kind)
    BY <1>4, <1>5 DEF Says
  <1>7. kind \in {"declare", "enum start"} => Line.of \in DOMAIN Facts
    BY <1>2, <1>4, LinesAssumption
  <1>8. Top.il \in Range(ils)
    BY <1>1 DEF ParserType
  <1>. QED  BY <1>1, <1>2, <1>4, <1>6, <1>7, <1>8

LEMMA AdvancedType ==
  ASSUME ParserType, stack # <<>>
  PROVE  /\ Advanced \in Seq(Frames) /\ Advanced # <<>> /\ Len(Advanced) = Len(stack)
         /\ Advanced[1] = [Top EXCEPT !.at = Top.at + 1] /\ Advanced[1] \in Frames
         /\ \A k \in DOMAIN Advanced : k # 1 => Advanced[k] = stack[k]
         /\ \A k \in DOMAIN Advanced : Advanced[k].il = stack[k].il /\ k \in DOMAIN stack
  <1>1. Top = stack[1] /\ Top \in Frames /\ Tail(stack) \in Seq(Frames) /\ Len(stack) >= 1
        /\ Len(Tail(stack)) = Len(stack) - 1 /\ Len(stack) \in Nat
        /\ \A k \in 1 .. Len(stack) - 1 : Tail(stack)[k] = stack[k + 1]
    BY DEF ParserType, Top
  <1>. DEFINE t == [Top EXCEPT !.at = Top.at + 1]
  <1>2. t \in Frames /\ t.il = Top.il
    BY <1>1 DEF Frames
  <1>3. Advanced = <<t>> \o Tail(stack)
    BY DEF Advanced
  <1>. HIDE DEF t
  <1>4. /\ <<t>> \o Tail(stack) \in Seq(Frames)
        /\ Len(<<t>> \o Tail(stack)) = Len(stack)
        /\ (<<t>> \o Tail(stack))[1] = t
        /\ \A k \in 2 .. Len(stack) : (<<t>> \o Tail(stack))[k] = stack[k]
    BY <1>1, <1>2
  <1>5. DOMAIN Advanced = 1 .. Len(stack) /\ DOMAIN stack = 1 .. Len(stack)
    BY <1>3, <1>4 DEF ParserType
  <1>6. \A k \in DOMAIN Advanced : k # 1 => Advanced[k] = stack[k]
    BY <1>3, <1>4, <1>5, <1>1
  <1>7. Advanced[1] = t /\ Advanced \in Seq(Frames) /\ Len(Advanced) = Len(stack) /\ Advanced # <<>>
    BY <1>1, <1>3, <1>4
  <1>8. t = [Top EXCEPT !.at = Top.at + 1]
    BY DEF t
  <1>9. \A k \in DOMAIN Advanced : Advanced[k].il = stack[k].il /\ k \in DOMAIN stack
    BY <1>1, <1>2, <1>5, <1>6, <1>7
  <1>. QED  BY <1>2, <1>6, <1>7, <1>8, <1>9

LEMMA CallType ==
  ASSUME NEW cs \in Seq(Frames), NEW R, NEW il \in DOMAIN ClassOf, NEW h \in Headers,
         NEW dep \in BOOLEAN, NEW skip \in BOOLEAN,
         docs \in [DOMAIN ClassOf -> DocValues], visited \subseteq Headers,
         il \in R, \A k \in DOMAIN cs : cs[k].il \in R,
         Call(cs, il, h, dep, skip)
  PROVE  /\ stack' \in Seq(Frames) /\ visited' \subseteq Headers
         /\ \A k \in DOMAIN stack' : stack'[k].il \in R
  <1>. DEFINE f == Frame(il, h, dep, skip, docs[il])
  <1>1. f \in Frames /\ f.il = il
    BY DEF Frame, Frames
  <1>2. visited' \subseteq Headers
    BY DEF Call
  <1>3. CASE h \in visited
    BY <1>2, <1>3 DEF Call
  <1>4. CASE h \notin visited
    <2>. HIDE DEF f
    <2>1. stack' = <<f>> \o cs
      BY <1>4 DEF Call, f
    <2>2. /\ <<f>> \o cs \in Seq(Frames) /\ Len(<<f>> \o cs) = Len(cs) + 1
          /\ (<<f>> \o cs)[1] = f
          /\ \A k \in 2 .. Len(cs) + 1 : (<<f>> \o cs)[k] = cs[k - 1]
      BY <1>1
    <2>3. ASSUME NEW k \in DOMAIN (<<f>> \o cs)
          PROVE  (<<f>> \o cs)[k].il \in R
      <3>1. k \in 1 .. Len(cs) + 1 /\ Len(cs) \in Nat
        BY <2>2
      <3>2. CASE k = 1
        BY <3>2, <2>2, <1>1
      <3>3. CASE k # 1
        <4>1. k \in 2 .. Len(cs) + 1 /\ k - 1 \in DOMAIN cs
          BY <3>1, <3>3
        <4>. QED  BY <4>1, <2>2
      <3>. QED  BY <3>2, <3>3
    <2>. QED  BY <1>2, <2>1, <2>2, <2>3
  <1>. QED  BY <1>3, <1>4

LEMMA TypeInit == Init => TypeInv
  <1>. SUFFICES ASSUME Init PROVE TypeInv
    OBVIOUS
  <1>1. ils = <<"common">> /\ ils \in Seq(DOMAIN ClassOf) /\ ils # <<>>
    BY ListingAssumption DEF Init
  <1>2. stack = <<>> /\ deferred = <<>> /\ stack \in Seq(Frames) /\ deferred \in Seq(Deferreds)
        /\ DOMAIN stack = {} /\ DOMAIN deferred = {}
    BY DEF Init
  <1>3. docs \in [DOMAIN ClassOf -> DocValues]
    BY DEF Init, DocValues
  <1>4. ParserType
    BY <1>1, <1>2, <1>3 DEF Init, ParserType
  <1>5. 1 \in DOMAIN FirstHeaders
    BY ListingAssumption
  <1>6. TypeOK
    BY <1>5 DEF Init, TypeOK
  <1>. QED  BY <1>4, <1>6 DEF TypeInv, Init

(* The lines of a header.                                                  *)
LEMMA ParseType ==
  ASSUME TypeInv, Parse
  PROVE  TypeInv'
  <1>. USE DEF TypeInv
  <1>0. /\ UNCHANGED <<phase, at, ils, listed, interfaces, extras, releases, handles, owned,
                       documented, gen, structs, routed, unhandled>>
        /\ docs \in [DOMAIN ClassOf -> DocValues] /\ visited \subseteq Headers
        /\ ParserType /\ TypeOK
    BY DEF Parse, resolved, ParserType
  <1>. SUFFICES ParserType'
    BY <1>0 DEF TypeOK, ParserType
  <1>a. \A k \in DOMAIN Advanced : stack # <<>> => Advanced[k].il \in Range(ils)
    BY <1>0, AdvancedType DEF ParserType
  <1>1. CASE Include
    <2>1. Reading("include") /\ UNCHANGED <<infos, docs, deferred, latest>>
      BY <1>1 DEF Include
    <2>2. stack # <<>> /\ Top \in Frames /\ Top.il \in Range(ils) /\ Top.il \in DOMAIN ClassOf
      BY <2>1, <1>0, ReadingFacts
    <2>3. Advanced \in Seq(Frames)
      BY <2>2, <1>0, AdvancedType
    <2>4. CASE Included(Top, Line.of)
      <3>1. Call(Advanced, Top.il, Line.of, Top.dep \/ About[Line.of].deprecated, FALSE)
        BY <1>1, <2>4 DEF Include
      <3>2. Line.of \in Headers /\ (Top.dep \/ About[Line.of].deprecated) \in BOOLEAN
        BY <2>4, <2>2 DEF Included
      <3>3. stack' \in Seq(Frames) /\ visited' \subseteq Headers
            /\ \A k \in DOMAIN stack' : stack'[k].il \in Range(ils)
        BY <3>1, <3>2, <2>2, <2>3, <1>0, <1>a, CallType
      <3>. QED  BY <3>3, <2>1, <1>0 DEF ParserType
    <2>5. CASE ~Included(Top, Line.of)
      <3>1. stack' = Advanced /\ visited' = visited
        BY <1>1, <2>5 DEF Include
      <3>. QED  BY <3>1, <2>1, <2>2, <2>3, <1>a, <1>0 DEF ParserType
    <2>. QED  BY <2>4, <2>5
  <1>2. CASE Return
    <2>1. stack # <<>> /\ stack' = Tail(stack) /\ docs' = DocsAfterReturn
          /\ UNCHANGED <<visited, infos, deferred, latest>>
      BY <1>2 DEF Return
    <2>2. Tail(stack) \in Seq(Frames)
          /\ \A k \in DOMAIN Tail(stack) : Tail(stack)[k].il \in Range(ils)
      <3>1. Len(Tail(stack)) = Len(stack) - 1 /\ Tail(stack) \in Seq(Frames)
            /\ \A k \in 1 .. Len(stack) - 1 : Tail(stack)[k] = stack[k + 1]
            /\ Len(stack) \in Nat
        BY <2>1, <1>0 DEF ParserType
      <3>. QED  BY <3>1, <1>0 DEF ParserType
    <2>3. Top \in Frames
      BY <2>1, <1>0 DEF ParserType, Top
    <2>4. Top.saved \in DocValues
      BY <2>3 DEF Frames
    <2>5. docs' \in [DOMAIN ClassOf -> DocValues]
      BY <2>1, <2>4, <1>0 DEF DocsAfterReturn
    <2>. QED  BY <2>1, <2>2, <2>5, <1>0 DEF ParserType
  <1>3. CASE InterfaceDoc
    <2>1. Reading("interface doc") /\ stack' = Advanced /\ UNCHANGED <<visited, infos, deferred, latest>>
      BY <1>3 DEF InterfaceDoc
    <2>2. stack # <<>> /\ Top.header \in Headers /\ Line.of \in DocsIn(Top.header)
      BY <2>1, <1>0, ReadingFacts DEF DocsIn
    <2>3. [of |-> Line.of, from |-> Top.header] \in DocValues
      BY <2>2 DEF DocValues
    <2>4. docs' \in [DOMAIN ClassOf -> DocValues]
      BY <2>3, <1>0, <1>3 DEF InterfaceDoc
    <2>5. Advanced \in Seq(Frames)
      BY <2>2, <1>0, AdvancedType
    <2>. QED  BY <2>1, <2>2, <2>4, <2>5, <1>a, <1>0 DEF ParserType
  <1>4. CASE ApiLatest
    <2>1. Reading("latest") /\ stack' = Advanced /\ UNCHANGED <<visited, infos, docs, deferred>>
      BY <1>4 DEF ApiLatest
    <2>2. stack # <<>>
      BY <2>1, <1>0, ReadingFacts
    <2>3. Advanced \in Seq(Frames)
      BY <2>2, <1>0, AdvancedType
    <2>. QED  BY <2>1, <2>2, <2>3, <1>a, <1>0 DEF ParserType
  <1>5. CASE Declare
    <2>1. Reading("declare") /\ stack' = Advanced /\ UNCHANGED <<visited, docs, deferred, latest>>
      BY <1>5 DEF Declare
    <2>2. stack # <<>> /\ Line.of \in DOMAIN Facts /\ Top.il \in Range(ils)
      BY <2>1, <1>0, ReadingFacts
    <2>3. Advanced \in Seq(Frames)
      BY <2>2, <1>0, AdvancedType
    <2>4. \A i \in infos' : i.il \in Range(ils) /\ i.name \in DOMAIN Facts
      BY <1>5, <2>2, <1>0 DEF Declare, Declared, Entry, ParserType
    <2>. QED  BY <2>1, <2>2, <2>3, <2>4, <1>a, <1>0 DEF ParserType
  <1>6. CASE EnumStart
    <2>1. Reading("enum start") /\ stack' = Advanced /\ UNCHANGED <<visited, infos, docs, latest>>
      BY <1>6 DEF EnumStart
    <2>2. stack # <<>> /\ Line.of \in DOMAIN Facts /\ Top.il \in Range(ils) /\ Top.il \in DOMAIN ClassOf
      BY <2>1, <1>0, ReadingFacts
    <2>3. Advanced \in Seq(Frames)
      BY <2>2, <1>0, AdvancedType
    <2>. DEFINE d == [il |-> Top.il, name |-> Line.of]
    <2>4. d \in Deferreds /\ d.il \in Range(ils) /\ deferred' = Append(deferred, d)
      BY <1>6, <2>2 DEF EnumStart, Deferreds
    <2>. HIDE DEF d
    <2>5. deferred' \in Seq(Deferreds) /\ \A k \in DOMAIN deferred' : deferred'[k].il \in Range(ils)
      BY <2>4, <1>0 DEF ParserType
    <2>. QED  BY <2>1, <2>2, <2>3, <2>5, <1>a, <1>0 DEF ParserType
  <1>. QED  BY <1>1, <1>2, <1>3, <1>4, <1>5, <1>6 DEF Parse, ParseStep

LEMMA MetType ==
  ASSUME ParserType, NEW il \in DOMAIN ClassOf, Met(il)
  PROVE  /\ ils' \in Seq(DOMAIN ClassOf) /\ ils' # <<>>
         /\ il \in Range(ils') /\ Range(ils) \subseteq Range(ils') /\ DOMAIN ils \subseteq DOMAIN ils'
  <1>1. ils \in Seq(DOMAIN ClassOf) /\ ils # <<>>
    BY DEF ParserType
  <1>2. CASE \E k \in DOMAIN ils : ils[k] = il
    BY <1>1, <1>2 DEF Met, Range
  <1>3. CASE ~\E k \in DOMAIN ils : ils[k] = il
    <2>1. ils' = Append(ils, il)
      BY <1>3 DEF Met
    <2>2. /\ Append(ils, il) \in Seq(DOMAIN ClassOf) /\ Len(Append(ils, il)) = Len(ils) + 1
          /\ Append(ils, il)[Len(ils) + 1] = il
          /\ \A k \in 1 .. Len(ils) : Append(ils, il)[k] = ils[k]
      BY <1>1
    <2>3. Len(ils) \in Nat /\ DOMAIN ils = 1 .. Len(ils) /\ DOMAIN ils' = 1 .. Len(ils) + 1
      BY <1>1, <2>1, <2>2
    <2>. QED  BY <2>1, <2>2, <2>3 DEF Range
  <1>. QED  BY <1>2, <1>3

(* The calls that are made from outside.                                   *)
LEMMA ParserTypeGrows ==
  ASSUME ParserType, NEW h \in Headers, NEW dep \in BOOLEAN, NEW skip \in BOOLEAN,
         stack = <<>>, Call(<<>>, About[h].il, h, dep, skip), Met(About[h].il),
         UNCHANGED <<infos, docs, deferred, latest>>
  PROVE  ParserType' /\ DOMAIN ils \subseteq DOMAIN ils'
  <1>1. About[h].il \in DOMAIN ClassOf
    BY ListingAssumption
  <1>2. /\ ils' \in Seq(DOMAIN ClassOf) /\ ils' # <<>> /\ About[h].il \in Range(ils')
        /\ Range(ils) \subseteq Range(ils') /\ DOMAIN ils \subseteq DOMAIN ils'
    BY <1>1, MetType
  <1>3. <<>> \in Seq(Frames) /\ \A k \in DOMAIN (<<>>) : (<<>>)[k].il \in Range(ils')
    OBVIOUS
  <1>4. /\ stack' \in Seq(Frames) /\ visited' \subseteq Headers
        /\ \A k \in DOMAIN stack' : stack'[k].il \in Range(ils')
    <2>1. docs \in [DOMAIN ClassOf -> DocValues] /\ visited \subseteq Headers
      BY DEF ParserType
    <2>. QED  BY <1>1, <1>2, <1>3, <2>1, CallType
  <1>. QED  BY <1>2, <1>4 DEF ParserType

LEMMA ParseFirstType ==
  ASSUME TypeInv, ParseFirst
  PROVE  TypeInv'
  <1>. DEFINE h == FirstHeaders[at]
  <1>1. /\ phase = "first" /\ stack = <<>> /\ Call(<<>>, About[h].il, h, FALSE, FALSE)
        /\ Met(About[h].il)
        /\ UNCHANGED <<infos, docs, deferred, latest, listed, resolved>>
    BY DEF ParseFirst
  <1>2. at \in DOMAIN FirstHeaders /\ FirstHeaders \in Seq(Headers)
    BY <1>1, ListingAssumption DEF TypeInv, TypeOK
  <1>3. h \in Headers
    BY <1>2
  <1>4. ParserType'
    BY <1>1, <1>3, ParserTypeGrows DEF TypeInv
  <1>5. phase' \in {"first", "list"} /\ at' \in DOMAIN (IF phase' = "first" THEN FirstHeaders ELSE ils')
    <2>1. 1 \in DOMAIN ils'
      BY <1>4 DEF ParserType
    <2>2. CASE at = Len(FirstHeaders)
      BY <2>1, <2>2 DEF ParseFirst
    <2>3. CASE at # Len(FirstHeaders)
      <3>1. at' = at + 1 /\ phase' = "first"
        BY <1>1, <2>3 DEF ParseFirst
      <3>. QED  BY <1>2, <2>3, <3>1
    <2>. QED  BY <2>2, <2>3
  <1>. QED  BY <1>1, <1>4, <1>5 DEF TypeInv, TypeOK, resolved, ParserType

LEMMA ListHeaderType ==
  ASSUME TypeInv, NEW h \in Headers, ListHeader(h)
  PROVE  TypeInv'
  <1>1. /\ phase = "list" /\ stack = <<>> /\ h \in Listed
        /\ listed' = listed \cup {h}
        /\ Call(<<>>, About[h].il, h, About[h].deprecated, h = SdkHeader)
        /\ Met(About[h].il)
        /\ UNCHANGED <<infos, docs, deferred, latest, phase, at, resolved>>
    BY DEF ListHeader
  <1>2. About[h].deprecated \in BOOLEAN /\ (h = SdkHeader) \in BOOLEAN
    BY LinesAssumption
  <1>3. ParserType' /\ DOMAIN ils \subseteq DOMAIN ils'
    BY <1>1, <1>2, ParserTypeGrows DEF TypeInv
  <1>. QED  BY <1>1, <1>3 DEF TypeInv, TypeOK, resolved, ParserType

LEMMA ParseDeferredType ==
  ASSUME TypeInv, ParseDeferred
  PROVE  TypeInv'
  <1>1. \A i \in infos' : i.il \in Range(ils) /\ i.name \in DOMAIN Facts
    <2>1. \A k \in DOMAIN deferred : deferred[k].name \in DOMAIN Facts /\ deferred[k].il \in Range(ils)
      <3>1. deferred \in Seq(Deferreds)
        BY DEF TypeInv, ParserType
      <3>2. \A k \in DOMAIN deferred : deferred[k] \in Deferreds
        BY <3>1
      <3>. QED  BY <3>2 DEF TypeInv, ParserType, Deferreds
    <2>. QED  BY <2>1 DEF ParseDeferred, DeferredDeclared, Entry, TypeInv, ParserType
  <1>2. deferred' = <<>> /\ phase' = "methods" /\ phase = "list"
        /\ UNCHANGED <<stack, visited, docs, latest, at, ils, listed, resolved>>
    BY DEF ParseDeferred
  <1>. QED  BY <1>1, <1>2 DEF TypeInv, TypeOK, resolved, ParserType

(* The passes: they take declarations out of infos.                        *)
Phases == {"list", "methods", "merge", "structs", "enum", "constant", "cheat method",
           "cheat enum", "platform enums", "extras", "cheat callback", "cheat constant",
           "copies", "unhandled", "done", "failed"}

LEMMA PassType ==
  ASSUME TypeInv, phase # "first",
         UNCHANGED <<stack, visited, deferred, ils, listed>>,
         docs' \in [DOMAIN ClassOf -> DocValues],
         infos' \subseteq infos, phase' \in Phases, at' \in DOMAIN ils,
         \A p \in owned' : p[2] \in DOMAIN Facts,
         \A p \in extras' : p[2] \in DOMAIN Facts
  PROVE  TypeInv'
  <1>1. ParserType'
    BY DEF TypeInv, ParserType
  <1>2. phase' # "first"
    BY DEF Phases
  <1>3. TypeOK'
    BY <1>1, <1>2 DEF TypeInv, TypeOK, Phases, ParserType
  <1>. QED  BY <1>1, <1>3 DEF TypeInv

LEMMA NextPassType ==
  ASSUME TypeInv, phase \in Phases, NEW next \in Phases, NextPass(next)
  PROVE  phase' \in Phases /\ at' \in DOMAIN ils
  <1>1. ils \in Seq(DOMAIN ClassOf) /\ ils # <<>> /\ at \in DOMAIN ils
    BY DEF TypeInv, TypeOK, ParserType, Phases
  <1>. QED  BY <1>1 DEF NextPass

(* What is found in infos has facts.                                       *)
LEMMA FoundHasFacts ==
  ASSUME TypeInv
  PROVE  /\ \A kind : All(kind) \subseteq DOMAIN Facts
         /\ \A il, kind : Of(il, kind) \subseteq DOMAIN Facts
  BY DEF TypeInv, ParserType, All, Of

LEMMA RouteMethodsType ==
  ASSUME TypeInv, RouteMethods
  PROVE  TypeInv'
  <1>. DEFINE il == ils[at]
              taking == {m \in Mine(il) \cup ForeignReleases(il) : Facts[m].taken # None}
              moved == {<<Facts[m].first, Facts[m].taken>> : m \in taking}
              Wrong == \/ \E m \in taking : ~CallbackFound(il, m, taking)
                       \/ docs[il] # None /\ docs[il].of \notin Of(il, "handle") \cup handles
  <1>1. phase = "methods" /\ UNCHANGED <<stack, visited, deferred, ils, listed>>
    BY DEF RouteMethods, parserVars
  <1>2. CASE Wrong
    <2>1. phase' = "failed" /\ UNCHANGED <<parserVars, at, ils, listed, resolved>>
      BY <1>2 DEF RouteMethods, Fail
    <2>. QED  BY <2>1, <1>1 DEF TypeInv, TypeOK, parserVars, resolved, ParserType
  <1>3. CASE ~Wrong
    <2>1. /\ extras' = extras \cup {<<Facts[m].first, m>> : m \in Getters \cup ForeignReleases(il)}
          /\ owned' = owned \cup {<<Facts[m].first, m>> : m \in Mine(il)} \cup moved
          /\ infos' \subseteq infos
          /\ docs' = [docs EXCEPT ![il] = None]
          /\ NextPass("merge")
      BY <1>3 DEF RouteMethods, Without
    <2>2. Getters \cup Mine(il) \cup ForeignReleases(il) \subseteq DOMAIN Facts
      BY FoundHasFacts DEF Getters, Mine, ForeignReleases
    <2>3. \A m \in taking : Facts[m].taken \in DOMAIN Facts
      BY <1>3, FoundHasFacts DEF CallbackFound
    <2>4. docs' \in [DOMAIN ClassOf -> DocValues]
      BY <2>1 DEF TypeInv, ParserType, DocValues
    <2>5. phase' \in Phases /\ at' \in DOMAIN ils
      BY <1>1, <2>1, NextPassType DEF Phases
    <2>6. \A p \in extras' : p[2] \in DOMAIN Facts
      BY <2>1, <2>2 DEF TypeInv
    <2>7. ASSUME NEW p \in owned' PROVE p[2] \in DOMAIN Facts
      <3>1. CASE p \in owned
        BY <3>1 DEF TypeInv, TypeOK
      <3>2. CASE p \in {<<Facts[m].first, m>> : m \in Mine(il)}
        BY <3>2, <2>2
      <3>3. CASE p \in moved
        BY <3>3, <2>3
      <3>. QED  BY <2>1, <3>1, <3>2, <3>3
    <2>. QED  BY <1>1, <2>1, <2>4, <2>5, <2>6, <2>7, PassType
  <1>. QED  BY <1>2, <1>3

LEMMA MergeType ==
  ASSUME TypeInv, MergeHandles \/ RouteStructs \/ CollectUnhandled
  PROVE  TypeInv'
  <1>1. /\ phase \in {"merge", "structs", "unhandled"} /\ phase' \in Phases
        /\ UNCHANGED <<stack, visited, docs, deferred, ils, listed, at, owned, extras>>
        /\ infos' \subseteq infos
    BY DEF MergeHandles, RouteStructs, CollectUnhandled, parsed, Phases, Without
  <1>2. docs' \in [DOMAIN ClassOf -> DocValues] /\ at' \in DOMAIN ils
    BY <1>1 DEF TypeInv, TypeOK, ParserType
  <1>. QED  BY <1>1, <1>2, PassType DEF TypeInv, TypeOK

LEMMA RouteByInterfaceType ==
  ASSUME TypeInv, NEW kind \in {"enum", "constant"}, RouteByInterface(kind)
  PROVE  TypeInv'
  <1>. DEFINE il == ils[at]
  <1>1. phase = kind /\ phase \in Phases /\ phase # "first"
        /\ UNCHANGED <<stack, visited, docs, deferred, ils, listed, extras>>
    BY DEF RouteByInterface, parsed, Phases
  <1>2. docs' \in [DOMAIN ClassOf -> DocValues] /\ at \in DOMAIN ils
    BY <1>1 DEF TypeInv, TypeOK, ParserType
  <1>3. infos' \subseteq infos
    BY DEF RouteByInterface, Gone
  <1>4. owned' \subseteq owned \cup {<<RouteTarget(il, kind)[2], n>> : n \in Of(il, kind)}
    BY DEF RouteByInterface
  <1>5. ASSUME NEW p \in owned' PROVE p[2] \in DOMAIN Facts
    <2>1. CASE p \in owned
      BY <2>1 DEF TypeInv, TypeOK
    <2>2. CASE \E t : \E n \in Of(il, kind) : p = <<t, n>>
      BY <2>2, FoundHasFacts
    <2>. QED  BY <1>4, <2>1, <2>2
  <1>6. \/ phase' = "failed" /\ at' = at
        \/ \E next \in Phases : NextPass(next)
    BY DEF RouteByInterface, Fail, Phases
  <1>7. phase' \in Phases /\ at' \in DOMAIN ils
    BY <1>1, <1>2, <1>6, NextPassType DEF Phases
  <1>. QED  BY <1>1, <1>2, <1>3, <1>5, <1>7, PassType DEF TypeInv

LEMMA CheatPhases ==
  /\ CheatPass["method"] = "cheat method" /\ CheatPass["enum"] = "cheat enum"
  /\ CheatPass["callback"] = "cheat callback" /\ CheatPass["constant"] = "cheat constant"
  /\ \A kind \in {"method", "enum", "callback", "constant"} :
        CheatPass[kind] \in Phases /\ CheatPass[kind] # "first"
  <1>1. /\ CheatPass["method"] = "cheat method" /\ CheatPass["enum"] = "cheat enum"
        /\ CheatPass["callback"] = "cheat callback" /\ CheatPass["constant"] = "cheat constant"
    BY DEF CheatPass
  <1>. QED  BY <1>1 DEF Phases

LEMMA RouteByCheatType ==
  ASSUME TypeInv, NEW kind \in {"method", "enum", "callback", "constant"}, RouteByCheat(kind)
  PROVE  TypeInv'
  <1>. DEFINE il == ils[at]
  <1>0. CheatPass[kind] \in Phases /\ CheatPass[kind] # "first"
    BY CheatPhases
  <1>1. phase = CheatPass[kind] /\ phase \in Phases /\ phase # "first"
        /\ UNCHANGED <<stack, visited, docs, deferred, ils, listed, extras>>
    BY <1>0 DEF RouteByCheat, parsed
  <1>2. docs' \in [DOMAIN ClassOf -> DocValues] /\ at \in DOMAIN ils
    BY <1>1 DEF TypeInv, TypeOK, ParserType
  <1>3. infos' \subseteq infos
    BY DEF RouteByCheat, Gone
  <1>4. owned' \subseteq owned \cup {<<CheatAs(n), n>> : n \in Of(il, kind)}
    BY DEF RouteByCheat
  <1>5. ASSUME NEW p \in owned' PROVE p[2] \in DOMAIN Facts
    <2>1. CASE p \in owned
      BY <2>1 DEF TypeInv, TypeOK
    <2>2. CASE \E t : \E n \in Of(il, kind) : p = <<t, n>>
      BY <2>2, FoundHasFacts
    <2>. QED  BY <1>4, <2>1, <2>2
  <1>6. \/ phase' = "failed" /\ at' = at
        \/ \E next \in Phases : NextPass(next)
    BY DEF RouteByCheat, Fail, Phases, AfterCheat
  <1>7. phase' \in Phases /\ at' \in DOMAIN ils
    BY <1>1, <1>2, <1>6, NextPassType DEF Phases
  <1>. QED  BY <1>1, <1>2, <1>3, <1>5, <1>7, PassType DEF TypeInv

LEMMA LastPassesType ==
  ASSUME TypeInv, PlatformEnums \/ AddExtras \/ CopyCallbacks
  PROVE  TypeInv'
  <1>1. /\ phase \in {"platform enums", "extras", "copies"} /\ phase' \in Phases
        /\ UNCHANGED <<stack, visited, docs, deferred, ils, listed, at, extras, infos>>
    BY DEF PlatformEnums, AddExtras, CopyCallbacks, parsed, Phases, Fail
  <1>2. docs' \in [DOMAIN ClassOf -> DocValues] /\ at' \in DOMAIN ils
    BY <1>1 DEF TypeInv, TypeOK, ParserType
  <1>3. \A p \in owned : p[2] \in DOMAIN Facts
    BY DEF TypeInv, TypeOK
  <1>4. \A p \in owned' : p[2] \in DOMAIN Facts
    <2>1. CASE PlatformEnums
      <3>. SUFFICES ASSUME NEW p \in owned', p \notin owned PROVE p[2] \in DOMAIN Facts
        BY <1>3
      <3>1. \E q \in owned : p = <<ByWords(q[2]), q[2]>>
        BY <2>1 DEF PlatformEnums
      <3>. QED  BY <3>1, <1>3
    <2>2. CASE AddExtras
      BY <2>2, <1>3 DEF AddExtras, TypeInv
    <2>3. CASE CopyCallbacks
      BY <2>3, <1>3 DEF CopyCallbacks
    <2>. QED  BY <2>1, <2>2, <2>3
  <1>. QED  BY <1>1, <1>2, <1>4, PassType DEF TypeInv

LEMMA TypeStep == TypeInv /\ [Next]_vars => TypeInv'
  <1>. SUFFICES ASSUME TypeInv, [Next]_vars PROVE TypeInv'
    OBVIOUS
  <1>1. CASE UNCHANGED vars
    BY <1>1 DEF vars, parserVars, TypeInv, TypeOK, ParserType
  <1>2. CASE Next
    <2>1. CASE Finished
      BY <2>1, <1>1 DEF Finished
    <2>. QED  BY <1>2, <2>1, ParseType, ParseFirstType, ListHeaderType, ParseDeferredType, RouteMethodsType,
                 MergeType, RouteByInterfaceType, RouteByCheatType, LastPassesType DEF Next
  <1>. QED  BY <1>1, <1>2

(* Interfaces, headers and declarations are ones that exist, and the place *)
(* of a loop is one of its list's, whatever the SDK.                       *)
THEOREM TypeCorrect == Spec => []TypeOK
  <1>1. TypeInv => TypeOK
    BY DEF TypeInv
  <1>. QED  BY <1>1, TypeInit, TypeStep, PTL DEF Spec

-----------------------------------------------------------------------------
(* What has been read.  A line has been read when what it declares was put *)
(* down as the reference says, or the header it includes was opened.       *)

EntryOf(h, l) == Entry(ReadFor(h), l.of, l.kind = "declare" /\ LineDeprecated(Old(h), l))

(* A deprecated include is read with the interface's doc put aside: what   *)
(* the interface has is then what the outermost such call saved.           *)
Outer(st, k) == st[k].dep /\ k + 1 \in DOMAIN st /\ ~st[k + 1].dep
OwnDocOf(st, ds, il) ==
    IF \E k \in DOMAIN st : Outer(st, k) /\ st[k].il = il
      THEN st[CHOOSE k \in DOMAIN st : Outer(st, k)].saved ELSE ds[il]
OwnDoc(il) == OwnDocOf(stack, docs, il)

LineRead(h, j) ==
    /\ Lines[h][j].kind = "declare" /\ ~Facts[Lines[h][j].of].skip => EntryOf(h, Lines[h][j]) \in infos
    /\ Lines[h][j].kind = "enum start" =>
         [il |-> ReadFor(h), name |-> Lines[h][j].of] \in Range(deferred)
    /\ Lines[h][j].kind = "include" /\ Lines[h][j].of \in Headers /\ h \in Includers(Lines[h][j].of)
         => Lines[h][j].of \in visited
    /\ Lines[h][j].kind = "interface doc" /\ ~Old(h) =>
         /\ [of |-> Lines[h][j].of, from |-> h] \in OwnDocs
         /\ OwnDoc(ReadFor(h)) = [of |-> Lines[h][j].of, from |-> h]

(* A call reads its header for the interface and with the deprecation the  *)
(* reference gives it; the lines before its place have been read.          *)
FrameOk(f) ==
    /\ f.header \in visited /\ f.header \in Read
    /\ f.il = ReadFor(f.header) /\ f.dep = Old(f.header) /\ f.skip = (f.header = SdkHeader)
    /\ \A j \in DOMAIN Lines[f.header] : j < f.at => LineRead(f.header, j)

Active(h) == \E k \in DOMAIN stack : stack[k].header = h

(* The first headers are opened first, before anything that is listed.     *)
OpenedInTurn ==
    /\ phase = "first" =>
         /\ \A h \in visited : Reader(h) \in Range(FirstHeaders)
         /\ \A j \in DOMAIN FirstHeaders : j < at => FirstHeaders[j] \in visited
    /\ phase = "list" => Range(FirstHeaders) \subseteq visited
    /\ listed \subseteq visited

ReadInv ==
    /\ visited \subseteq Read
    /\ \A k \in DOMAIN stack : FrameOk(stack[k])
    /\ \A h \in visited : Active(h) \/ \A j \in DOMAIN Lines[h] : LineRead(h, j)
    /\ infos \subseteq Expected
    /\ \A d \in Range(deferred) : Entry(d.il, d.name, FALSE) \in Expected
    /\ OpenedInTurn

LEMMA ExpectedEntry ==
  ASSUME NEW h \in Read, NEW j \in DOMAIN Lines[h],
         Lines[h][j].kind \in {"declare", "enum start"}, ~Facts[Lines[h][j].of].skip
  PROVE  EntryOf(h, Lines[h][j]) \in Expected
  <1>1. PICK l : l = Lines[h][j]
    OBVIOUS
  <1>2. l \in Kept(h)
    BY <1>1 DEF Kept, Range
  <1>. DEFINE declares(x) == {EntryOf(x, m) : m \in Kept(x)}
  <1>3. Expected = UNION {declares(x) : x \in Read}
    BY Zenon DEF Expected, EntryOf
  <1>4. EntryOf(h, l) \in declares(h)
    BY <1>2, Zenon
  <1>. HIDE DEF declares
  <1>. QED  BY <1>1, <1>3, <1>4

LEMMA EntryFields ==
  ASSUME NEW il, NEW n, NEW dep
  PROVE  /\ Entry(il, n, dep).il = il /\ Entry(il, n, dep).name = n
         /\ Entry(il, n, dep).deprecated = dep /\ Entry(il, n, dep).kind = Kind(n)
  BY DEF Entry, Kind

(* A declaration replaces nothing but itself.                              *)
LEMMA DeclaredAdds ==
  ASSUME infos \subseteq Expected, NEW il, NEW n, NEW dep, Entry(il, n, dep) \in Expected
  PROVE  Declared(infos, il, n, dep) = infos \cup {Entry(il, n, dep)}
  <1>1. \A i \in infos : i.name = n => i = Entry(il, n, dep)
    BY DeclaredOnce, EntryFields
  <1>. QED  BY <1>1 DEF Declared

(* What has been read stays read.                                          *)
DocsStay == \A il \in DOMAIN ClassOf : OwnDoc(il) # None => OwnDoc(il)' = OwnDoc(il)

Grows == /\ visited \subseteq visited' /\ infos \subseteq infos'
         /\ Range(deferred) \subseteq Range(deferred)'
         /\ DocsStay

LEMMA OwnDocFacts ==
  ASSUME NEW d \in OwnDocs
  PROVE  /\ d.from \in Read /\ ~Old(d.from) /\ ReadFor(d.from) \in DOMAIN ClassOf
         /\ d.of \in DocsIn(d.from) /\ d # None
         /\ d = [of |-> d.of, from |-> d.from]
  <1>1. PICK g \in {f \in Read : ~Old(f)} :
          d \in {[of |-> h, from |-> g] : h \in DocsIn(g)}
    <2>. DEFINE docsOf(x) == {[of |-> h, from |-> x] : h \in DocsIn(x)}
    <2>1. PICK g \in {f \in Read : ~Old(f)} : d \in docsOf(g)
      BY Zenon DEF OwnDocs
    <2>. QED  BY <2>1
  <1>2. Reader(g) \in Headers
    BY <1>1, ReaderStandsAlone, WayHeaders DEF Read
  <1>3. ReadFor(g) \in DOMAIN ClassOf
    BY <1>2, ListingAssumption DEF ReadFor
  <1>4. d # None
    BY NoneAssumption
  <1>5. PICK h \in DocsIn(g) : d = [of |-> h, from |-> g]
    BY <1>1
  <1>6. d.of = h /\ d.from = g
    BY <1>5
  <1>. QED  BY <1>3, <1>4, <1>5, <1>6

LEMMA ReadStays ==
  ASSUME Grows, NEW h, NEW j, LineRead(h, j)
  PROVE  LineRead(h, j)'
  <1>1. ASSUME Lines[h][j].kind = "interface doc" /\ ~Old(h)
        PROVE  /\ [of |-> Lines[h][j].of, from |-> h] \in OwnDocs
               /\ OwnDoc(ReadFor(h))' = [of |-> Lines[h][j].of, from |-> h]
    <2>1. PICK d : d = [of |-> Lines[h][j].of, from |-> h]
      OBVIOUS
    <2>2. d \in OwnDocs /\ OwnDoc(ReadFor(h)) = d /\ d.from = h
      BY <1>1, <2>1 DEF LineRead
    <2>3. ReadFor(h) \in DOMAIN ClassOf /\ d # None
      BY <2>2, OwnDocFacts
    <2>. QED  BY <2>1, <2>2, <2>3 DEF Grows, DocsStay
  <1>. QED  BY <1>1 DEF Grows, LineRead

LEMMA FrameStaysOk ==
  ASSUME Grows, NEW f, FrameOk(f)
  PROVE  FrameOk(f)'
  <1>1. \A j \in DOMAIN Lines[f.header] : j < f.at => LineRead(f.header, j)'
    BY ReadStays DEF FrameOk
  <1>. QED  BY <1>1 DEF FrameOk, Grows

(* One line on: the line at which the top is has now been read.            *)
LEMMA Advancing ==
  ASSUME TypeInv, ReadInv, Grows, stack # <<>>, Top.at \in DOMAIN Lines[Top.header],
         NEW t, t = Top, LineRead(t.header, t.at)'
  PROVE  /\ \A f \in Range(Advanced) : FrameOk(f)'
         /\ \A h : Active(h) <=> \E f \in Range(Advanced) : f.header = h
  <1>. DEFINE adv == Advanced
  <1>1. /\ adv \in Seq(Frames) /\ Len(adv) = Len(stack) /\ stack \in Seq(Frames)
        /\ adv[1] = [Top EXCEPT !.at = Top.at + 1]
        /\ \A k \in DOMAIN adv : k # 1 => adv[k] = stack[k]
        /\ DOMAIN adv = DOMAIN stack /\ 1 \in DOMAIN stack /\ Top = stack[1] /\ Top \in Frames
    BY AdvancedType DEF TypeInv, ParserType, Top
  <1>2. adv[1].header = t.header /\ adv[1].il = t.il /\ adv[1].dep = t.dep
        /\ adv[1].skip = t.skip /\ adv[1].at = t.at + 1 /\ t.at \in Nat /\ t.header \in Headers
    BY <1>1 DEF Frames
  <1>4. FrameOk(t)
    BY <1>1 DEF ReadInv
  <1>5. FrameOk(t)'
    BY <1>4, FrameStaysOk
  <1>6. PICK a : a = adv[1]
    OBVIOUS
  <1>7. FrameOk(a)'
    <2>1. a.header = t.header /\ a.il = t.il /\ a.dep = t.dep /\ a.skip = t.skip /\ a.at = t.at + 1
          /\ t.at \in Nat
      BY <1>2, <1>6
    <2>3. Lines[t.header] \in Seq({Lines[t.header][k] : k \in DOMAIN Lines[t.header]})
      BY <1>2, LinesAssumption
    <2>4. \A j \in DOMAIN Lines[t.header] : j < t.at + 1 => LineRead(t.header, j)'
      <3>1. \A j \in DOMAIN Lines[t.header] : j \in Nat
        BY <2>3
      <3>. QED  BY <1>5, <2>1, <3>1 DEF FrameOk
    <2>. QED  BY <1>5, <2>1, <2>4 DEF FrameOk
  <1>8. ASSUME NEW k \in DOMAIN adv, NEW f, f = adv[k]
        PROVE  FrameOk(f)'
    <2>1. CASE k = 1
      BY <2>1, <1>6, <1>7, <1>8
    <2>2. CASE k # 1
      <3>1. FrameOk(f)
        BY <1>1, <1>8, <2>2 DEF ReadInv
      <3>. QED  BY <3>1, FrameStaysOk
    <2>. QED  BY <2>1, <2>2
  <1>9. \A k \in DOMAIN stack : adv[k].header = stack[k].header
    BY <1>1, <1>2
  <1>. QED  BY <1>1, <1>8, <1>9 DEF Active, Range

(* ReadInv holds after a step that keeps what has been read.               *)
LEMMA ReadInvKept ==
  ASSUME ReadInv, Grows, OpenedInTurn',
         \A f \in Range(stack') : FrameOk(f)',
         \A h \in visited' \ visited : h \in Read /\ Active(h)',
         \A h \in visited : Active(h) => \/ Active(h)'
                                         \/ \A j \in DOMAIN Lines[h] : LineRead(h, j)',
         infos' \subseteq Expected,
         \A d \in Range(deferred') : Entry(d.il, d.name, FALSE) \in Expected
  PROVE  ReadInv'
  <1>1. visited' \subseteq Read
    BY DEF ReadInv
  <1>2. (\A k \in DOMAIN stack : FrameOk(stack[k]))'
    <2>. SUFFICES ASSUME NEW k \in DOMAIN stack' PROVE FrameOk(stack[k])'
      OBVIOUS
    <2>1. PICK f : f = stack'[k]
      OBVIOUS
    <2>2. FrameOk(f)'
      BY <2>1 DEF Range
    <2>. QED  BY <2>1, <2>2
  <1>3. ASSUME NEW h \in visited'
        PROVE  Active(h)' \/ \A j \in DOMAIN Lines[h] : LineRead(h, j)'
    <2>1. CASE h \in visited' \ visited
      BY <2>1
    <2>2. CASE h \in visited /\ Active(h)
      BY <2>2
    <2>3. CASE h \in visited /\ ~Active(h)
      <3>1. \A j \in DOMAIN Lines[h] : LineRead(h, j)
        BY <2>3 DEF ReadInv
      <3>. QED  BY <3>1, ReadStays
    <2>. QED  BY <2>1, <2>2, <2>3
  <1>. QED  BY <1>1, <1>2, <1>3 DEF ReadInv

(* A line that opens nothing.                                              *)
LEMMA ReadLine ==
  ASSUME TypeInv, ReadInv, Grows, stack # <<>>, Top.at \in DOMAIN Lines[Top.header],
         stack' = Advanced, UNCHANGED <<visited, phase, at, listed>>,
         NEW t, t = Top, LineRead(t.header, t.at)',
         infos' \subseteq Expected,
         \A d \in Range(deferred') : Entry(d.il, d.name, FALSE) \in Expected
  PROVE  ReadInv'
  <1>1. /\ \A f \in Range(Advanced) : FrameOk(f)'
        /\ \A h : Active(h) <=> \E f \in Range(Advanced) : f.header = h
    BY Advancing
  <1>2. \A h : Active(h)' <=> \E f \in Range(Advanced) : f.header = h
    BY DEF Active, Range
  <1>3. \A f \in Range(stack') : FrameOk(f)'
    <2>1. Range(stack') = Range(Advanced)
      OBVIOUS
    <2>. QED  BY <1>1, <2>1
  <1>4. visited' \ visited = {}
    OBVIOUS
  <1>5. \A h : Active(h) => Active(h)'
    BY <1>1, <1>2
  <1>6. OpenedInTurn'
    BY DEF OpenedInTurn, ReadInv
  <1>. QED  BY <1>3, <1>4, <1>5, <1>6, ReadInvKept

LEMMA DocOrLatestRead ==
  ASSUME TypeInv, ReadInv, DocsStay, InterfaceDoc \/ ApiLatest, UNCHANGED <<phase, at, listed>>,
         NEW t, t = Top, NEW doc, doc = [of |-> Line.of, from |-> t.header],
         InterfaceDoc /\ ~Old(t.header) => doc \in OwnDocs /\ OwnDoc(ReadFor(t.header))' = doc
  PROVE  ReadInv'
  <1>1. \E kind \in {"interface doc", "latest"} : Reading(kind)
        /\ stack' = Advanced /\ UNCHANGED <<visited, infos, deferred>>
    BY DEF InterfaceDoc, ApiLatest
  <1>3. stack # <<>> /\ t.at \in DOMAIN Lines[t.header] /\ Line = Lines[t.header][t.at]
        /\ Lines[t.header][t.at].kind \in {"interface doc", "latest"}
    BY <1>1, ReadingFacts DEF TypeInv
  <1>4. LineRead(t.header, t.at)'
    <2>1. Lines[t.header][t.at].kind = "interface doc" => InterfaceDoc
      BY <1>3 DEF ApiLatest, Reading
    <2>2. Lines[t.header][t.at].kind = "interface doc" /\ ~Old(t.header) =>
            /\ [of |-> Lines[t.header][t.at].of, from |-> t.header] \in OwnDocs
            /\ OwnDoc(ReadFor(t.header))' = [of |-> Lines[t.header][t.at].of, from |-> t.header]
      BY <2>1, <1>3
    <2>. QED  BY <1>3, <2>2 DEF LineRead
  <1>5. Grows
    BY <1>1 DEF Grows
  <1>6. infos' \subseteq Expected /\ \A d \in Range(deferred') : Entry(d.il, d.name, FALSE) \in Expected
    BY <1>1 DEF ReadInv
  <1>. QED  BY <1>1, <1>3, <1>4, <1>5, <1>6, ReadLine

LEMMA DeclareRead ==
  ASSUME TypeInv, ReadInv, DocsStay, Declare, UNCHANGED <<phase, at, listed>>
  PROVE  ReadInv'
  <1>1. Reading("declare") /\ stack' = Advanced /\ UNCHANGED <<visited, deferred>>
    BY DEF Declare
  <1>2. PICK t : t = Top
    OBVIOUS
  <1>. DEFINE l == Lines[t.header][t.at]
  <1>3. stack # <<>> /\ t.at \in DOMAIN Lines[t.header] /\ l.kind = "declare" /\ Line = l
        /\ t = stack[1] /\ 1 \in DOMAIN stack
    <2>1. stack # <<>> /\ stack \in Seq(Frames) /\ ParserType
      BY <1>1, ReadingFacts DEF TypeInv, ParserType
    <2>2. 1 \in DOMAIN stack
      BY <2>1
    <2>. QED  BY <1>1, <1>2, <2>1, <2>2, ReadingFacts
  <1>4. FrameOk(t)
    BY <1>3 DEF ReadInv
  <1>5. Entry(t.il, l.of, LineDeprecated(t.dep, l)) = EntryOf(t.header, l)
    <2>1. (l.kind = "declare" /\ LineDeprecated(Old(t.header), l)) = LineDeprecated(t.dep, l)
      BY <1>3, <1>4 DEF FrameOk, LineDeprecated
    <2>. QED  BY <2>1, <1>4 DEF FrameOk, EntryOf
  <1>6. CASE Facts[l.of].skip
    <2>1. infos' = infos
      BY <1>6, <1>2, <1>3 DEF Declare
    <2>2. LineRead(t.header, t.at)' /\ Grows
      BY <2>1, <1>1, <1>3, <1>6 DEF LineRead, Grows
    <2>3. infos' \subseteq Expected /\ \A d \in Range(deferred') : Entry(d.il, d.name, FALSE) \in Expected
      BY <2>1, <1>1 DEF ReadInv
    <2>. QED  BY <1>1, <1>2, <1>3, <2>2, <2>3, ReadLine
  <1>7. CASE ~Facts[l.of].skip
    <2>1. EntryOf(t.header, l) \in Expected
      BY <1>3, <1>4, <1>7, ExpectedEntry DEF FrameOk
    <2>2. infos' = Declared(infos, t.il, l.of, LineDeprecated(t.dep, l))
      BY <1>2, <1>3, <1>7 DEF Declare
    <2>3. infos' = infos \cup {EntryOf(t.header, l)}
      BY <2>1, <2>2, <1>5, DeclaredAdds DEF ReadInv
    <2>4. LineRead(t.header, t.at)' /\ Grows
      BY <2>3, <1>1, <1>3 DEF LineRead, Grows
    <2>5. infos' \subseteq Expected /\ \A d \in Range(deferred') : Entry(d.il, d.name, FALSE) \in Expected
      BY <2>1, <2>3, <1>1 DEF ReadInv
    <2>. QED  BY <1>1, <1>2, <1>3, <2>4, <2>5, ReadLine
  <1>. QED  BY <1>6, <1>7

LEMMA EnumStartRead ==
  ASSUME TypeInv, ReadInv, DocsStay, EnumStart, UNCHANGED <<phase, at, listed>>
  PROVE  ReadInv'
  <1>1. Reading("enum start") /\ stack' = Advanced /\ UNCHANGED <<visited, infos>>
        /\ deferred' = Append(deferred, [il |-> Top.il, name |-> Line.of])
    BY DEF EnumStart
  <1>2. PICK t : t = Top
    OBVIOUS
  <1>. DEFINE l == Lines[t.header][t.at]
  <1>3. stack # <<>> /\ t.at \in DOMAIN Lines[t.header] /\ l.kind = "enum start" /\ Line = l
        /\ t = stack[1] /\ 1 \in DOMAIN stack /\ t.header \in Headers
    <2>1. stack # <<>> /\ stack \in Seq(Frames) /\ ParserType
      BY <1>1, ReadingFacts DEF TypeInv, ParserType
    <2>2. 1 \in DOMAIN stack
      BY <2>1
    <2>. QED  BY <1>1, <1>2, <2>1, <2>2, ReadingFacts
  <1>4. FrameOk(t)
    BY <1>3 DEF ReadInv
  <1>5. PICK d : d = [il |-> t.il, name |-> l.of]
    OBVIOUS
  <1>6. Range(deferred') = Range(deferred) \cup {d}
    <2>1. deferred' = Append(deferred, d)
      BY <1>1, <1>2, <1>3, <1>5
    <2>2. deferred \in Seq(Deferreds)
      BY DEF TypeInv, ParserType
    <2>3. /\ DOMAIN Append(deferred, d) = 1 .. Len(deferred) + 1
          /\ Append(deferred, d)[Len(deferred) + 1] = d
          /\ \A k \in 1 .. Len(deferred) : Append(deferred, d)[k] = deferred[k]
      BY <2>2
    <2>4. DOMAIN deferred = 1 .. Len(deferred) /\ Len(deferred) \in Nat
      BY <2>2
    <2>5. ASSUME NEW x
          PROVE  x \in Range(deferred') <=> x \in Range(deferred) \/ x = d
      BY <2>1, <2>3, <2>4 DEF Range
    <2>. QED  BY <2>5
  <1>7. EntryOf(t.header, l) \in Expected
    BY <1>3, <1>4, ExpectedEntry, LinesAssumption DEF FrameOk
  <1>8. EntryOf(t.header, l) = Entry(d.il, d.name, FALSE)
    BY <1>3, <1>4, <1>5 DEF EntryOf, FrameOk
  <1>9. LineRead(t.header, t.at)' /\ Grows
    BY <1>1, <1>3, <1>4, <1>5, <1>6 DEF LineRead, Grows, FrameOk
  <1>10. infos' \subseteq Expected /\ \A e \in Range(deferred') : Entry(e.il, e.name, FALSE) \in Expected
    BY <1>1, <1>6, <1>7, <1>8 DEF ReadInv
  <1>. QED  BY <1>1, <1>2, <1>3, <1>9, <1>10, ReadLine

(* A call reads what the frames below it read, and a header of its own.    *)
LEMMA CallRead ==
  ASSUME TypeInv, Grows, NEW cs \in Seq(Frames), \A f \in Range(cs) : FrameOk(f)',
         \A x : Active(x) => \E f \in Range(cs) : f.header = x,
         NEW il, NEW h \in Headers, NEW dep, NEW skip, Call(cs, il, h, dep, skip),
         h \notin visited => /\ h \in Read /\ il = ReadFor(h)
                             /\ dep = Old(h) /\ skip = (h = SdkHeader)
  PROVE  /\ \A f \in Range(stack') : FrameOk(f)'
         /\ \A x \in visited' \ visited : x = h /\ x \in Read /\ Active(x)'
         /\ \A x : Active(x) => Active(x)'
         /\ visited' = visited \cup {h}
  <1>1. visited' = visited \cup {h}
    BY DEF Call
  <1>2. CASE h \in visited
    <2>1. stack' = cs /\ visited' = visited
      BY <1>2 DEF Call
    <2>. QED  BY <1>1, <2>1 DEF Active, Range
  <1>3. CASE h \notin visited
    <2>1. PICK f : f = Frame(il, h, dep, skip, docs[il])
      OBVIOUS
    <2>2. f.header = h /\ f.il = il /\ f.dep = dep /\ f.skip = skip /\ f.at = 1
      BY <2>1 DEF Frame
    <2>3. stack' = <<f>> \o cs
      BY <1>3, <2>1 DEF Call
    <2>4. DOMAIN Lines[h] \subseteq Nat \ {0}
      <3>1. Lines[h] \in Seq({Lines[h][k] : k \in DOMAIN Lines[h]})
        BY LinesAssumption
      <3>. QED  BY <3>1
    <2>5. FrameOk(f)'
      <3>1. \A j \in DOMAIN Lines[h] : ~(j < 1)
        BY <2>4
      <3>. QED  BY <1>1, <1>3, <2>2, <3>1 DEF FrameOk
    <2>6. Range(stack') = {f} \cup Range(cs)
      <3>1. /\ DOMAIN (<<f>> \o cs) = 1 .. Len(cs) + 1 /\ Len(cs) \in Nat
            /\ DOMAIN cs = 1 .. Len(cs)
            /\ (<<f>> \o cs)[1] = f
            /\ \A k \in 1 .. Len(cs) : (<<f>> \o cs)[k + 1] = cs[k]
        OBVIOUS
      <3>2. \A k \in 2 .. Len(cs) + 1 : (<<f>> \o cs)[k] = cs[k - 1] /\ k - 1 \in DOMAIN cs
        OBVIOUS
      <3>3. ASSUME NEW x PROVE x \in Range(stack') <=> x = f \/ x \in Range(cs)
        <4>1. ASSUME x \in Range(stack') PROVE x = f \/ x \in Range(cs)
          <5>1. PICK k \in 1 .. Len(cs) + 1 : x = (<<f>> \o cs)[k]
            BY <4>1, <2>3, <3>1 DEF Range
          <5>2. k = 1 \/ k \in 2 .. Len(cs) + 1
            BY <3>1
          <5>. QED  BY <5>1, <5>2, <3>1, <3>2 DEF Range
        <4>2. ASSUME x = f \/ x \in Range(cs) PROVE x \in Range(stack')
          <5>1. f \in Range(stack')
            BY <2>3, <3>1 DEF Range
          <5>2. ASSUME NEW k \in DOMAIN cs PROVE cs[k] \in Range(stack')
            <6>1. k + 1 \in DOMAIN stack' /\ stack'[k + 1] = cs[k]
              BY <2>3, <3>1
            <6>. QED  BY <6>1 DEF Range
          <5>. QED  BY <4>2, <5>1, <5>2 DEF Range
        <4>. QED  BY <4>1, <4>2
      <3>. QED  BY <3>3
    <2>7. \A x : Active(x)' <=> \E g \in Range(stack') : g.header = x
      BY DEF Active, Range
    <2>. QED  BY <1>1, <1>3, <2>2, <2>5, <2>6, <2>7
  <1>. QED  BY <1>2, <1>3

(* An include that is followed to a header not read yet is that of the one *)
(* header that includes it: it is read through it.                         *)
LEMMA IncludeFollowed ==
  ASSUME TypeInv, ReadInv, phase \in {"first", "list"},
         NEW g \in visited, NEW h \in Says(g, "include"),
         g # SdkHeader, h \in Headers, h \notin visited, ~About[h].common,
         About[h].main \in Headers => About[About[h].main].il = ReadFor(g)
  PROVE  /\ h \in Read /\ ReadFor(h) = ReadFor(g) /\ Reader(h) = Reader(g)
         /\ Old(h) = (Old(g) \/ About[h].deprecated) /\ h # SdkHeader
         /\ phase = "first" => Reader(h) \in Range(FirstHeaders)
  <1>1. g \in Read /\ g \in Headers
    BY DEF ReadInv, TypeInv, TypeOK
  <1>2. g \in Includers(h)
    BY <1>1, IncludesAssumption DEF Includers
  <1>3. h \notin Listed
    BY <1>2, IncludesAssumption
  <1>4. h \notin Range(FirstHeaders)
    <2>. SUFFICES ASSUME h \in Range(FirstHeaders) PROVE FALSE
      OBVIOUS
    <2>1. phase = "first"
      BY DEF ReadInv, OpenedInTurn
    <2>2. Reader(g) \in Range(FirstHeaders)
      BY <2>1 DEF ReadInv, OpenedInTurn
    <2>3. Reader(g) \in Way[g]
      BY <1>1, ReaderStandsAlone
    <2>. QED  BY <1>2, <2>2, <2>3, IncludesAssumption
  <1>5. ~StandsAlone(h)
    BY <1>3, <1>4 DEF StandsAlone
  <1>6. h \in Read /\ Reader(h) = Reader(g) /\ (Old(h) <=> About[h].deprecated \/ Old(g))
    BY <1>1, <1>2, <1>5, ReadIncluded
  <1>7. h # SdkHeader
    BY <1>3, ListingAssumption
  <1>8. phase = "first" => Reader(g) \in Range(FirstHeaders)
    BY DEF ReadInv, OpenedInTurn
  <1>9. Old(h) \in BOOLEAN /\ Old(g) \in BOOLEAN /\ About[h].deprecated \in BOOLEAN
    BY LinesAssumption DEF Old
  <1>. QED  BY <1>6, <1>7, <1>8, <1>9 DEF ReadFor

LEMMA IncludeRead ==
  ASSUME TypeInv, ReadInv, DocsStay, phase \in {"first", "list"}, Include, UNCHANGED <<phase, at, listed>>
  PROVE  ReadInv'
  <1>1. Reading("include") /\ UNCHANGED <<infos, docs, deferred, latest>>
    BY DEF Include
  <1>2. PICK t : t = Top
    OBVIOUS
  <1>. DEFINE l == Lines[t.header][t.at]
  <1>3. /\ stack # <<>> /\ t.at \in DOMAIN Lines[t.header] /\ l.kind = "include" /\ Line = l
        /\ t = stack[1] /\ 1 \in DOMAIN stack /\ t.header \in Headers
        /\ l.of \in Says(t.header, "include") /\ Advanced \in Seq(Frames)
    <2>1. stack # <<>> /\ stack \in Seq(Frames) /\ ParserType
      BY <1>1, ReadingFacts DEF TypeInv, ParserType
    <2>2. 1 \in DOMAIN stack /\ Advanced \in Seq(Frames)
      BY <2>1, AdvancedType
    <2>. QED  BY <1>1, <1>2, <2>1, <2>2, ReadingFacts
  <1>4. FrameOk(t)
    BY <1>3 DEF ReadInv
  <1>5. infos' \subseteq Expected /\ \A d \in Range(deferred') : Entry(d.il, d.name, FALSE) \in Expected
    BY <1>1 DEF ReadInv
  <1>6. CASE ~Included(t, l.of)
    <2>1. stack' = Advanced /\ visited' = visited
      BY <1>2, <1>3, <1>6 DEF Include
    <2>2. Grows
      BY <1>1, <2>1 DEF Grows
    <2>3. LineRead(t.header, t.at)'
      <3>. SUFFICES ASSUME l.of \in Headers, t.header \in Includers(l.of) PROVE FALSE
        BY <1>3 DEF LineRead
      <3>1. /\ t.header # SdkHeader /\ ~About[l.of].common
            /\ About[l.of].main \in Headers => About[l.of].main = t.header
        BY DEF Includers
      <3>2. t.header \in Read /\ t.il = ReadFor(t.header) /\ ~t.skip
        BY <1>4, <3>1 DEF FrameOk
      <3>3. About[l.of].main \in Headers => About[About[l.of].main].il = t.il
        <4>. SUFFICES ASSUME About[l.of].main \in Headers PROVE About[t.header].il = t.il
          BY <3>1
        <4>1. StandsAlone(t.header)
          BY <1>3, <3>1, <3>2, IncludesAssumption
        <4>2. Reader(t.header) = t.header
          BY <1>3, <4>1, ReadAlone
        <4>. QED  BY <3>2, <4>2 DEF ReadFor
      <3>. QED  BY <1>6, <3>1, <3>2, <3>3 DEF Included
    <2>. QED  BY <1>2, <1>3, <1>5, <2>1, <2>2, <2>3, ReadLine
  <1>7. CASE Included(t, l.of)
    <2>. DEFINE dep == t.dep \/ About[l.of].deprecated
    <2>1. Call(Advanced, t.il, l.of, dep, FALSE) /\ l.of \in Headers
      BY <1>2, <1>3, <1>7 DEF Include, Included
    <2>2. visited' = visited \cup {l.of} /\ Grows
      BY <1>1, <2>1 DEF Call, Grows
    <2>3. LineRead(t.header, t.at)'
      BY <1>3, <2>2 DEF LineRead
    <2>4. /\ \A f \in Range(Advanced) : FrameOk(f)'
          /\ \A x : Active(x) <=> \E f \in Range(Advanced) : f.header = x
      BY <1>2, <1>3, <2>2, <2>3, Advancing
    <2>5. l.of \notin visited =>
            /\ l.of \in Read /\ t.il = ReadFor(l.of) /\ dep = Old(l.of) /\ l.of # SdkHeader
            /\ phase = "first" => Reader(l.of) \in Range(FirstHeaders)
      <3>. SUFFICES ASSUME l.of \notin visited
                    PROVE  /\ l.of \in Read /\ t.il = ReadFor(l.of) /\ dep = Old(l.of) /\ l.of # SdkHeader
                           /\ phase = "first" => Reader(l.of) \in Range(FirstHeaders)
        OBVIOUS
      <3>1. t.header \in visited /\ t.header # SdkHeader /\ t.il = ReadFor(t.header)
            /\ t.dep = Old(t.header)
        BY <1>4, <1>7 DEF FrameOk, Included
      <3>2. l.of \in Headers /\ ~About[l.of].common
            /\ (About[l.of].main \in Headers => About[About[l.of].main].il = ReadFor(t.header))
        BY <1>7, <3>1 DEF Included
      <3>. QED  BY <1>3, <3>1, <3>2, IncludeFollowed
    <2>6. l.of \notin visited => FALSE = (l.of = SdkHeader)
      BY <2>5
    <2>7. /\ \A f \in Range(stack') : FrameOk(f)'
          /\ \A x \in visited' \ visited : x = l.of /\ x \in Read /\ Active(x)'
          /\ \A x : Active(x) => Active(x)'
      <3>. HIDE DEF dep, l
      <3>. QED  BY <1>3, <2>1, <2>2, <2>4, <2>5, <2>6, CallRead
    <2>8. OpenedInTurn'
      BY <2>2, <2>5, <2>7 DEF OpenedInTurn, ReadInv
    <2>. QED  BY <1>5, <2>2, <2>7, <2>8, ReadInvKept
  <1>. QED  BY <1>6, <1>7

LEMMA ReturnRead ==
  ASSUME TypeInv, ReadInv, DocsStay, Return, UNCHANGED <<phase, at, listed>>
  PROVE  ReadInv'
  <1>1. stack # <<>> /\ Top.at > Len(Lines[Top.header]) /\ stack' = Tail(stack)
        /\ UNCHANGED <<visited, infos, deferred, latest>>
    BY DEF Return
  <1>2. /\ stack \in Seq(Frames) /\ Top = stack[1] /\ Top \in Frames /\ 1 \in DOMAIN stack
        /\ Len(stack) \in Nat /\ DOMAIN stack = 1 .. Len(stack)
        /\ DOMAIN Tail(stack) = 1 .. Len(stack) - 1
        /\ \A k \in 1 .. Len(stack) - 1 : Tail(stack)[k] = stack[k + 1]
    BY <1>1 DEF TypeInv, ParserType, Top
  <1>3. Grows /\ OpenedInTurn'
    BY <1>1 DEF Grows, OpenedInTurn, ReadInv
  <1>4. \A f \in Range(stack') : FrameOk(f)'
    <2>. SUFFICES ASSUME NEW f \in Range(stack') PROVE FrameOk(f)'
      OBVIOUS
    <2>1. PICK k \in DOMAIN stack : f = stack[k]
      BY <1>1, <1>2 DEF Range
    <2>2. FrameOk(f)
      BY <2>1 DEF ReadInv
    <2>. QED  BY <1>3, <2>2, FrameStaysOk
  <1>5. ASSUME NEW x \in visited, Active(x)
        PROVE  Active(x)' \/ \A j \in DOMAIN Lines[x] : LineRead(x, j)'
    <2>1. PICK k \in DOMAIN stack : stack[k].header = x
      BY <1>5 DEF Active
    <2>2. CASE k = 1
      <3>1. PICK t : t = Top
        OBVIOUS
      <3>2. FrameOk(t) /\ t.header = x /\ t.header \in Headers /\ t.at \in Nat
            /\ t.at > Len(Lines[t.header])
        BY <1>1, <1>2, <2>1, <2>2, <3>1 DEF ReadInv, Frames
      <3>3. Lines[x] \in Seq({Lines[x][j] : j \in DOMAIN Lines[x]})
        BY <3>2, LinesAssumption
      <3>4. \A j \in DOMAIN Lines[x] : j < t.at
        BY <3>2, <3>3
      <3>5. \A j \in DOMAIN Lines[x] : LineRead(x, j)
        BY <3>2, <3>4 DEF FrameOk
      <3>. QED  BY <1>3, <3>5, ReadStays
    <2>3. CASE k # 1
      <3>1. k - 1 \in 1 .. Len(stack) - 1
        BY <1>2, <2>3
      <3>2. k - 1 \in DOMAIN stack' /\ stack'[k - 1] = stack[k]
        BY <1>1, <1>2, <3>1
      <3>. QED  BY <2>1, <3>2 DEF Active
    <2>. QED  BY <2>2, <2>3
  <1>6. infos' \subseteq Expected /\ \A d \in Range(deferred') : Entry(d.il, d.name, FALSE) \in Expected
    BY <1>1 DEF ReadInv
  <1>7. visited' \ visited = {}
    BY <1>1
  <1>. QED  BY <1>3, <1>4, <1>5, <1>6, <1>7, ReadInvKept

(* The calls from outside: a header that stands alone is read for itself.  *)
LEMMA OutsideCallRead ==
  ASSUME TypeInv, ReadInv, DocsStay, stack = <<>>, UNCHANGED <<infos, docs, deferred, latest>>,
         NEW h \in Headers, StandsAlone(h), NEW dep, NEW skip,
         Call(<<>>, About[h].il, h, dep, skip), OpenedInTurn',
         h \notin visited => dep = Old(h) /\ skip = (h = SdkHeader)
  PROVE  ReadInv'
  <1>1. h \in Read /\ Reader(h) = h
    BY ReadAlone
  <1>2. Grows /\ visited' = visited \cup {h}
    BY DEF Grows, Call
  <1>3. <<>> \in Seq(Frames) /\ Range(<<>>) = {} /\ \A x : ~Active(x)
    BY DEF Active, Range
  <1>4. h \notin visited => /\ h \in Read /\ About[h].il = ReadFor(h)
                            /\ dep = Old(h) /\ skip = (h = SdkHeader)
    BY <1>1 DEF ReadFor
  <1>5. /\ \A f \in Range(stack') : FrameOk(f)'
        /\ \A x \in visited' \ visited : x = h /\ x \in Read /\ Active(x)'
        /\ \A x : Active(x) => Active(x)'
    BY <1>2, <1>3, <1>4, CallRead
  <1>6. infos' \subseteq Expected /\ \A d \in Range(deferred') : Entry(d.il, d.name, FALSE) \in Expected
    BY DEF ReadInv
  <1>. QED  BY <1>2, <1>5, <1>6, ReadInvKept

LEMMA ParseFirstRead ==
  ASSUME TypeInv, ReadInv, DocsStay, ParseFirst
  PROVE  ReadInv'
  <1>1. PICK h : h = FirstHeaders[at]
    OBVIOUS
  <1>2. /\ phase = "first" /\ stack = <<>> /\ Call(<<>>, About[h].il, h, FALSE, FALSE)
        /\ UNCHANGED <<infos, docs, deferred, latest, listed, resolved>>
    BY <1>1 DEF ParseFirst
  <1>3. at \in DOMAIN FirstHeaders /\ FirstHeaders \in Seq(Headers)
    BY <1>2, ListingAssumption DEF TypeInv, TypeOK
  <1>4. h \in Headers /\ h \in Range(FirstHeaders) /\ StandsAlone(h)
    BY <1>1, <1>3 DEF Range, StandsAlone
  <1>5. FALSE = Old(h) /\ FALSE = (h = SdkHeader) /\ Reader(h) = h
    <2>1. ~Old(h) /\ Reader(h) = h
      BY <1>4, ReadAlone
    <2>2. h # SdkHeader
      BY <1>4, ListingAssumption
    <2>. QED  BY <2>1, <2>2 DEF Old
  <1>6. OpenedInTurn'
    <2>1. visited' = visited \cup {h} /\ listed' = listed
      BY <1>2 DEF Call
    <2>2. \A j \in DOMAIN FirstHeaders : j <= at => FirstHeaders[j] \in visited'
      <3>1. \A j \in DOMAIN FirstHeaders : j < at => FirstHeaders[j] \in visited
        BY <1>2 DEF ReadInv, OpenedInTurn
      <3>2. \A j \in DOMAIN FirstHeaders : j \in Nat /\ at \in Nat
        BY <1>3
      <3>. QED  BY <1>1, <2>1, <3>1, <3>2
    <2>3. \A x \in visited' : Reader(x) \in Range(FirstHeaders)
      BY <1>2, <1>4, <1>5, <2>1 DEF ReadInv, OpenedInTurn
    <2>4. CASE at = Len(FirstHeaders)
      <3>1. phase' = "list"
        BY <2>4 DEF ParseFirst
      <3>2. \A j \in DOMAIN FirstHeaders : j <= at
        BY <1>3, <2>4
      <3>3. Range(FirstHeaders) \subseteq visited'
        BY <2>2, <3>2 DEF Range
      <3>. QED  BY <2>1, <3>1, <3>3 DEF OpenedInTurn, ReadInv
    <2>5. CASE at # Len(FirstHeaders)
      <3>1. phase' = "first" /\ at' = at + 1
        BY <1>2, <2>5 DEF ParseFirst
      <3>2. \A j \in DOMAIN FirstHeaders : j < at' => FirstHeaders[j] \in visited'
        <4>1. \A j \in DOMAIN FirstHeaders : j \in Nat /\ at \in Nat
          BY <1>3
        <4>. QED  BY <2>2, <3>1, <4>1
      <3>. QED  BY <2>1, <2>3, <3>1, <3>2 DEF OpenedInTurn, ReadInv
    <2>. QED  BY <2>4, <2>5
  <1>. QED  BY <1>2, <1>4, <1>5, <1>6, OutsideCallRead

LEMMA ListHeaderRead ==
  ASSUME TypeInv, ReadInv, DocsStay, NEW h \in Headers, ListHeader(h)
  PROVE  ReadInv'
  <1>1. /\ phase = "list" /\ stack = <<>> /\ h \in Listed
        /\ listed' = listed \cup {h}
        /\ Call(<<>>, About[h].il, h, About[h].deprecated, h = SdkHeader)
        /\ UNCHANGED <<infos, docs, deferred, latest, phase, at, resolved>>
    BY DEF ListHeader
  <1>2. StandsAlone(h)
    BY <1>1 DEF StandsAlone
  <1>3. h \notin visited => About[h].deprecated = Old(h)
    <2>1. h \notin visited => h \notin Range(FirstHeaders)
      BY <1>1 DEF ReadInv, OpenedInTurn
    <2>2. About[h].deprecated \in BOOLEAN
      BY LinesAssumption
    <2>. QED  BY <1>2, <2>1, <2>2, ReadAlone DEF Old
  <1>4. OpenedInTurn'
    BY <1>1 DEF OpenedInTurn, ReadInv, Call
  <1>. QED  BY <1>1, <1>2, <1>3, <1>4, OutsideCallRead

(* When the listing is through, every header that can be read was.         *)
LEMMA AllRead ==
  ASSUME TypeInv, ReadInv, phase = "list", stack = <<>>, listed = Listed
  PROVE  \A h \in Read : h \in visited /\ \A j \in DOMAIN Lines[h] : LineRead(h, j)
  <1>1. \A h \in visited : \A j \in DOMAIN Lines[h] : LineRead(h, j)
    BY DEF ReadInv, Active
  <1>2. \A h \in Headers : StandsAlone(h) => h \in visited
    BY DEF ReadInv, OpenedInTurn, StandsAlone
  <1>. DEFINE Missed == {h \in Headers : ~StandsAlone(h) /\ h \in Read /\ h \notin visited}
  <1>3. Missed = {}
    <2>. SUFFICES ASSUME Missed # {} PROVE FALSE
      OBVIOUS
    <2>1. PICK h \in Missed : Includers(h) \cap Missed = {}
      BY NoCycle
    <2>2. PICK g \in Includers(h) : g \in Read
      BY ReadThrough
    <2>3. g \in Headers /\ h \in Says(g, "include")
      BY DEF Includers
    <2>4. g \in visited
      BY <2>1, <2>2, <2>3, <1>2
    <2>5. PICK j \in DOMAIN Lines[g] : Lines[g][j].kind = "include" /\ Lines[g][j].of = h
      BY <2>3 DEF Says, Range
    <2>6. LineRead(g, j)
      BY <2>4, <1>1
    <2>. QED  BY <2>2, <2>5, <2>6 DEF LineRead
  <1>4. Read \subseteq Headers
    BY DEF Read
  <1>. QED  BY <1>1, <1>2, <1>3, <1>4

LEMMA ParseDeferredRead ==
  ASSUME TypeInv, ReadInv, ParseDeferred
  PROVE  infos' = Expected
  <1>1. phase = "list" /\ stack = <<>> /\ listed = Listed /\ infos' = DeferredDeclared
    BY DEF ParseDeferred
  <1>. DEFINE added == {Entry(d.il, d.name, FALSE) : d \in Range(deferred)}
  <1>2. DeferredDeclared =
          {i \in infos : \A d \in Range(deferred) : i.il # d.il \/ i.name # d.name} \cup added
    BY DEF DeferredDeclared, Range
  <1>3. added \subseteq Expected
    BY DEF ReadInv
  <1>4. DeferredDeclared \subseteq Expected
    BY <1>2, <1>3 DEF ReadInv
  <1>5. ASSUME NEW e \in Expected PROVE e \in DeferredDeclared
    <2>1. \A d \in Range(deferred) : e.name = d.name => e = Entry(d.il, d.name, FALSE)
      <3>. SUFFICES ASSUME NEW d \in Range(deferred), e.name = d.name
                    PROVE  e = Entry(d.il, d.name, FALSE)
        OBVIOUS
      <3>1. PICK a : a = Entry(d.il, d.name, FALSE)
        OBVIOUS
      <3>2. a \in Expected
        BY <3>1, <1>3
      <3>3. a.name = d.name
        BY <3>1 DEF Entry
      <3>. QED  BY <3>1, <3>2, <3>3, DeclaredOnce
    <2>2. e \in infos => e \in DeferredDeclared
      BY <1>2, <2>1
    <2>a. PICK h \in Read : \E k \in Kept(h) : e = EntryOf(h, k)
      <3>. DEFINE declares(x) == {Entry(ReadFor(x), k.of, k.kind = "declare" /\ LineDeprecated(Old(x), k)) :
                                    k \in Kept(x)}
      <3>1. PICK h \in Read : e \in declares(h)
        BY Zenon DEF Expected
      <3>. QED  BY <3>1, Zenon DEF EntryOf
    <2>3. PICK l \in Kept(h) : e = EntryOf(h, l)
      BY <2>a
    <2>4. PICK j \in DOMAIN Lines[h] : l = Lines[h][j]
      BY DEF Kept, Range
    <2>5. LineRead(h, j)
      BY <1>1, AllRead
    <2>6. CASE l.kind = "declare"
      <3>1. e \in infos
        BY <2>3, <2>4, <2>5, <2>6 DEF LineRead, Kept
      <3>. QED  BY <2>2, <3>1
    <2>7. CASE l.kind = "enum start"
      <3>1. PICK d \in Range(deferred) : d = [il |-> ReadFor(h), name |-> l.of]
        BY <2>4, <2>5, <2>7 DEF LineRead
      <3>2. e = Entry(d.il, d.name, FALSE)
        BY <2>3, <2>7, <3>1 DEF EntryOf
      <3>. QED  BY <1>2, <3>2
    <2>. QED  BY <2>6, <2>7 DEF Kept
  <1>. QED  BY <1>1, <1>4, <1>5

(* The calls that are active are for one interface, and what is deprecated *)
(* is deprecated for whatever it includes.                                 *)
StackOk(st) ==
    /\ st \in Seq(Frames)
    /\ \A j, k \in DOMAIN st : st[j].il = st[k].il /\ (j <= k /\ st[k].dep => st[j].dep)
    /\ \A k \in DOMAIN st :
          /\ k + 1 \in DOMAIN st => (st[k].dep <=> st[k + 1].dep \/ About[st[k].header].deprecated)
          /\ st[Len(st)].dep => Old(Reader(st[k].header))
    /\ st # <<>> => ~st[1].dep \/ st[Len(st)].dep \/ \E k \in DOMAIN st : Outer(st, k)
SavedOk(st, ds) == \A k \in DOMAIN st : st[Len(st)].dep => st[k].saved = ds[st[k].il]
DocsOk(st, ds) ==
    \A il \in DOMAIN ClassOf :
      OwnDocOf(st, ds, il) # None =>
        OwnDocOf(st, ds, il) \in OwnDocs /\ ReadFor(OwnDocOf(st, ds, il).from) = il
StackInv == StackOk(stack) /\ SavedOk(stack, docs) /\ DocsOk(stack, docs)

LEMMA OneOuter ==
  ASSUME NEW st, StackOk(st), NEW j \in DOMAIN st, NEW k \in DOMAIN st, Outer(st, j), Outer(st, k)
  PROVE  j = k
  <1>1. j \in Nat /\ k \in Nat
    BY DEF StackOk
  <1>2. ASSUME NEW a \in DOMAIN st, NEW b \in DOMAIN st, Outer(st, a), Outer(st, b), a < b,
               a \in Nat, b \in Nat
        PROVE  FALSE
    <2>1. a + 1 <= b /\ a + 1 \in DOMAIN st /\ ~st[a + 1].dep /\ st[b].dep
      BY <1>2 DEF Outer
    <2>. QED  BY <2>1 DEF StackOk
  <1>3. ~(j < k) /\ ~(k < j)
    BY <1>1, <1>2
  <1>. QED  BY <1>1, <1>3

LEMMA OwnDocIs ==
  ASSUME NEW st, StackOk(st), NEW ds, NEW il
  PROVE  /\ \A k \in DOMAIN st : Outer(st, k) /\ st[k].il = il => OwnDocOf(st, ds, il) = st[k].saved
         /\ (\A k \in DOMAIN st : ~(Outer(st, k) /\ st[k].il = il)) => OwnDocOf(st, ds, il) = ds[il]
  <1>1. ASSUME NEW k \in DOMAIN st, Outer(st, k), st[k].il = il
        PROVE  OwnDocOf(st, ds, il) = st[k].saved
    <2>. DEFINE o == CHOOSE x \in DOMAIN st : Outer(st, x)
    <2>1. o \in DOMAIN st /\ Outer(st, o)
      BY <1>1, Zenon
    <2>2. o = k
      <3>. HIDE DEF o
      <3>. QED  BY <1>1, <2>1, OneOuter
    <2>. QED  BY <1>1, <2>2 DEF OwnDocOf
  <1>2. ASSUME \A k \in DOMAIN st : ~(Outer(st, k) /\ st[k].il = il)
        PROVE  OwnDocOf(st, ds, il) = ds[il]
    BY <1>2, Zenon DEF OwnDocOf
  <1>. QED  BY <1>1, <1>2

(* Frames that differ only in their place.                                 *)
LEMMA SameStack ==
  ASSUME NEW st, StackOk(st), NEW su \in Seq(Frames), DOMAIN su = DOMAIN st, Len(su) = Len(st),
         \A k \in DOMAIN st : /\ su[k].il = st[k].il /\ su[k].dep = st[k].dep
                              /\ su[k].header = st[k].header /\ su[k].saved = st[k].saved
  PROVE  /\ StackOk(su) /\ \A ds : SavedOk(st, ds) => SavedOk(su, ds)
         /\ \A ds, il : OwnDocOf(su, ds, il) = OwnDocOf(st, ds, il)
  <1>1. \A k \in DOMAIN st : Outer(su, k) <=> Outer(st, k)
    BY DEF Outer
  <1>2. (st = <<>> <=> su = <<>>) /\ (st # <<>> => 1 \in DOMAIN st /\ Len(st) \in DOMAIN st)
    BY DEF StackOk
  <1>3. StackOk(su)
    <2>1. \A j, k \in DOMAIN st : su[j].il = su[k].il /\ (j <= k /\ su[k].dep => su[j].dep)
      BY DEF StackOk
    <2>2. \A k \in DOMAIN st :
            /\ k + 1 \in DOMAIN st => (su[k].dep <=> su[k + 1].dep \/ About[su[k].header].deprecated)
            /\ su[Len(st)].dep => Old(Reader(su[k].header))
      BY <1>2 DEF StackOk
    <2>. QED  BY <1>1, <1>2, <2>1, <2>2 DEF StackOk
  <1>4. ASSUME NEW ds, SavedOk(st, ds) PROVE SavedOk(su, ds)
    BY <1>2, <1>4 DEF SavedOk
  <1>5. ASSUME NEW ds, NEW il PROVE OwnDocOf(su, ds, il) = OwnDocOf(st, ds, il)
    <2>1. CASE \E k \in DOMAIN st : Outer(st, k) /\ st[k].il = il
      <3>1. PICK k \in DOMAIN st : Outer(st, k) /\ st[k].il = il
        BY <2>1
      <3>2. OwnDocOf(st, ds, il) = st[k].saved
        BY <3>1, OwnDocIs
      <3>3. OwnDocOf(su, ds, il) = su[k].saved
        BY <1>1, <1>3, <3>1, OwnDocIs
      <3>. QED  BY <3>2, <3>3
    <2>2. CASE \A k \in DOMAIN st : ~(Outer(st, k) /\ st[k].il = il)
      <3>1. OwnDocOf(st, ds, il) = ds[il]
        BY <2>2, OwnDocIs
      <3>2. \A k \in DOMAIN su : ~(Outer(su, k) /\ su[k].il = il)
        BY <2>2, <1>1
      <3>3. OwnDocOf(su, ds, il) = ds[il]
        BY <3>2, <1>3, OwnDocIs
      <3>. QED  BY <3>1, <3>3
    <2>. QED  BY <2>1, <2>2
  <1>. QED  BY <1>3, <1>4, <1>5

LEMMA NoneOuter ==
  ASSUME NEW st, StackOk(st), st # <<>>, ~st[1].dep
  PROVE  \A k \in DOMAIN st : ~st[k].dep /\ ~Outer(st, k)
  <1>1. 1 \in DOMAIN st /\ \A k \in DOMAIN st : 1 <= k
    BY DEF StackOk
  <1>. QED  BY <1>1 DEF StackOk, Outer

(* A call saves the doc of its interface.                                  *)
LEMMA PushStack ==
  ASSUME NEW cs, StackOk(cs), NEW f \in Frames, NEW ds, f.saved = ds[f.il], SavedOk(cs, ds),
         IF cs = <<>> THEN f.dep => Old(Reader(f.header))
         ELSE /\ f.il = cs[1].il /\ (f.dep <=> cs[1].dep \/ About[f.header].deprecated)
              /\ Reader(f.header) = Reader(cs[1].header)
  PROVE  /\ StackOk(<<f>> \o cs) /\ SavedOk(<<f>> \o cs, ds)
         /\ \A il : OwnDocOf(<<f>> \o cs, ds, il) = OwnDocOf(cs, ds, il)
  <1>. DEFINE st == <<f>> \o cs
  <1>1. cs \in Seq(Frames) /\ Len(cs) \in Nat /\ DOMAIN cs = 1 .. Len(cs)
    BY DEF StackOk
  <1>2. /\ st \in Seq(Frames) /\ Len(st) = Len(cs) + 1 /\ DOMAIN st = 1 .. Len(cs) + 1
        /\ st[1] = f /\ \A k \in 1 .. Len(cs) : st[k + 1] = cs[k]
    BY <1>1
  <1>. HIDE DEF st
  <1>3. \A k \in DOMAIN st : k # 1 => k - 1 \in DOMAIN cs /\ st[k] = cs[k - 1]
    <2>. SUFFICES ASSUME NEW k \in DOMAIN st, k # 1 PROVE k - 1 \in DOMAIN cs /\ st[k] = cs[k - 1]
      OBVIOUS
    <2>1. k - 1 \in 1 .. Len(cs) /\ (k - 1) + 1 = k
      BY <1>1, <1>2
    <2>2. st[(k - 1) + 1] = cs[k - 1]
      BY <1>2, <2>1
    <2>. QED  BY <1>1, <2>1, <2>2
  <1>4. cs # <<>> => /\ 1 \in DOMAIN cs /\ Len(cs) \in DOMAIN cs /\ st[2] = cs[1]
                     /\ st[Len(st)] = cs[Len(cs)]
    BY <1>1, <1>2
  <1>5. cs = <<>> => DOMAIN st = {1} /\ Len(st) = 1 /\ DOMAIN cs = {}
    BY <1>1, <1>2
  <1>6. \A k \in DOMAIN cs : k + 1 \in DOMAIN st /\ (Outer(st, k + 1) <=> Outer(cs, k))
    <2>. SUFFICES ASSUME NEW k \in DOMAIN cs
                  PROVE  k + 1 \in DOMAIN st /\ (Outer(st, k + 1) <=> Outer(cs, k))
      OBVIOUS
    <2>1. k + 1 \in DOMAIN st /\ st[k + 1] = cs[k]
      BY <1>1, <1>2
    <2>2. (k + 1) + 1 \in DOMAIN st <=> k + 1 \in DOMAIN cs
      BY <1>1, <1>2
    <2>3. k + 1 \in DOMAIN cs => st[(k + 1) + 1] = cs[k + 1]
      BY <1>1, <1>2
    <2>. QED  BY <2>1, <2>2, <2>3 DEF Outer
  <1>7. cs # <<>> => (Outer(st, 1) <=> f.dep /\ ~cs[1].dep)
    BY <1>1, <1>2, <1>4 DEF Outer
  <1>8. StackOk(st)
    <2>1. \A j, k \in DOMAIN st : st[j].il = st[k].il
      <3>1. \A j \in DOMAIN cs : cs[j].il = f.il
        BY <1>1, <1>4 DEF StackOk
      <3>. QED  BY <1>2, <1>3, <3>1
    <2>2. ASSUME NEW j \in DOMAIN st, NEW k \in DOMAIN st, j <= k, st[k].dep PROVE st[j].dep
      <3>1. CASE j = 1
        <4>1. CASE k = 1
          BY <3>1, <4>1, <2>2
        <4>2. CASE k # 1
          <5>1. k - 1 \in DOMAIN cs /\ cs[k - 1].dep /\ cs # <<>> /\ 1 <= k - 1 /\ 1 \in DOMAIN cs
            BY <1>1, <1>2, <1>3, <1>4, <4>2, <2>2
          <5>2. cs[1].dep
            BY <5>1 DEF StackOk
          <5>. QED  BY <5>1, <5>2, <3>1, <1>2
        <4>. QED  BY <4>1, <4>2
      <3>2. CASE j # 1
        <4>1. k # 1 /\ j - 1 <= k - 1
          BY <1>2, <3>2, <2>2
        <4>2. j - 1 \in DOMAIN cs /\ k - 1 \in DOMAIN cs /\ st[j] = cs[j - 1] /\ st[k] = cs[k - 1]
          BY <1>3, <3>2, <4>1
        <4>. QED  BY <4>1, <4>2, <2>2 DEF StackOk
      <3>. QED  BY <3>1, <3>2
    <2>3. ASSUME NEW k \in DOMAIN st, k + 1 \in DOMAIN st
          PROVE  (st[k].dep <=> st[k + 1].dep \/ About[st[k].header].deprecated)
      <3>1. CASE k = 1
        <4>1. cs # <<>>
          BY <2>3, <3>1, <1>5
        <4>2. st[k] = f /\ k + 1 = 2 /\ st[k + 1] = cs[1]
          BY <3>1, <4>1, <1>2, <1>4
        <4>3. (f.dep <=> cs[1].dep \/ About[f.header].deprecated)
          BY <4>1
        <4>. QED  BY <4>2, <4>3, Zenon
      <3>2. CASE k # 1
        <4>1. k - 1 \in DOMAIN cs /\ st[k] = cs[k - 1] /\ (k - 1) + 1 \in DOMAIN cs
              /\ st[k + 1] = cs[(k - 1) + 1]
          BY <1>1, <1>2, <1>3, <3>2, <2>3
        <4>. QED  BY <4>1 DEF StackOk
      <3>. QED  BY <3>1, <3>2
    <2>4. ASSUME NEW k \in DOMAIN st, st[Len(st)].dep
          PROVE  Old(Reader(st[k].header))
      <3>1. CASE cs = <<>>
        BY <3>1, <1>2, <1>5, <2>4
      <3>2. CASE cs # <<>>
        <4>1. \A j \in DOMAIN cs : Old(Reader(cs[j].header))
          BY <3>2, <1>4, <2>4 DEF StackOk
        <4>. QED  BY <4>1, <3>2, <1>2, <1>3, <1>4
      <3>. QED  BY <3>1, <3>2
    <2>5. ~st[1].dep \/ st[Len(st)].dep \/ \E k \in DOMAIN st : Outer(st, k)
      <3>1. CASE cs = <<>>
        BY <3>1, <1>5
      <3>2. CASE cs # <<>>
        <4>1. ~cs[1].dep \/ cs[Len(cs)].dep \/ \E k \in DOMAIN cs : Outer(cs, k)
          BY <3>2 DEF StackOk
        <4>2. 1 \in DOMAIN st
          BY <1>1, <1>2
        <4>. QED  BY <4>1, <4>2, <3>2, <1>2, <1>4, <1>6, <1>7
      <3>. QED  BY <3>1, <3>2
    <2>. QED  BY <1>2, <2>1, <2>2, <2>3, <2>4, <2>5 DEF StackOk
  <1>9. SavedOk(st, ds)
    <2>. SUFFICES ASSUME NEW k \in DOMAIN st, st[Len(st)].dep PROVE st[k].saved = ds[st[k].il]
      BY DEF SavedOk
    <2>1. CASE k = 1
      BY <2>1, <1>2
    <2>2. CASE k # 1
      <3>1. k - 1 \in DOMAIN cs /\ st[k] = cs[k - 1] /\ cs # <<>>
        BY <2>2, <1>1, <1>3
      <3>. QED  BY <3>1, <1>4 DEF SavedOk
    <2>. QED  BY <2>1, <2>2
  <1>10. ASSUME NEW il PROVE OwnDocOf(st, ds, il) = OwnDocOf(cs, ds, il)
    <2>1. CASE \E k \in DOMAIN cs : Outer(cs, k) /\ cs[k].il = il
      <3>1. PICK k \in DOMAIN cs : Outer(cs, k) /\ cs[k].il = il
        BY <2>1
      <3>2. k + 1 \in DOMAIN st /\ Outer(st, k + 1) /\ st[k + 1] = cs[k]
        BY <3>1, <1>1, <1>2, <1>6
      <3>3. OwnDocOf(cs, ds, il) = cs[k].saved
        BY <3>1, OwnDocIs
      <3>4. OwnDocOf(st, ds, il) = st[k + 1].saved
        BY <3>1, <3>2, <1>8, OwnDocIs
      <3>. QED  BY <3>2, <3>3, <3>4
    <2>2. CASE \A k \in DOMAIN cs : ~(Outer(cs, k) /\ cs[k].il = il)
      <3>1. OwnDocOf(cs, ds, il) = ds[il]
        BY <2>2, OwnDocIs
      <3>2. ASSUME NEW k \in DOMAIN st, Outer(st, k), st[k].il = il PROVE k = 1
        <4>. SUFFICES ASSUME k # 1 PROVE FALSE
          OBVIOUS
        <4>1. k - 1 \in DOMAIN cs /\ st[k] = cs[k - 1] /\ (k - 1) + 1 = k
          BY <1>1, <1>2, <1>3
        <4>2. Outer(cs, k - 1)
          BY <4>1, <1>6, <3>2
        <4>. QED  BY <4>1, <4>2, <3>2, <2>2
      <3>3. CASE \E k \in DOMAIN st : Outer(st, k) /\ st[k].il = il
        <4>1. Outer(st, 1) /\ f.il = il /\ 1 \in DOMAIN st
          BY <3>2, <3>3, <1>2
        <4>2. OwnDocOf(st, ds, il) = st[1].saved
          BY <4>1, <1>2, <1>8, OwnDocIs
        <4>. QED  BY <4>1, <4>2, <3>1, <1>2
      <3>4. CASE \A k \in DOMAIN st : ~(Outer(st, k) /\ st[k].il = il)
        BY <3>1, <3>4, <1>8, OwnDocIs
      <3>. QED  BY <3>3, <3>4
    <2>. QED  BY <2>1, <2>2
  <1>. QED  BY <1>8, <1>9, <1>10 DEF st

(* A return: the doc of a deprecated include is dropped again.             *)
Dropped(st, ds) == IF Len(st) > 1 /\ About[st[1].header].deprecated
                     THEN [ds EXCEPT ![st[1].il] = st[1].saved] ELSE ds

LEMMA PopStack ==
  ASSUME NEW st, StackOk(st), st # <<>>, NEW ds, SavedOk(st, ds), DOMAIN ds = DOMAIN ClassOf,
         NEW du, du = Dropped(st, ds)
  PROVE  /\ StackOk(Tail(st)) /\ SavedOk(Tail(st), du)
         /\ \A il \in DOMAIN ClassOf : OwnDocOf(Tail(st), du, il) = OwnDocOf(st, ds, il)
  <1>. DEFINE cs == Tail(st)
  <1>1. /\ st \in Seq(Frames) /\ Len(st) \in Nat \ {0} /\ DOMAIN st = 1 .. Len(st)
        /\ 1 \in DOMAIN st /\ st[1] \in Frames
    BY DEF StackOk
  <1>2. /\ cs \in Seq(Frames) /\ Len(cs) = Len(st) - 1 /\ DOMAIN cs = 1 .. Len(st) - 1
        /\ \A k \in 1 .. Len(st) - 1 : cs[k] = st[k + 1]
    BY <1>1
  <1>. HIDE DEF cs
  <1>3. cs # <<>> => /\ Len(st) > 1 /\ 1 \in DOMAIN cs /\ cs[1] = st[2] /\ 2 \in DOMAIN st
                     /\ cs[Len(cs)] = st[Len(st)]
    BY <1>1, <1>2
  <1>4. \A k \in DOMAIN cs : k + 1 \in DOMAIN st /\ cs[k] = st[k + 1] /\ k \in Nat
    BY <1>1, <1>2
  <1>5. \A k \in DOMAIN cs : Outer(cs, k) <=> Outer(st, k + 1)
    <2>. SUFFICES ASSUME NEW k \in DOMAIN cs PROVE Outer(cs, k) <=> Outer(st, k + 1)
      OBVIOUS
    <2>1. k + 1 \in DOMAIN cs <=> (k + 1) + 1 \in DOMAIN st
      BY <1>1, <1>2
    <2>2. k + 1 \in DOMAIN cs => cs[k + 1] = st[(k + 1) + 1]
      BY <1>4
    <2>. QED  BY <1>4, <2>1, <2>2 DEF Outer
  <1>6. \A k \in DOMAIN st : k # 1 => k - 1 \in DOMAIN cs /\ cs[k - 1] = st[k] /\ (k - 1) + 1 = k
    BY <1>1, <1>2
  <1>7. StackOk(cs)
    <2>1. \A j, k \in DOMAIN cs : cs[j].il = cs[k].il /\ (j <= k /\ cs[k].dep => cs[j].dep)
      BY <1>4 DEF StackOk
    <2>2. \A k \in DOMAIN cs : k + 1 \in DOMAIN cs =>
              (cs[k].dep <=> cs[k + 1].dep \/ About[cs[k].header].deprecated)
      <3>. SUFFICES ASSUME NEW k \in DOMAIN cs, k + 1 \in DOMAIN cs
                    PROVE  (cs[k].dep <=> cs[k + 1].dep \/ About[cs[k].header].deprecated)
        OBVIOUS
      <3>1. k + 1 \in DOMAIN st /\ cs[k] = st[k + 1] /\ (k + 1) + 1 \in DOMAIN st
            /\ cs[k + 1] = st[(k + 1) + 1]
        BY <1>4
      <3>. QED  BY <3>1 DEF StackOk
    <2>3. \A k \in DOMAIN cs : cs[Len(cs)].dep => Old(Reader(cs[k].header))
      <3>1. \A k \in DOMAIN cs : cs # <<>>
        BY <1>2
      <3>. QED  BY <3>1, <1>3, <1>4 DEF StackOk
    <2>4. cs # <<>> => ~cs[1].dep \/ cs[Len(cs)].dep \/ \E k \in DOMAIN cs : Outer(cs, k)
      <3>. SUFFICES ASSUME cs # <<>>, cs[1].dep, ~cs[Len(cs)].dep
                    PROVE  \E k \in DOMAIN cs : Outer(cs, k)
        OBVIOUS
      <3>1. st[2].dep /\ ~st[Len(st)].dep /\ 2 \in DOMAIN st
        BY <1>3
      <3>2. st[1].dep /\ ~Outer(st, 1)
        <4>1. 1 <= 2 /\ 1 + 1 = 2
          OBVIOUS
        <4>. QED  BY <3>1, <4>1, <1>1 DEF StackOk, Outer
      <3>3. PICK k \in DOMAIN st : Outer(st, k)
        BY <3>1, <3>2 DEF StackOk
      <3>4. k - 1 \in DOMAIN cs /\ (k - 1) + 1 = k
        BY <1>6, <3>2, <3>3
      <3>. QED  BY <3>3, <3>4, <1>5
    <2>. QED  BY <1>2, <2>1, <2>2, <2>3, <2>4 DEF StackOk
  <1>8. \A k \in DOMAIN st : st[k].il = st[1].il /\ st[k].il \in DOMAIN ClassOf
    <2>1. st[1].il \in DOMAIN ClassOf
      BY <1>1 DEF Frames
    <2>. QED  BY <2>1, <1>1 DEF StackOk
  <1>9. SavedOk(cs, du)
    <2>. SUFFICES ASSUME NEW k \in DOMAIN cs, cs[Len(cs)].dep PROVE cs[k].saved = du[cs[k].il]
      BY DEF SavedOk
    <2>1. st[Len(st)].dep
      BY <1>2, <1>3
    <2>2. st[1].saved = ds[st[1].il] /\ cs[k].saved = ds[cs[k].il]
      BY <1>1, <1>4, <2>1 DEF SavedOk
    <2>3. cs[k].il = st[1].il /\ st[1].il \in DOMAIN ds
      BY <1>1, <1>4, <1>8
    <2>4. du = ds \/ du = [ds EXCEPT ![st[1].il] = st[1].saved]
      BY DEF Dropped
    <2>5. du[st[1].il] = ds[st[1].il]
      BY <2>2, <2>3, <2>4
    <2>. QED  BY <2>2, <2>3, <2>5
  <1>10. ASSUME NEW il \in DOMAIN ClassOf
         PROVE  OwnDocOf(cs, du, il) = OwnDocOf(st, ds, il)
    <2>1. il # st[1].il => du[il] = ds[il]
      BY DEF Dropped
    <2>2. CASE \E k \in DOMAIN cs : Outer(cs, k) /\ cs[k].il = il
      <3>1. PICK k \in DOMAIN cs : Outer(cs, k) /\ cs[k].il = il
        BY <2>2
      <3>2. k + 1 \in DOMAIN st /\ Outer(st, k + 1) /\ st[k + 1] = cs[k]
        BY <3>1, <1>4, <1>5
      <3>3. OwnDocOf(cs, du, il) = cs[k].saved
        BY <3>1, <1>7, OwnDocIs
      <3>4. OwnDocOf(st, ds, il) = st[k + 1].saved
        BY <3>1, <3>2, OwnDocIs
      <3>. QED  BY <3>2, <3>3, <3>4
    <2>3. CASE \A k \in DOMAIN cs : ~(Outer(cs, k) /\ cs[k].il = il)
      <3>1. OwnDocOf(cs, du, il) = du[il]
        BY <2>3, <1>7, OwnDocIs
      <3>2. \A k \in DOMAIN st : Outer(st, k) /\ st[k].il = il => k = 1
        BY <1>5, <1>6, <2>3
      <3>3. CASE Outer(st, 1) /\ st[1].il = il
        <4>1. OwnDocOf(st, ds, il) = st[1].saved
          BY <3>3, <1>1, OwnDocIs
        <4>2. Len(st) > 1 /\ About[st[1].header].deprecated
          <5>1. 2 \in DOMAIN st /\ st[1].dep /\ ~st[2].dep /\ 1 + 1 = 2
            BY <3>3 DEF Outer
          <5>2. (st[1].dep <=> st[2].dep \/ About[st[1].header].deprecated)
            BY <5>1, <1>1 DEF StackOk
          <5>. QED  BY <5>1, <5>2, <1>1
        <4>3. du[il] = st[1].saved
          BY <4>2, <3>3 DEF Dropped
        <4>. QED  BY <3>1, <4>1, <4>3
      <3>4. CASE ~(Outer(st, 1) /\ st[1].il = il)
        <4>1. \A k \in DOMAIN st : ~(Outer(st, k) /\ st[k].il = il)
          BY <3>2, <3>4
        <4>2. OwnDocOf(st, ds, il) = ds[il]
          BY <4>1, OwnDocIs
        <4>3. du[il] = ds[il]
          <5>. SUFFICES ASSUME il = st[1].il, Len(st) > 1, About[st[1].header].deprecated
                        PROVE  st[1].saved = ds[il]
            BY <2>1 DEF Dropped
          <5>1. 2 \in DOMAIN st /\ 1 + 1 = 2
            BY <1>1
          <5>2. (st[1].dep <=> st[2].dep \/ About[st[1].header].deprecated)
            BY <5>1, <1>1 DEF StackOk
          <5>3. st[1].dep
            BY <5>2, <1>1 DEF Frames
          <5>4. \A k \in DOMAIN st : ~Outer(st, k)
            BY <4>1, <1>8
          <5>5. st[Len(st)].dep
            BY <5>3, <5>4 DEF StackOk
          <5>. QED  BY <5>5, <1>1 DEF SavedOk
        <4>. QED  BY <3>1, <4>2, <4>3
      <3>. QED  BY <3>3, <3>4
    <2>. QED  BY <2>2, <2>3
  <1>. QED  BY <1>7, <1>9, <1>10 DEF cs

(* A doc: that of the interface, unless it is in a deprecated file.        *)
Put(ds, il, doc) == IF ds[il] # None THEN ds ELSE [ds EXCEPT ![il] = doc]

LEMMA DocStack ==
  ASSUME NEW st, StackOk(st), st # <<>>, NEW ds, SavedOk(st, ds), DocsOk(st, ds),
         DOMAIN ds = DOMAIN ClassOf,
         NEW t, t = st[1], t.header \in Read, t.il = ReadFor(t.header), t.dep <=> Old(t.header),
         NEW h, h \in DocsIn(t.header),
         NEW doc, doc = [of |-> h, from |-> t.header],
         NEW du, du = Put(ds, t.il, doc)
  PROVE  /\ SavedOk(st, du) /\ DocsOk(st, du)
         /\ \A il \in DOMAIN ClassOf :
               OwnDocOf(st, ds, il) # None => OwnDocOf(st, du, il) = OwnDocOf(st, ds, il)
         /\ ~Old(t.header) => doc \in OwnDocs /\ OwnDocOf(st, du, t.il) = doc
  <1>1. /\ st \in Seq(Frames) /\ 1 \in DOMAIN st /\ Len(st) \in DOMAIN st /\ 1 <= Len(st)
        /\ t \in Frames /\ t.il \in DOMAIN ClassOf
    <2>1. st \in Seq(Frames) /\ 1 \in DOMAIN st /\ Len(st) \in DOMAIN st /\ 1 <= Len(st)
      BY DEF StackOk
    <2>2. t \in Frames
      BY <2>1
    <2>. QED  BY <2>1, <2>2 DEF Frames
  <1>2. \A il \in DOMAIN ClassOf : il # t.il => du[il] = ds[il]
    BY DEF Put
  <1>3. CASE Old(t.header)
    <2>1. ~st[Len(st)].dep
      <3>1. ~Old(Reader(t.header))
        BY <1>3, DocsAssumption
      <3>. QED  BY <3>1, <1>1 DEF StackOk
    <2>2. PICK k \in DOMAIN st : Outer(st, k)
      BY <1>1, <1>3, <2>1 DEF StackOk
    <2>3. st[k].il = t.il
      BY <1>1 DEF StackOk
    <2>4. \A il \in DOMAIN ClassOf : OwnDocOf(st, du, il) = OwnDocOf(st, ds, il)
      <3>. SUFFICES ASSUME NEW il \in DOMAIN ClassOf PROVE OwnDocOf(st, du, il) = OwnDocOf(st, ds, il)
        OBVIOUS
      <3>1. CASE il = t.il
        <4>1. OwnDocOf(st, du, il) = st[k].saved
          BY <2>2, <2>3, <3>1, OwnDocIs
        <4>2. OwnDocOf(st, ds, il) = st[k].saved
          BY <2>2, <2>3, <3>1, OwnDocIs
        <4>. QED  BY <4>1, <4>2
      <3>2. CASE il # t.il
        <4>1. \A j \in DOMAIN st : st[j].il # il
          BY <1>1, <3>2 DEF StackOk
        <4>2. OwnDocOf(st, du, il) = du[il]
          BY <4>1, OwnDocIs
        <4>3. OwnDocOf(st, ds, il) = ds[il]
          BY <4>1, OwnDocIs
        <4>. QED  BY <4>2, <4>3, <3>2, <1>2
      <3>. QED  BY <3>1, <3>2
    <2>5. SavedOk(st, du)
      BY <2>1 DEF SavedOk
    <2>. QED  BY <1>3, <2>4, <2>5 DEF DocsOk
  <1>4. CASE ~Old(t.header)
    <2>1. \A k \in DOMAIN st : ~st[k].dep /\ ~Outer(st, k)
      BY <1>4, NoneOuter
    <2>2. \A il : OwnDocOf(st, du, il) = du[il]
      <3>. SUFFICES ASSUME NEW il PROVE OwnDocOf(st, du, il) = du[il]
        OBVIOUS
      <3>. QED  BY <2>1, OwnDocIs
    <2>3. \A il : OwnDocOf(st, ds, il) = ds[il]
      <3>. SUFFICES ASSUME NEW il PROVE OwnDocOf(st, ds, il) = ds[il]
        OBVIOUS
      <3>. QED  BY <2>1, OwnDocIs
    <2>4. doc \in OwnDocs /\ doc.from = t.header
      <3>. DEFINE docsOf(x) == {[of |-> k, from |-> x] : k \in DocsIn(x)}
      <3>1. OwnDocs = UNION {docsOf(x) : x \in {f \in Read : ~Old(f)}}
        BY Zenon DEF OwnDocs
      <3>2. doc \in docsOf(t.header) /\ doc.from = t.header
        OBVIOUS
      <3>. HIDE DEF docsOf
      <3>. QED  BY <3>1, <3>2, <1>4
    <2>5. ds[t.il] # None => ds[t.il] = doc
      <3>. SUFFICES ASSUME ds[t.il] # None PROVE ds[t.il] = doc
        OBVIOUS
      <3>1. ds[t.il] \in OwnDocs /\ ReadFor(ds[t.il].from) = t.il
        BY <1>1, <2>3 DEF DocsOk
      <3>. QED  BY <2>4, <3>1, DocsAssumption
    <2>6. du[t.il] = doc
      BY <1>1, <2>5 DEF Put
    <2>7. DocsOk(st, du)
      BY <1>2, <2>2, <2>3, <2>4, <2>6 DEF DocsOk
    <2>8. SavedOk(st, du)
      BY <1>1, <2>1 DEF SavedOk
    <2>9. \A il \in DOMAIN ClassOf :
               OwnDocOf(st, ds, il) # None => OwnDocOf(st, du, il) = OwnDocOf(st, ds, il)
      BY <1>2, <2>2, <2>3, <2>5, <2>6
    <2>. QED  BY <1>4, <2>2, <2>4, <2>6, <2>7, <2>8, <2>9
  <1>. QED  BY <1>3, <1>4

LEMMA AdvancedStack ==
  ASSUME TypeInv, StackInv, stack # <<>>
  PROVE  /\ StackOk(Advanced) /\ SavedOk(Advanced, docs)
         /\ \A ds : SavedOk(stack, ds) => SavedOk(Advanced, ds)
         /\ \A ds, il : OwnDocOf(Advanced, ds, il) = OwnDocOf(stack, ds, il)
         /\ Advanced[1].il = Top.il /\ Advanced[1].dep = Top.dep /\ Advanced[1].header = Top.header
         /\ Advanced # <<>>
  <1>1. PICK su : su = Advanced
    OBVIOUS
  <1>2. /\ su \in Seq(Frames) /\ su # <<>> /\ Len(su) = Len(stack) /\ stack \in Seq(Frames)
        /\ su[1] = [Top EXCEPT !.at = Top.at + 1] /\ Top = stack[1] /\ Top \in Frames
        /\ \A k \in DOMAIN su : k # 1 => su[k] = stack[k]
    BY <1>1, AdvancedType DEF TypeInv, ParserType, Top
  <1>3. DOMAIN su = DOMAIN stack
    BY <1>2
  <1>4. /\ su[1].il = Top.il /\ su[1].dep = Top.dep /\ su[1].header = Top.header
        /\ su[1].saved = Top.saved
    BY <1>2 DEF Frames
  <1>5. \A k \in DOMAIN stack : /\ su[k].il = stack[k].il /\ su[k].dep = stack[k].dep
                                /\ su[k].header = stack[k].header /\ su[k].saved = stack[k].saved
    BY <1>2, <1>3, <1>4
  <1>6. /\ StackOk(su) /\ \A ds : SavedOk(stack, ds) => SavedOk(su, ds)
        /\ \A ds, il : OwnDocOf(su, ds, il) = OwnDocOf(stack, ds, il)
    BY <1>2, <1>3, <1>5, SameStack DEF StackInv
  <1>. QED  BY <1>1, <1>2, <1>4, <1>6 DEF StackInv

(* A line that neither opens a file nor is a doc.                          *)
LEMMA LineStack ==
  ASSUME TypeInv, StackInv, stack # <<>>, stack' = Advanced, docs' = docs
  PROVE  StackInv' /\ DocsStay
  <1>1. PICK su : su = Advanced
    OBVIOUS
  <1>2. StackOk(su) /\ SavedOk(su, docs) /\ \A ds, il : OwnDocOf(su, ds, il) = OwnDocOf(stack, ds, il)
    BY <1>1, AdvancedStack
  <1>3. DocsOk(su, docs)
    BY <1>2 DEF StackInv, DocsOk
  <1>. QED  BY <1>1, <1>2, <1>3 DEF StackInv, DocsStay, OwnDoc

LEMMA CallStack ==
  ASSUME TypeInv, NEW cs, StackOk(cs), SavedOk(cs, docs), docs' = docs,
         \A il : OwnDocOf(cs, docs, il) = OwnDocOf(stack, docs, il), DocsOk(stack, docs),
         NEW il \in DOMAIN ClassOf, NEW h \in Headers, NEW dep \in BOOLEAN, NEW skip \in BOOLEAN,
         Call(cs, il, h, dep, skip),
         h \notin visited =>
           IF cs = <<>> THEN dep => Old(Reader(h))
           ELSE /\ il = cs[1].il /\ (dep <=> cs[1].dep \/ About[h].deprecated)
                /\ Reader(h) = Reader(cs[1].header)
  PROVE  StackInv' /\ DocsStay
  <1>1. CASE h \in visited
    <2>1. stack' = cs
      BY <1>1 DEF Call
    <2>2. DocsOk(cs, docs)
      BY DEF DocsOk
    <2>. QED  BY <2>1, <2>2 DEF StackInv, DocsStay, OwnDoc
  <1>2. CASE h \notin visited
    <2>1. PICK f : f = Frame(il, h, dep, skip, docs[il])
      OBVIOUS
    <2>2. f \in Frames /\ f.il = il /\ f.header = h /\ f.dep = dep /\ f.saved = docs[il]
      BY <2>1 DEF Frame, Frames, TypeInv, ParserType
    <2>3. PICK st : st = <<f>> \o cs
      OBVIOUS
    <2>4. IF cs = <<>> THEN f.dep => Old(Reader(f.header))
          ELSE /\ f.il = cs[1].il /\ (f.dep <=> cs[1].dep \/ About[f.header].deprecated)
               /\ Reader(f.header) = Reader(cs[1].header)
      BY <1>2, <2>2
    <2>5. /\ StackOk(st) /\ SavedOk(st, docs)
          /\ \A i : OwnDocOf(st, docs, i) = OwnDocOf(cs, docs, i)
      BY <2>2, <2>3, <2>4, PushStack
    <2>6. stack' = st
      BY <1>2, <2>1, <2>3 DEF Call
    <2>7. DocsOk(st, docs)
      BY <2>5 DEF DocsOk
    <2>. QED  BY <2>5, <2>6, <2>7 DEF StackInv, DocsStay, OwnDoc
  <1>. QED  BY <1>1, <1>2

LEMMA OutsideStack ==
  ASSUME TypeInv, ReadInv, StackInv, stack = <<>>, docs' = docs, NEW h \in Headers, StandsAlone(h),
         NEW dep \in BOOLEAN, NEW skip \in BOOLEAN, Call(<<>>, About[h].il, h, dep, skip),
         h \notin visited => (dep => Old(h))
  PROVE  StackInv' /\ DocsStay
  <1>1. About[h].il \in DOMAIN ClassOf /\ Reader(h) = h
    BY ReadAlone, ListingAssumption
  <1>2. PICK cs : cs = stack
    OBVIOUS
  <1>3. Call(cs, About[h].il, h, dep, skip)
    BY <1>2
  <1>. QED  BY <1>1, <1>2, <1>3, CallStack DEF StackInv

LEMMA IncludeStack ==
  ASSUME TypeInv, ReadInv, StackInv, phase \in {"first", "list"}, Include
  PROVE  StackInv' /\ DocsStay
  <1>1. Reading("include") /\ UNCHANGED <<infos, docs, deferred, latest>>
    BY DEF Include
  <1>2. PICK t : t = Top
    OBVIOUS
  <1>. DEFINE l == Lines[t.header][t.at]
  <1>3. /\ stack # <<>> /\ Line = l /\ t = stack[1] /\ 1 \in DOMAIN stack /\ t \in Frames
        /\ l.of \in Says(t.header, "include") /\ Advanced \in Seq(Frames)
    <2>1. stack # <<>> /\ stack \in Seq(Frames) /\ ParserType
      BY <1>1, ReadingFacts DEF TypeInv, ParserType
    <2>2. 1 \in DOMAIN stack /\ Advanced \in Seq(Frames)
      BY <2>1, AdvancedType
    <2>. QED  BY <1>1, <1>2, <2>1, <2>2, ReadingFacts
  <1>4. FrameOk(t)
    BY <1>3 DEF ReadInv
  <1>5. CASE ~Included(t, l.of)
    <2>1. stack' = Advanced /\ docs' = docs
      BY <1>1, <1>2, <1>3, <1>5 DEF Include
    <2>. QED  BY <2>1, <1>3, LineStack
  <1>6. CASE Included(t, l.of)
    <2>. DEFINE dep == t.dep \/ About[l.of].deprecated
    <2>1. Call(Advanced, t.il, l.of, dep, FALSE) /\ l.of \in Headers /\ docs' = docs
      BY <1>1, <1>2, <1>3, <1>6 DEF Include, Included
    <2>2. l.of \notin visited => Reader(l.of) = Reader(t.header)
      <3>. SUFFICES ASSUME l.of \notin visited PROVE Reader(l.of) = Reader(t.header)
        OBVIOUS
      <3>1. t.header \in visited /\ t.header # SdkHeader /\ t.il = ReadFor(t.header)
        BY <1>4, <1>6 DEF FrameOk, Included
      <3>2. l.of \in Headers /\ ~About[l.of].common
            /\ (About[l.of].main \in Headers => About[About[l.of].main].il = ReadFor(t.header))
        BY <1>6, <3>1 DEF Included
      <3>. QED  BY <1>3, <3>1, <3>2, IncludeFollowed
    <2>3. PICK cs : cs = Advanced
      OBVIOUS
    <2>4. /\ StackOk(cs) /\ SavedOk(cs, docs) /\ cs # <<>>
          /\ \A il : OwnDocOf(cs, docs, il) = OwnDocOf(stack, docs, il)
          /\ cs[1].il = t.il /\ cs[1].dep = t.dep /\ cs[1].header = t.header
      BY <1>2, <1>3, <2>3, AdvancedStack
    <2>5. dep \in BOOLEAN /\ t.il \in DOMAIN ClassOf /\ DocsOk(stack, docs)
      BY <1>3 DEF Frames, StackInv
    <2>6. l.of \notin visited =>
            /\ t.il = cs[1].il /\ (dep <=> cs[1].dep \/ About[l.of].deprecated)
            /\ Reader(l.of) = Reader(cs[1].header)
      BY <2>2, <2>4
    <2>7. Call(cs, t.il, l.of, dep, FALSE)
      BY <2>1, <2>3
    <2>. HIDE DEF dep, l
    <2>. QED  BY <2>1, <2>4, <2>5, <2>6, <2>7, CallStack
  <1>. QED  BY <1>5, <1>6

LEMMA ReturnStack ==
  ASSUME TypeInv, StackInv, Return
  PROVE  StackInv' /\ DocsStay
  <1>1. PICK st : st = stack
    OBVIOUS
  <1>2. PICK du : du = Dropped(stack, docs)
    OBVIOUS
  <1>3. stack # <<>> /\ stack' = Tail(st) /\ Top = st[1]
    BY <1>1 DEF Return, Top
  <1>4. docs' = du
    BY <1>1, <1>2, <1>3 DEF Return, DocsAfterReturn, Dropped
  <1>5. DOMAIN docs = DOMAIN ClassOf
    BY DEF TypeInv, ParserType
  <1>6. PICK cs : cs = Tail(st)
    OBVIOUS
  <1>7. /\ StackOk(cs) /\ SavedOk(cs, du)
        /\ \A il \in DOMAIN ClassOf : OwnDocOf(cs, du, il) = OwnDocOf(st, docs, il)
    BY <1>1, <1>2, <1>3, <1>5, <1>6, PopStack DEF StackInv
  <1>8. DocsOk(cs, du)
    BY <1>1, <1>7 DEF StackInv, DocsOk
  <1>. QED  BY <1>1, <1>3, <1>4, <1>6, <1>7, <1>8 DEF StackInv, DocsStay, OwnDoc

LEMMA DocLineStack ==
  ASSUME TypeInv, ReadInv, StackInv, InterfaceDoc,
         NEW t, t = Top, NEW doc, doc = [of |-> Line.of, from |-> t.header]
  PROVE  /\ StackInv' /\ DocsStay
         /\ ~Old(t.header) => doc \in OwnDocs /\ OwnDoc(ReadFor(t.header))' = doc
  <1>1. Reading("interface doc") /\ stack' = Advanced
    BY DEF InterfaceDoc
  <1>2. PICK kind : kind = "interface doc"
    OBVIOUS
  <1>3. stack # <<>> /\ t = stack[1] /\ t \in Frames /\ Line.of \in DocsIn(t.header)
    <2>1. Reading(kind) /\ ParserType
      BY <1>1, <1>2 DEF TypeInv
    <2>2. stack # <<>> /\ Top \in Frames /\ Top = stack[1] /\ Line.of \in Says(Top.header, kind)
      BY <2>1, ReadingFacts
    <2>. QED  BY <2>2, <1>2 DEF DocsIn
  <1>4. FrameOk(t)
    <2>1. 1 \in DOMAIN stack
      BY <1>3 DEF TypeInv, ParserType
    <2>. QED  BY <1>3, <2>1 DEF ReadInv
  <1>5. PICK du : du = Put(docs, t.il, doc)
    OBVIOUS
  <1>6. docs' = du
    BY <1>5 DEF InterfaceDoc, Put
  <1>7. t.header \in Read /\ t.il = ReadFor(t.header) /\ (t.dep <=> Old(t.header))
    BY <1>4 DEF FrameOk
  <1>8. DOMAIN docs = DOMAIN ClassOf
    BY DEF TypeInv, ParserType
  <1>9. PICK h : h = Line.of
    OBVIOUS
  <1>10. /\ SavedOk(stack, du) /\ DocsOk(stack, du)
         /\ \A il \in DOMAIN ClassOf :
               OwnDocOf(stack, docs, il) # None => OwnDocOf(stack, du, il) = OwnDocOf(stack, docs, il)
         /\ ~Old(t.header) => doc \in OwnDocs /\ OwnDocOf(stack, du, t.il) = doc
    <2>1. doc = [of |-> h, from |-> t.header] /\ h \in DocsIn(t.header)
      BY <1>3, <1>9
    <2>2. StackOk(stack) /\ SavedOk(stack, docs) /\ DocsOk(stack, docs)
      BY DEF StackInv
    <2>3. PICK st : st = stack
      OBVIOUS
    <2>4. PICK ds : ds = docs
      OBVIOUS
    <2>5. /\ StackOk(st) /\ st # <<>> /\ SavedOk(st, ds) /\ DocsOk(st, ds) /\ DOMAIN ds = DOMAIN ClassOf
          /\ t = st[1] /\ du = Put(ds, t.il, doc)
      BY <1>3, <1>5, <1>8, <2>2, <2>3, <2>4
    <2>6. /\ SavedOk(st, du) /\ DocsOk(st, du)
          /\ \A il \in DOMAIN ClassOf :
               OwnDocOf(st, ds, il) # None => OwnDocOf(st, du, il) = OwnDocOf(st, ds, il)
          /\ ~Old(t.header) => doc \in OwnDocs /\ OwnDocOf(st, du, t.il) = doc
      BY ONLY <2>5, <1>7, <2>1, DocStack
    <2>. QED  BY <2>3, <2>4, <2>6
  <1>11. PICK su : su = Advanced
    OBVIOUS
  <1>12. StackOk(su) /\ SavedOk(su, du) /\ \A ds, il : OwnDocOf(su, ds, il) = OwnDocOf(stack, ds, il)
    BY <1>3, <1>10, <1>11, AdvancedStack
  <1>13. DocsOk(su, du)
    BY <1>10, <1>12 DEF DocsOk
  <1>. QED  BY <1>1, <1>6, <1>7, <1>10, <1>11, <1>12, <1>13 DEF StackInv, DocsStay, OwnDoc

MetInv == \A h \in visited : ReadFor(h) \in Range(ils)

DocsReady ==
    /\ \A il \in DOMAIN ClassOf :
         docs[il] # None => docs[il] \in OwnDocs /\ ReadFor(docs[il].from) = il
    /\ \A d \in OwnDocs : docs[ReadFor(d.from)] = d

(* While the headers are parsed, ReadInv; when that is done, the reference.*)
ParsedInv ==
    /\ phase \in {"first", "list"} => ReadInv /\ StackInv /\ MetInv
    /\ phase = "methods" /\ at = 1 =>
         infos = Expected /\ DocsReady /\ \A h \in Read : ReadFor(h) \in Range(ils)
    /\ phase \notin {"first", "list"} => stack = <<>>

LEMMA ReadInit == Init => ParsedInv
  <1>. SUFFICES ASSUME Init PROVE ParsedInv
    OBVIOUS
  <1>1. /\ phase = "first" /\ at = 1 /\ visited = {} /\ listed = {} /\ infos = {}
        /\ stack = <<>> /\ deferred = <<>> /\ docs = [il \in DOMAIN ClassOf |-> None]
    BY DEF Init
  <1>2. DOMAIN stack = {} /\ Range(deferred) = {} /\ stack \in Seq(Frames)
    BY <1>1 DEF Range
  <1>3. \A j \in DOMAIN FirstHeaders : ~(j < at)
    BY <1>1, ListingAssumption
  <1>4. StackInv
    <2>1. StackOk(stack) /\ SavedOk(stack, docs)
      BY <1>1, <1>2 DEF StackOk, SavedOk
    <2>2. \A il \in DOMAIN ClassOf : OwnDocOf(stack, docs, il) = None
      <3>. SUFFICES ASSUME NEW il \in DOMAIN ClassOf PROVE OwnDocOf(stack, docs, il) = None
        OBVIOUS
      <3>1. OwnDocOf(stack, docs, il) = docs[il]
        BY <1>2 DEF OwnDocOf
      <3>. QED  BY <3>1, <1>1
    <2>. QED  BY <2>1, <2>2 DEF StackInv, DocsOk
  <1>. QED  BY <1>1, <1>2, <1>3, <1>4 DEF ParsedInv, ReadInv, MetInv, OpenedInTurn

(* Whoever opens a file does so for an interface that was met.             *)
LEMMA MetCall ==
  ASSUME MetInv, TypeInv', ReadInv', Range(ils) \subseteq Range(ils'), NEW cs \in Seq(Frames),
         NEW il, NEW h, NEW dep, NEW skip, Call(cs, il, h, dep, skip)
  PROVE  MetInv'
  <1>1. CASE h \in visited
    <2>1. visited' = visited
      BY <1>1 DEF Call
    <2>. QED  BY <2>1 DEF MetInv
  <1>2. CASE h \notin visited
    <2>1. PICK f : f = Frame(il, h, dep, skip, docs[il])
      OBVIOUS
    <2>2. stack' = <<f>> \o cs /\ visited' = visited \cup {h} /\ f.header = h
      BY <1>2, <2>1 DEF Call, Frame
    <2>3. 1 \in DOMAIN stack' /\ stack'[1] = f
      BY <2>2
    <2>4. FrameOk(f)' /\ f.il \in Range(ils')
      BY <2>3 DEF ReadInv, TypeInv, ParserType
    <2>5. ReadFor(h) \in Range(ils')
      BY <2>2, <2>4 DEF FrameOk
    <2>. QED  BY <2>2, <2>5 DEF MetInv
  <1>. QED  BY <1>1, <1>2

LEMMA ParseMet ==
  ASSUME TypeInv, MetInv, TypeInv', ReadInv', Parse
  PROVE  MetInv'
  <1>1. ils' = ils
    BY DEF Parse
  <1>2. CASE visited' = visited
    BY <1>1, <1>2 DEF MetInv
  <1>3. CASE visited' # visited
    <2>1. Include /\ stack # <<>>
      BY <1>3 DEF Parse, ParseStep, Return, InterfaceDoc, ApiLatest, Declare, EnumStart, Include,
                  Reading
    <2>2. Call(Advanced, Top.il, Line.of, Top.dep \/ About[Line.of].deprecated, FALSE)
      BY <1>3, <2>1 DEF Include
    <2>3. Advanced \in Seq(Frames)
      BY <2>1, AdvancedType DEF TypeInv
    <2>. QED  BY <1>1, <2>2, <2>3, MetCall
  <1>. QED  BY <1>2, <1>3

(* What the docs are when everything has been read.                        *)
LEMMA ParseDeferredDocs ==
  ASSUME TypeInv, ReadInv, StackInv, MetInv, ParseDeferred
  PROVE  DocsReady' /\ \A h \in Read : ReadFor(h) \in Range(ils)
  <1>1. phase = "list" /\ stack = <<>> /\ listed = Listed /\ docs' = docs
    BY DEF ParseDeferred
  <1>2. \A h \in Read : h \in visited /\ \A j \in DOMAIN Lines[h] : LineRead(h, j)
    BY <1>1, AllRead
  <1>3. \A il : OwnDoc(il) = docs[il]
    <2>1. DOMAIN stack = {}
      BY <1>1
    <2>. QED  BY <2>1 DEF OwnDoc, OwnDocOf
  <1>4. ASSUME NEW d \in OwnDocs PROVE docs[ReadFor(d.from)] = d
    <2>1. /\ d.from \in Read /\ ~Old(d.from) /\ d.of \in DocsIn(d.from)
          /\ d = [of |-> d.of, from |-> d.from]
      BY OwnDocFacts
    <2>2. PICK j \in DOMAIN Lines[d.from] : /\ Lines[d.from][j].kind = "interface doc"
                                            /\ Lines[d.from][j].of = d.of
      BY <2>1 DEF DocsIn, Says, Range
    <2>3. LineRead(d.from, j)
      BY <1>2, <2>1
    <2>. QED  BY <1>3, <2>1, <2>2, <2>3 DEF LineRead
  <1>5. \A il \in DOMAIN ClassOf :
         docs[il] # None => docs[il] \in OwnDocs /\ ReadFor(docs[il].from) = il
    BY <1>3 DEF StackInv, DocsOk, OwnDoc
  <1>. QED  BY <1>1, <1>2, <1>4, <1>5 DEF DocsReady, MetInv

LEMMA ParseRead ==
  ASSUME TypeInv, ReadInv, StackInv, phase \in {"first", "list"}, Parse
  PROVE  ReadInv' /\ StackInv'
  <1>1. UNCHANGED <<phase, at, listed>>
    BY DEF Parse
  <1>2. CASE InterfaceDoc
    <2>1. PICK t : t = Top
      OBVIOUS
    <2>2. PICK doc : doc = [of |-> Line.of, from |-> t.header]
      OBVIOUS
    <2>3. /\ StackInv' /\ DocsStay
          /\ ~Old(t.header) => doc \in OwnDocs /\ OwnDoc(ReadFor(t.header))' = doc
      BY <1>2, <2>1, <2>2, DocLineStack
    <2>. QED  BY <1>1, <1>2, <2>1, <2>2, <2>3, DocOrLatestRead
  <1>3. CASE ApiLatest \/ Declare \/ EnumStart
    <2>1. stack # <<>> /\ stack' = Advanced /\ docs' = docs
      BY <1>3 DEF ApiLatest, Declare, EnumStart, Reading
    <2>2. StackInv' /\ DocsStay
      BY <2>1, LineStack
    <2>3. ApiLatest => ~InterfaceDoc
      BY DEF ApiLatest, InterfaceDoc, Reading
    <2>4. PICK t : t = Top
      OBVIOUS
    <2>5. PICK doc : doc = [of |-> Line.of, from |-> t.header]
      OBVIOUS
    <2>6. ApiLatest => ReadInv'
      BY <1>1, <2>2, <2>3, <2>4, <2>5, DocOrLatestRead
    <2>. QED  BY <1>1, <1>3, <2>2, <2>6, DeclareRead, EnumStartRead
  <1>4. CASE Include
    BY <1>1, <1>4, IncludeStack, IncludeRead
  <1>5. CASE Return
    BY <1>1, <1>5, ReturnStack, ReturnRead
  <1>. QED  BY <1>2, <1>3, <1>4, <1>5 DEF Parse, ParseStep

(* The passes are not run twice.                                           *)
LEMMA PassesGoOn ==
  ASSUME TypeInv,
         \/ RouteMethods \/ MergeHandles \/ RouteStructs
         \/ \E k \in {"enum", "constant"} : RouteByInterface(k)
         \/ \E k \in {"method", "enum", "callback", "constant"} : RouteByCheat(k)
         \/ PlatformEnums \/ AddExtras \/ CopyCallbacks \/ CollectUnhandled
  PROVE  /\ phase' \notin {"first", "list"} /\ ~(phase' = "methods" /\ at' = 1)
         /\ phase \notin {"first", "list"} /\ stack' = stack
  <1>1. CASE RouteMethods
    <2>1. phase = "methods" /\ (phase' = "failed" \/ NextPass("merge"))
      BY <1>1 DEF RouteMethods, Fail
    <2>2. at \in DOMAIN ils /\ ils \in Seq(DOMAIN ClassOf)
      BY <2>1 DEF TypeInv, TypeOK, ParserType
    <2>3. at \in Nat \ {0}
      BY <2>2
    <2>4. stack' = stack
      BY <1>1 DEF RouteMethods, parserVars
    <2>. QED  BY <2>1, <2>3, <2>4 DEF NextPass
  <1>2. CASE MergeHandles \/ RouteStructs \/ PlatformEnums \/ AddExtras \/ CopyCallbacks
             \/ CollectUnhandled
    BY <1>2 DEF MergeHandles, RouteStructs, PlatformEnums, AddExtras, CopyCallbacks,
                CollectUnhandled, Fail, parsed
  <1>3. ASSUME NEW k \in {"enum", "constant"}, RouteByInterface(k)
        PROVE  /\ phase' \notin {"first", "list", "methods"} /\ stack' = stack
               /\ phase \notin {"first", "list"}
    BY <1>3 DEF RouteByInterface, Fail, NextPass, parsed
  <1>4. ASSUME NEW k \in {"method", "enum", "callback", "constant"}, RouteByCheat(k)
        PROVE  /\ phase' \notin {"first", "list", "methods"} /\ stack' = stack
               /\ phase \notin {"first", "list"}
    <2>1. CheatPass[k] \notin {"first", "list", "methods"}
      BY CheatPhases
    <2>2. AfterCheat(k) \notin {"first", "list", "methods"}
      BY DEF AfterCheat
    <2>. QED  BY <1>4, <2>1, <2>2 DEF RouteByCheat, Fail, NextPass, parsed
  <1>. QED  BY <1>1, <1>2, <1>3, <1>4

LEMMA ReadStep == TypeInv /\ ParsedInv /\ [Next]_vars => ParsedInv'
  <1>. SUFFICES ASSUME TypeInv, ParsedInv, [Next]_vars PROVE ParsedInv'
    OBVIOUS
  <1>0. TypeInv'
    BY TypeStep
  <1>1. CASE UNCHANGED vars \/ Finished
    <2>1. UNCHANGED <<phase, at, listed, stack, visited, infos, deferred, docs, ils>>
      BY <1>1 DEF vars, parserVars, Finished
    <2>2. (ReadInv <=> ReadInv') /\ (StackInv <=> StackInv') /\ (MetInv <=> MetInv')
          /\ (DocsReady <=> DocsReady')
      BY <2>1 DEF ReadInv, Active, FrameOk, LineRead, OwnDoc, OpenedInTurn, StackInv, MetInv, DocsReady
    <2>. QED  BY <2>1, <2>2 DEF ParsedInv
  <1>2. CASE Parse
    <2>1. phase' = phase /\ at' = at
      BY <1>2 DEF Parse
    <2>2. CASE phase \in {"first", "list"}
      <3>1. ReadInv' /\ StackInv'
        BY <1>2, <2>2, ParseRead DEF ParsedInv
      <3>2. MetInv'
        BY <1>0, <1>2, <2>2, <3>1, ParseMet DEF ParsedInv
      <3>. QED  BY <2>1, <2>2, <3>1, <3>2 DEF ParsedInv
    <2>3. CASE phase \notin {"first", "list"}
      <3>1. stack # <<>>
        BY <1>2 DEF Parse, ParseStep, Include, Return, InterfaceDoc, ApiLatest, Declare, EnumStart,
                    Reading
      <3>. QED  BY <2>3, <3>1 DEF ParsedInv
    <2>. QED  BY <2>2, <2>3
  <1>3. CASE ParseFirst
    <2>1. phase = "first" /\ phase' \in {"first", "list"} /\ ReadInv /\ StackInv /\ MetInv
      BY <1>3 DEF ParseFirst, ParsedInv
    <2>2. PICK h : h = FirstHeaders[at]
      OBVIOUS
    <2>3. /\ stack = <<>> /\ Call(<<>>, About[h].il, h, FALSE, FALSE) /\ Met(About[h].il)
          /\ docs' = docs
      BY <1>3, <2>2 DEF ParseFirst
    <2>4. h \in Headers /\ StandsAlone(h)
      <3>1. at \in DOMAIN FirstHeaders /\ FirstHeaders \in Seq(Headers)
        BY <2>1, ListingAssumption DEF TypeInv, TypeOK
      <3>. QED  BY <2>2, <3>1 DEF Range, StandsAlone
    <2>5. StackInv' /\ DocsStay
      BY <2>1, <2>3, <2>4, OutsideStack
    <2>6. ReadInv'
      BY <1>3, <2>1, <2>5, ParseFirstRead
    <2>7. MetInv'
      <3>1. Range(ils) \subseteq Range(ils') /\ <<>> \in Seq(Frames)
        BY <2>3, <2>4, MetType, ListingAssumption DEF TypeInv
      <3>. QED  BY <1>0, <2>1, <2>3, <2>6, <3>1, MetCall
    <2>. QED  BY <2>1, <2>5, <2>6, <2>7 DEF ParsedInv
  <1>4. ASSUME NEW h \in Headers, ListHeader(h) PROVE ParsedInv'
    <2>1. phase = "list" /\ phase' = "list" /\ ReadInv /\ StackInv /\ MetInv
      BY <1>4 DEF ListHeader, ParsedInv
    <2>2. PICK dep : dep = About[h].deprecated
      OBVIOUS
    <2>3. PICK skip : skip = (h = SdkHeader)
      OBVIOUS
    <2>4. /\ stack = <<>> /\ Call(<<>>, About[h].il, h, dep, skip) /\ Met(About[h].il)
          /\ docs' = docs /\ StandsAlone(h) /\ dep \in BOOLEAN /\ skip \in BOOLEAN
      BY <1>4, <2>2, <2>3, LinesAssumption DEF ListHeader, StandsAlone
    <2>5. h \notin visited => (dep => Old(h))
      <3>1. h \notin visited => h \notin Range(FirstHeaders)
        BY <2>1 DEF ReadInv, OpenedInTurn
      <3>. QED  BY <2>2, <2>4, <3>1, ReadAlone
    <2>6. StackInv' /\ DocsStay
      BY <2>1, <2>4, <2>5, OutsideStack
    <2>7. ReadInv'
      BY <1>4, <2>1, <2>6, ListHeaderRead
    <2>8. MetInv'
      <3>1. Range(ils) \subseteq Range(ils') /\ <<>> \in Seq(Frames)
        BY <2>4, MetType, ListingAssumption DEF TypeInv
      <3>. QED  BY <1>0, <2>1, <2>4, <2>7, <3>1, MetCall
    <2>. QED  BY <2>1, <2>6, <2>7, <2>8 DEF ParsedInv
  <1>5. CASE ParseDeferred
    <2>1. phase = "list" /\ phase' = "methods" /\ ils' = ils /\ stack' = stack /\ stack = <<>>
      BY <1>5 DEF ParseDeferred
    <2>2. infos' = Expected /\ DocsReady' /\ \A h \in Read : ReadFor(h) \in Range(ils)
      BY <1>5, <2>1, ParseDeferredRead, ParseDeferredDocs DEF ParsedInv
    <2>. QED  BY <2>1, <2>2 DEF ParsedInv
  <1>6. CASE \/ RouteMethods \/ MergeHandles \/ RouteStructs
             \/ \E k \in {"enum", "constant"} : RouteByInterface(k)
             \/ \E k \in {"method", "enum", "callback", "constant"} : RouteByCheat(k)
             \/ PlatformEnums \/ AddExtras \/ CopyCallbacks \/ CollectUnhandled
    BY <1>6, PassesGoOn DEF ParsedInv
  <1>. QED  BY <1>1, <1>2, <1>3, <1>4, <1>5, <1>6 DEF Next

(* Whatever the order of the listing and whoever includes what, when the   *)
(* headers are parsed each declaration has been put down once, for the     *)
(* interface its header is read for and with the deprecation of the files  *)
(* on the way to it.                                                       *)
THEOREM ReadCorrect == Spec => []ReadAsDeclared
  <1>1. TypeInv /\ ParsedInv => ReadAsDeclared
    BY DEF ParsedInv, ReadAsDeclared
  <1>. QED  BY <1>1, TypeInit, TypeStep, ReadInit, ReadStep, PTL DEF Spec
===============================================================================
