---------------------------- MODULE StartupProofs ----------------------------
(***************************************************************************)
(* Theorems about the configuration parser and about start-up, for any     *)
(* configuration files.                                                    *)
(***************************************************************************)
EXTENDS Startup, SelectionProofs, FiniteSetTheorems, SequenceTheorems, TLAPS

(* Words are counted one after the other. *)
LEMMA CountNat ==
  ASSUME NEW line, NEW n \in Nat, NEW word
  PROVE  Count(line, n, word) \in Nat
<1> DEFINE S == {i \in 1..n : line[i] = word}
<1>1. IsFiniteSet(1..n)
  BY FS_Interval
<1>2. IsFiniteSet(S)
  BY <1>1, FS_Subset
<1> HIDE DEF S
<1>3. Cardinality(S) \in Nat
  BY <1>2, FS_CardinalityType
<1> QED BY <1>3 DEF Count, S

LEMMA CountNext ==
  ASSUME NEW line, NEW n \in Nat \ {0}, NEW word
  PROVE  Count(line, n, word) =
           Count(line, n - 1, word) + (IF line[n] = word THEN 1 ELSE 0)
<1> DEFINE S(m) == {i \in 1..m : line[i] = word}
<1>1. IsFiniteSet(1..(n - 1))
  BY FS_Interval
<1>2. IsFiniteSet(S(n - 1))
  BY <1>1, FS_Subset
<1>3. n \notin S(n - 1)
  OBVIOUS
<1>4. CASE line[n] = word
  <2>1. S(n) = S(n - 1) \cup {n}
    BY <1>4
  <2> HIDE DEF S
  <2>2. Cardinality(S(n)) = Cardinality(S(n - 1)) + 1
    BY <1>2, <1>3, <2>1, FS_AddElement
  <2> QED BY <1>4, <2>2 DEF Count, S
<1>5. CASE line[n] # word
  <2>1. S(n) = S(n - 1)
    BY <1>5
  <2>2. Count(line, n - 1, word) \in Nat
    BY CountNat
  <2>3. Count(line, n, word) = Count(line, n - 1, word)
    BY <2>1, Zenon DEF Count
  <2> QED BY <1>5, <2>2, <2>3
<1> QED BY <1>4, <1>5

LEMMA BracesInt ==
  ASSUME NEW line, NEW n \in Nat
  PROVE  Braces(line, n) \in Int
  BY CountNat DEF Braces

(* After a line that fits, the stack that read it still has a size. *)
LEMMA FitsInNat ==
  ASSUME NEW line \in Seq(STRING), NEW d \in Nat, BracesFit(line, d)
  PROVE  d + Braces(line, Len(line)) \in Nat
<1>1. Len(line) \in Nat /\ Braces(line, Len(line)) \in Int
  BY BracesInt
<1>2. CASE Len(line) = 0
  <2>1. \A w : {i \in 1..0 : line[i] = w} = {}
    OBVIOUS
  <2>2. \A w : Count(line, 0, w) = 0
    BY <2>1, FS_EmptySet DEF Count
  <2> QED BY <1>2, <2>2 DEF Braces
<1>3. CASE Len(line) # 0
  <2>1. Len(line) \in 1..Len(line)
    BY <1>1, <1>3
  <2> QED BY <1>1, <2>1 DEF BracesFit
<1> QED BY <1>2, <1>3

(* A line that ends with an opening brace leaves it on the stack. *)
LEMMA OpeningLine ==
  ASSUME NEW line, NEW d \in Nat, NEW n \in Nat \ {0, 1}, n = Len(line),
         BracesFit(line, d), line[n] = Opening
  PROVE  d + Braces(line, n) > 0
<1>1. n \in Nat \ {0} /\ n - 1 \in 1..n /\ n - 1 \in Nat
  OBVIOUS
<1>2. d + Braces(line, n - 1) >= 0
  BY <1>1 DEF BracesFit
<1>3. Opening # Closing
  BY Zenon DEF Opening, Closing
<1>4. /\ Count(line, n, Opening) = Count(line, n - 1, Opening) + 1
      /\ Count(line, n, Closing) = Count(line, n - 1, Closing) + 0
  BY <1>1, <1>3, CountNext
<1>5. Count(line, n - 1, Opening) \in Nat /\ Count(line, n - 1, Closing) \in Nat
  BY <1>1, CountNat
<1> QED BY <1>2, <1>4, <1>5 DEF Braces

(* While a block is read, the braces it was opened with are on the stacks  *)
(* of the blocks around it, for its end to pop.                            *)
ParentsOpen ==
  /\ level # "config" => depth["config"] > 0
  /\ level = "location" => depth["server"] > 0

ParseInv == TypeOK /\ NestingAgrees /\ ParentsOpen

LEMMA ParseInvInit == Init => ParseInv
<1> SUFFICES ASSUME Init PROVE ParseInv
  OBVIOUS
<1>1. file \in Seq(Seq(STRING))
  BY ConfigAssumption DEF Init
<1>2. Len(file) \in Nat
  BY <1>1
<1>3. /\ next = 1 /\ depth = [l \in Level |-> 0] /\ net = 0
      /\ level = "config" /\ outcome = "parsing"
  BY Zenon DEF Init
<1> QED BY <1>1, <1>2, <1>3 DEF ParseInv, TypeOK, NestingAgrees, Around, ParentsOpen, Level

LEMMA SumGrows ==
  ASSUME NEW a \in Int, NEW b \in Int, NEW c \in Int, NEW r \in Int, NEW k \in Int
  PROVE  /\ (a + b + c - r) + k = a + (b + k) + c - r
         /\ (a + b + c - r) + k = a + b + (c + k) - r
  OBVIOUS

(* What a line that is taken does to the level that reads it. *)
LEMMA TakenLine ==
  ASSUME ParseInv, Takes
  PROVE  /\ Line \in Seq(STRING)
         /\ Braces(Line, Len(Line)) \in Int
         /\ depth[level] + Braces(Line, Len(Line)) \in Nat
         /\ Counted \in [Level -> Nat]
         /\ Counted[level] = depth[level] + Braces(Line, Len(Line))
         /\ \A l \in Level \ {level} : Counted[l] = depth[l]
         /\ next' \in 1..(Len(file') + 1)
         /\ net' = net + Braces(Line, Len(Line))
<1>0. file \in Seq(Seq(STRING)) /\ next \in 1..Len(file)
  BY DEF ParseInv, TypeOK, Takes, CanRead
<1>1. Line \in Seq(STRING) /\ BracesFit(Line, depth[level])
  <2>1. Line \in Seq(STRING)
    BY <1>0 DEF Line
  <2> QED BY <2>1, Zenon DEF Takes, Refused
<1>2. depth \in [Level -> Nat] /\ level \in Level
  BY DEF ParseInv, TypeOK
<1>3. Len(Line) \in Nat
  BY <1>1
<1>4. /\ Braces(Line, Len(Line)) \in Int
      /\ depth[level] + Braces(Line, Len(Line)) \in Nat
  BY <1>1, <1>2, <1>3, FitsInNat, BracesInt
<1> QED BY <1>1, <1>2, <1>4 DEF Counted, Takes, ParseInv, TypeOK, CanRead

LEMMA ParseInvNext == ParseInv /\ [ParseStep]_cvars => ParseInv'
<1> SUFFICES ASSUME ParseInv, [ParseStep]_cvars PROVE ParseInv'
  OBVIOUS
<1>t. /\ file \in Seq(Seq(STRING)) /\ next \in 1..(Len(file) + 1)
      /\ level \in Level /\ depth \in [Level -> Nat] /\ net \in Int
      /\ outcome \in {"parsing", "accepted", "refused", "crashed"}
  BY DEF ParseInv, TypeOK
<1>n. NestingAgrees /\ ParentsOpen
  BY DEF ParseInv
<1>1. ASSUME NEW result \in {"refused", "crashed"}, Ends(result) PROVE ParseInv'
  BY <1>1 DEF Ends, ParseInv, TypeOK, NestingAgrees, Around, ParentsOpen
<1>2. CASE Takes /\ depth' = Counted /\ level' = level
  <2>1. /\ Counted \in [Level -> Nat]
        /\ Counted[level] = depth[level] + Braces(Line, Len(Line))
        /\ \A l \in Level \ {level} : Counted[l] = depth[l]
        /\ next' \in 1..(Len(file') + 1)
        /\ net' = net + Braces(Line, Len(Line))
        /\ Braces(Line, Len(Line)) \in Int
    BY <1>2, TakenLine
  <2>2. file' = file /\ outcome' = outcome /\ outcome = "parsing"
    BY <1>2 DEF Takes, CanRead, Parsing
  <2>3. TypeOK'
    BY <1>2, <1>t, <2>1, <2>2 DEF TypeOK
  <2>4. depth' \in [Level -> Nat] /\ level' = level
    BY <1>2, <2>1
  <2>5. CASE level = "config"
    BY <1>t, <1>n, <1>2, <2>1, <2>2, <2>3, <2>5
    DEF ParseInv, NestingAgrees, Around, ParentsOpen, Level
  <2>6. CASE level = "server"
    <3> DEFINE K == Braces(Line, Len(Line))
    <3>0. K \in Int /\ net' = net + K
      BY <2>1
    <3>1. /\ depth'["config"] = depth["config"] /\ depth'["location"] = depth["location"]
          /\ depth'["server"] = depth["server"] + K
          /\ Around[level'] = Around[level] /\ Around[level] \in Nat
      BY <1>2, <2>1, <2>6 DEF Level, Around
    <3> HIDE DEF K
    <3>2. NestingAgrees'
      <4>1. /\ depth["config"] \in Nat /\ depth["server"] \in Nat
            /\ depth["location"] \in Nat
        BY <1>t DEF Level
      <4>2. net' = depth'["config"] + depth'["server"] + depth'["location"]
                   - Around[level]
        <5>1. net = depth["config"] + depth["server"] + depth["location"]
                    - Around[level]
          BY <1>n DEF NestingAgrees
        <5> QED BY <5>1, <4>1, <3>0, <3>1, SumGrows
      <4>3. Around[level'] = Around[level]
        BY <1>2
      <4> QED BY <1>n, <1>2, <2>2, <2>6, <3>1, <4>2, <4>3 DEF NestingAgrees
    <3>3. ParentsOpen'
      BY <1>n, <1>2, <2>6, <3>1 DEF ParentsOpen
    <3> QED BY <2>3, <3>2, <3>3 DEF ParseInv
  <2>7. CASE level = "location"
    <3> DEFINE K == Braces(Line, Len(Line))
    <3>0. K \in Int /\ net' = net + K
      BY <2>1
    <3>1. /\ depth'["config"] = depth["config"] /\ depth'["server"] = depth["server"]
          /\ depth'["location"] = depth["location"] + K
          /\ Around[level'] = Around[level] /\ Around[level] \in Nat
      BY <1>2, <2>1, <2>7 DEF Level, Around
    <3> HIDE DEF K
    <3>2. NestingAgrees'
      <4>1. /\ depth["config"] \in Nat /\ depth["server"] \in Nat
            /\ depth["location"] \in Nat
        BY <1>t DEF Level
      <4>2. net' = depth'["config"] + depth'["server"] + depth'["location"]
                   - Around[level]
        <5>1. net = depth["config"] + depth["server"] + depth["location"]
                    - Around[level]
          BY <1>n DEF NestingAgrees
        <5> QED BY <5>1, <4>1, <3>0, <3>1, SumGrows
      <4>3. Around[level'] = Around[level]
        BY <1>2
      <4> QED BY <1>n, <1>2, <2>2, <2>7, <3>1, <4>2, <4>3 DEF NestingAgrees
    <3>3. ParentsOpen'
      BY <1>n, <1>2, <2>7, <3>1 DEF ParentsOpen
    <3> QED BY <2>3, <3>2, <3>3 DEF ParseInv
  <2> QED BY <1>t, <2>3, <2>5, <2>6, <2>7 DEF ParseInv, Level
<1>3. CASE OpenBlock
  <2>1. Takes /\ Opens(level, Line) /\ level' = Child(level)
        /\ depth' = [Counted EXCEPT ![Child(level)] = 1]
    BY <1>3 DEF OpenBlock
  <2>2. /\ \/ level = "config" /\ Child(level) = "server"
           \/ level = "server" /\ Child(level) = "location"
        /\ Len(Line) > 1
    BY <2>1 DEF Opens, Child
  <2>3. /\ Line \in Seq(STRING)
        /\ Counted \in [Level -> Nat]
        /\ Counted[level] = depth[level] + Braces(Line, Len(Line))
        /\ \A l \in Level \ {level} : Counted[l] = depth[l]
        /\ next' \in 1..(Len(file') + 1)
        /\ net' = net + Braces(Line, Len(Line))
        /\ Braces(Line, Len(Line)) \in Int
    BY <2>1, TakenLine
  <2>4. file' = file /\ outcome' = outcome /\ outcome = "parsing"
    BY <2>1 DEF Takes, CanRead, Parsing
  <2>5. Counted[level] > 0
    <3>1. BracesFit(Line, depth[level]) /\ Line[Len(Line)] = Opening
      BY <2>1 DEF Takes, Refused
    <3>2. Len(Line) \in Nat \ {0, 1}
      <4>1. Len(Line) \in Nat
        BY <2>3
      <4>2. Len(Line) > 1
        BY <2>2
      <4>3. \A k \in Nat : k > 1 => k \in Nat \ {0, 1}
        OBVIOUS
      <4> QED BY <4>1, <4>2, <4>3
    <3> QED BY <1>t, <2>3, <3>1, <3>2, OpeningLine
  <2>6. TypeOK'
    BY SMTT(30), <2>1, <2>2, <2>3, <2>4, <1>t DEF TypeOK, Level
  <2>7. NestingAgrees' /\ ParentsOpen'
    <3>1. CASE level = "config"
      <4>1. /\ depth'["config"] = depth["config"] + Braces(Line, Len(Line))
            /\ depth'["server"] = 1 /\ depth'["location"] = depth["location"]
            /\ level' = "server" /\ depth'["config"] > 0
        BY <2>1, <2>2, <2>3, <2>5, <3>1 DEF Level
      <4>2. NestingAgrees'
        <5> DEFINE K == Braces(Line, Len(Line))
        <5>1. /\ depth["config"] \in Nat /\ depth["server"] \in Nat
              /\ depth["location"] \in Nat /\ K \in Int
          BY <1>t, <2>3 DEF Level
        <5>2. /\ net = depth["config"] /\ depth["server"] = 0 /\ depth["location"] = 0
          BY <1>n, <3>1, <5>1 DEF NestingAgrees, Around
        <5>3. net' = net + K /\ depth'["config"] = depth["config"] + K
          BY <2>3, <4>1
        <5> HIDE DEF K
        <5>4. net' = depth'["config"] + depth'["server"] + depth'["location"] - 1
          BY <4>1, <5>1, <5>2, <5>3
        <5> QED BY <2>4, <4>1, <5>2, <5>4 DEF NestingAgrees, Around
      <4> QED BY <1>n, <3>1, <4>1, <4>2 DEF ParentsOpen
    <3>2. CASE level = "server"
      <4>1. /\ depth'["config"] = depth["config"] /\ depth'["location"] = 1
            /\ depth'["server"] = depth["server"] + Braces(Line, Len(Line))
            /\ level' = "location" /\ depth'["server"] > 0
        BY <2>1, <2>2, <2>3, <2>5, <3>2 DEF Level
      <4>2. NestingAgrees'
        <5> DEFINE K == Braces(Line, Len(Line))
        <5>1. /\ depth["config"] \in Nat /\ depth["server"] \in Nat
              /\ depth["location"] \in Nat /\ K \in Int
          BY <1>t, <2>3 DEF Level
        <5>2. net = depth["config"] + depth["server"] - 1 /\ depth["location"] = 0
          BY <1>n, <3>2, <5>1 DEF NestingAgrees, Around
        <5>3. net' = net + K /\ depth'["server"] = depth["server"] + K
          BY <2>3, <4>1
        <5> HIDE DEF K
        <5>4. net' = depth'["config"] + depth'["server"] + depth'["location"] - 2
          BY <4>1, <5>1, <5>2, <5>3
        <5> QED BY <2>4, <4>1, <5>2, <5>4 DEF NestingAgrees, Around
      <4> QED BY <1>n, <3>2, <4>1, <4>2 DEF ParentsOpen
    <3> QED BY <2>2, <3>1, <3>2
  <2> QED BY <2>6, <2>7 DEF ParseInv
<1>4. CASE CloseBlock
  <2>1. /\ level # "config" /\ depth[level] = 0 /\ outcome = "parsing"
        /\ level' = Parent(level)
        /\ depth' = [depth EXCEPT ![Parent(level)] = @ - 1]
        /\ UNCHANGED <<file, next, net, outcome>>
    BY <1>4, Zenon DEF CloseBlock, Parsing, BlockEnds, Completes
  <2>2. \/ level = "location" /\ Parent(level) = "server"
        \/ level = "server" /\ Parent(level) = "config"
    BY <1>t, <2>1 DEF Parent, Level
  <2>3. TypeOK'
    BY <1>t, <1>n, <2>1, <2>2 DEF TypeOK, ParentsOpen, Level
  <2>4. CASE level = "location"
    BY <1>t, <1>n, <2>1, <2>2, <2>3, <2>4
    DEF ParseInv, NestingAgrees, Around, ParentsOpen, Level
  <2>5. CASE level = "server"
    BY <1>t, <1>n, <2>1, <2>2, <2>3, <2>5
    DEF ParseInv, NestingAgrees, Around, ParentsOpen, Level
  <2> QED BY <2>2, <2>4, <2>5
<1>5. CASE EndOfFile
  <2>1. /\ level = "config" /\ UNCHANGED <<file, next, level, depth, net>>
        /\ outcome' = "refused" \/ (outcome' = "accepted" /\ depth["config"] = 0)
    BY <1>5, Zenon DEF EndOfFile, Ends, Completes
  <2> QED BY <1>t, <2>1 DEF ParseInv, TypeOK, NestingAgrees, Around, ParentsOpen, Level
<1>6. CASE UNCHANGED cvars
  BY <1>6 DEF cvars, ParseInv, TypeOK, NestingAgrees, Around, ParentsOpen
<1> QED
  BY <1>1, <1>2, <1>3, <1>4, <1>5, <1>6
  DEF ParseStep, RefuseLine, ReadBlanks, GiveDirective, SkipLine, RefuseBlock

(* The stacks of the three constructors together are the nesting of the    *)
(* lines read, whatever the file; an accepted file is balanced.            *)
THEOREM NestingCorrect == StartSpec => []NestingAgrees
<1>1. StartInit => ParseInv
  BY ParseInvInit DEF StartInit
<1>2. ParseInv /\ [StartNext]_vars => ParseInv'
  <2> SUFFICES ASSUME ParseInv, [StartNext]_vars PROVE ParseInv'
    OBVIOUS
  <2>1. [ParseStep]_cvars
    BY DEF StartNext, Configure, Configured, Bind, Run, Client, vars, cvars
  <2> QED BY <2>1, ParseInvNext
<1>3. ParseInv => NestingAgrees
  BY DEF ParseInv
<1> QED BY <1>1, <1>2, <1>3, PTL DEF StartSpec
-----------------------------------------------------------------------------
(* The blocks of an object are a sequence: they are only appended to.      *)
IsList(s) == \E S : s \in Seq(S)

BlocksAreSeqs ==
  /\ DOMAIN block = Level
  /\ \A l \in Level : "blocks" \in DOMAIN block[l] /\ IsList(block[l].blocks)

LEMMA AppendIsAList ==
  ASSUME NEW s, IsList(s), NEW e
  PROVE  IsList(Append(s, e))
<1>1. PICK S : s \in Seq(S)
  BY DEF IsList
<1>2. s \in Seq(S \cup {e})
  BY <1>1
<1>3. Append(s, e) \in Seq(S \cup {e})
  BY <1>2, AppendProperties
<1> QED BY <1>3 DEF IsList

LEMMA NewBlockIsEmpty ==
  ASSUME NEW l, NEW url, NEW line
  PROVE  /\ "blocks" \in DOMAIN NewBlock(l, url, line)
         /\ IsList(NewBlock(l, url, line).blocks)
<1>1. "blocks" \in DOMAIN NewBlock(l, url, line) /\ NewBlock(l, url, line).blocks = <<>>
  BY DEF NewBlock
<1>2. <<>> \in Seq({})
  OBVIOUS
<1> QED BY <1>1, <1>2 DEF IsList

LEMMA BlocksInit == Init => BlocksAreSeqs
<1> SUFFICES ASSUME Init PROVE BlocksAreSeqs
  OBVIOUS
<1>1. block = [l \in Level |-> NewBlock(l, "", 0)]
  BY DEF Init
<1> QED BY <1>1, NewBlockIsEmpty, Zenon DEF BlocksAreSeqs

LEMMA BlocksNext ==
  ASSUME BlocksAreSeqs, level \in Level, [ParseStep]_cvars
  PROVE  BlocksAreSeqs'
<1>1. CASE UNCHANGED block
  BY <1>1 DEF BlocksAreSeqs
<1>2. CASE OpenBlock
  <2> DEFINE l == Child(level)
             b == NewBlock(l, IF l = "location" THEN Line[2] ELSE "", next)
  <2>1. l \in Level
    BY DEF Child, Level
  <2>2. block' = [block EXCEPT ![l] = b]
    BY <1>2, Zenon DEF OpenBlock
  <2>3. "blocks" \in DOMAIN b /\ IsList(b.blocks)
    BY NewBlockIsEmpty, Zenon
  <2> HIDE DEF b, l
  <2> QED BY <2>1, <2>2, <2>3 DEF BlocksAreSeqs
<1>3. CASE GiveDirective
  <2>1. PICK d \in Directive(level) :
          block' = [block EXCEPT ![level] = Given(block[level], Line, d)]
    BY <1>3, Zenon DEF GiveDirective
  <2> DEFINE b == Given(block[level], Line, d)
  <2>2. b.blocks = block[level].blocks /\ "blocks" \in DOMAIN b
    BY DEF Given, BlocksAreSeqs
  <2> HIDE DEF b
  <2> QED BY <2>1, <2>2 DEF b, BlocksAreSeqs
<1>4. CASE CloseBlock
  <2> DEFINE up == Parent(level)
             b  == [block[level] EXCEPT !.last = next - 1]
  <2>1. block' = [block EXCEPT ![up].blocks = Append(@, b), ![up].seen = @ \cup {level}]
    BY <1>4, Zenon DEF CloseBlock
  <2>2. up \in Level
    BY DEF Parent, Level
  <2>3. IsList(Append(block[up].blocks, b))
    BY <2>2, AppendIsAList DEF BlocksAreSeqs
  <2> HIDE DEF up, b
  <2>4. /\ DOMAIN block' = Level
        /\ \A l \in Level \ {up} : block'[l] = block[l]
        /\ "blocks" \in DOMAIN block'[up]
        /\ block'[up].blocks = Append(block[up].blocks, b)
    BY <2>1, <2>2 DEF BlocksAreSeqs
  <2> QED BY <2>2, <2>3, <2>4 DEF BlocksAreSeqs
<1> QED
  BY <1>1, <1>2, <1>3, <1>4
  DEF ParseStep, RefuseLine, ReadBlanks, SkipLine, RefuseBlock, EndOfFile, Ends, cvars

(* What start-up has done so far: each block that was bound has a socket,  *)
(* or an address in use; each socket has a block.                          *)
Taken(i) == \E b \in foreign \cup listening : Overlap(Address(ServerBlocks[i]), b)

StartInv ==
  /\ ParseInv /\ BlocksAreSeqs
  /\ bound \in 0..Len(ServerBlocks)
  /\ stage = "configure" => bound = 0 /\ listening = {} /\ served = Nobody
  /\ stage \in {"listen", "run"} => \A i \in 1..bound : Taken(i)
  /\ stage = "run" => bound = Len(ServerBlocks)
  /\ \A l \in listening : \E i \in 1..Len(ServerBlocks) : l = Address(ServerBlocks[i])
  /\ served # Nobody =>
       /\ \E i \in 1..Len(ServerBlocks) : At(ServerBlocks[i], served.to)
       /\ served.block = SelectServer(Words(ServerBlocks), SocketWords(served.to),
                                      served.host)

LEMMA LengthIsNat ==
  ASSUME NEW s, IsList(s)
  PROVE  Len(s) \in Nat
  BY DEF IsList

LEMMA StartInvInit == StartInit => StartInv
<1> SUFFICES ASSUME StartInit PROVE StartInv
  OBVIOUS
<1>1. Init /\ stage = "configure" /\ bound = 0 /\ listening = {} /\ served = Nobody
  BY DEF StartInit
<1>2. ParseInv /\ BlocksAreSeqs
  BY <1>1, ParseInvInit, BlocksInit
<1>3. Len(ServerBlocks) \in Nat
  BY <1>2, LengthIsNat DEF BlocksAreSeqs, ServerBlocks, Level
<1> QED BY <1>1, <1>2, <1>3 DEF StartInv

LEMMA StartInvNext == StartInv /\ [StartNext]_vars => StartInv'
<1> SUFFICES ASSUME StartInv, [StartNext]_vars PROVE StartInv'
  OBVIOUS
<1>n. Len(ServerBlocks) \in Nat
  BY LengthIsNat DEF StartInv, BlocksAreSeqs, ServerBlocks, Level
<1>1. [ParseStep]_cvars
  BY DEF StartNext, Configure, Configured, Bind, Run, Client, vars, cvars
<1>2. level \in Level
  BY DEF StartInv, ParseInv, TypeOK
<1>3. ParseInv' /\ BlocksAreSeqs'
  BY <1>1, <1>2, ParseInvNext, BlocksNext DEF StartInv
<1>4. Len(ServerBlocks)' \in Nat
  BY <1>3, LengthIsNat DEF BlocksAreSeqs, ServerBlocks, Level
<1>5. CASE Configure
  BY <1>3, <1>4, <1>5 DEF StartInv, Configure, svars
<1>k. ASSUME UNCHANGED cvars
      PROVE  /\ ServerBlocks' = ServerBlocks
             /\ Len(ServerBlocks)' = Len(ServerBlocks)
  BY <1>k DEF cvars, ServerBlocks
<1>6. CASE Configured
  BY <1>3, <1>n, <1>k, <1>6 DEF StartInv, Configured
<1>7. CASE Bind
  <2> DEFINE a == Address(ServerBlocks[bound + 1])
  <2>1. /\ stage = "listen" /\ bound < Len(ServerBlocks) /\ bound' = bound + 1
        /\ UNCHANGED <<cvars, foreign, served>>
        /\ \/ stage' = "exit" /\ UNCHANGED listening
           \/ /\ stage' = stage
              /\ listening' = IF InUse(a) THEN listening ELSE listening \cup {a}
    BY <1>7 DEF Bind
  <2>2. ServerBlocks' = ServerBlocks
    BY <1>k, <2>1
  <2>3. bound \in Nat /\ bound + 1 \in 1..Len(ServerBlocks)
    BY <1>n, <2>1 DEF StartInv
  <2>4. \A l \in listening' : \E i \in 1..Len(ServerBlocks) : l = Address(ServerBlocks[i])
    BY <2>1, <2>3 DEF StartInv
  <2>5. ASSUME stage' = "listen"
        PROVE  \A i \in 1..bound' : Taken(i)'
    <3>1. listening' = IF InUse(a) THEN listening ELSE listening \cup {a}
      BY <2>1, <2>5
    <3>2. \A i \in 1..bound : Taken(i)
      BY <2>1 DEF StartInv
    <3>3. \E b \in foreign \cup listening' : Overlap(a, b)
      BY <3>1 DEF InUse, Overlap
    <3>4. ASSUME NEW i \in 1..bound' PROVE Taken(i)'
      <4>1. CASE i = bound + 1
        BY <2>1, <2>2, <3>3, <4>1 DEF Taken, Address, Overlap
      <4>2. CASE i \in 1..bound
        BY <2>1, <2>2, <3>1, <3>2, <4>2 DEF Taken, Address, Overlap
      <4> QED BY <2>1, <2>3, <4>1, <4>2
    <3> QED BY <3>4
  <2> QED BY <1>3, <1>n, <2>1, <2>2, <2>3, <2>4, <2>5 DEF StartInv
<1>8. CASE Run
  BY <1>3, <1>n, <1>k, <1>8 DEF StartInv, Run, Taken
<1>9. CASE Client
  <2>1. PICK ip \in LocalIps, l \in listening, host \in Hosts :
          /\ Overlap([ip |-> ip, port |-> l.port], l)
          /\ served' = [to    |-> [ip |-> ip, port |-> l.port], host |-> host,
                        block |-> SelectServer(Words(ServerBlocks),
                                    SocketWords([ip |-> ip, port |-> l.port]), host)]
    BY <1>9 DEF Client
  <2>2. PICK k \in 1..Len(ServerBlocks) : l = Address(ServerBlocks[k])
    BY DEF StartInv
  <2>3. At(ServerBlocks[k], served'.to)
    BY <2>1, <2>2, StartupAssumption DEF At, Overlap
  <2>4. UNCHANGED <<cvars, stage, bound, listening, foreign>> /\ ServerBlocks' = ServerBlocks
    BY <1>9, <1>k DEF Client
  <2>5. stage = "run"
    BY <1>9 DEF Client
  <2>6. served'.block = SelectServer(Words(ServerBlocks), SocketWords(served'.to),
                                     served'.host)
    BY <2>1
  <2>7. \A i \in 1..bound : Taken(i)'
    BY <2>4, <2>5 DEF StartInv, Taken
  <2> QED BY <1>3, <1>n, <2>3, <2>4, <2>5, <2>6, <2>7 DEF StartInv
<1>10. CASE UNCHANGED vars
  BY <1>3, <1>k, <1>10 DEF StartInv, vars, svars, Taken
<1> QED BY <1>5, <1>6, <1>7, <1>8, <1>9, <1>10 DEF StartNext

(* A block that was bound listens, or its address is in use, whatever the  *)
(* configuration and the other processes (setupListenSocket).              *)
THEOREM NoBlockForgottenAlways == StartSpec => []NoBlockForgotten
<1>1. StartInv => NoBlockForgotten
  BY DEF StartInv, Taken, NoBlockForgotten
<1> QED BY <1>1, StartInvInit, StartInvNext, PTL DEF StartSpec

(* Blocks that are spelled the server's way serve the clients that connect *)
(* to them (setupListenSocket, setConfigInfo).                             *)
THEOREM ServedAtOwnAddressAlways == StartSpec => []ServedAtOwnAddress
<1>1. StartInv => ServedAtOwnAddress
  <2> DEFINE blocks == ServerBlocks
             to     == served.to
             words  == Words(blocks)
             addr   == SocketWords(to)
             b      == blocks[served.block]
  <2> SUFFICES ASSUME StartInv, served # Nobody,
                      \A i \in 1..Len(blocks) : Spelled(blocks[i])
               PROVE  /\ At(b, to) \/ b.value["listen"] = Wildcard
                      /\ \A i \in 1..Len(blocks) :
                           At(blocks[i], to) /\ blocks[i].value["server_name"] = served.host
                             => b.value["server_name"] = served.host
    BY DEF ServedAtOwnAddress
  <2>1. Len(blocks) \in Nat
    BY LengthIsNat DEF StartInv, BlocksAreSeqs, ServerBlocks, Level
  <2>2. /\ Len(words) = Len(blocks)
        /\ \A i \in 1..Len(blocks) :
             /\ words[i].ip = blocks[i].value["listen"]
             /\ words[i].port = blocks[i].value["port"]
             /\ words[i].name = blocks[i].value["server_name"]
    BY <2>1 DEF Words
  <2>3. addr.ip = to.ip /\ addr.port = Decimal[to.port]
    BY DEF SocketWords
  <2>4. served.block = SelectServer(words, addr, served.host)
    BY DEF StartInv
  <2>5. PICK j \in 1..Len(blocks) : At(blocks[j], to)
    BY DEF StartInv
  <2> HIDE DEF words, addr, to, blocks
  <2>6. ASSUME NEW i \in 1..Len(blocks), At(blocks[i], to)
        PROVE  Matches(words[i], addr)
    BY <2>2, <2>3, <2>6 DEF At, Spelled, Matches
  <2>7. ASSUME NEW i \in 1..Len(blocks), Matches(words[i], addr)
        PROVE  At(blocks[i], to) \/ blocks[i].value["listen"] = Wildcard
    <3>1. CASE words[i].ip = Wildcard
      BY <2>2, <3>1
    <3>2. CASE words[i].ip = addr.ip /\ words[i].port = addr.port
      <4>1. /\ Address(blocks[i]).ip = to.ip
            /\ blocks[i].value["port"] = Decimal[to.port]
        BY <2>2, <2>3, <3>2 DEF Spelled
      <4>2. /\ Address(blocks[j]).port = to.port
            /\ blocks[j].value["port"] = Decimal[to.port]
        BY <2>5 DEF At, Spelled
      <4>3. Address(blocks[i]).port = Address(blocks[j]).port
        BY <4>1, <4>2 DEF Address
      <4> QED BY <4>1, <4>2, <4>3 DEF At
    <3> QED BY <2>7, <3>1, <3>2 DEF Matches
  <2>8. LET matching == {i \in 1..Len(words) : Matches(words[i], addr)}
            named    == {i \in matching : words[i].name = served.host}
        IN  /\ named # {} => served.block \in named
            /\ matching # {} => served.block \in matching
    BY <2>1, <2>2, <2>4, SelectServerMatches
  <2>9. served.block \in 1..Len(blocks) /\ Matches(words[served.block], addr)
    BY <2>2, <2>5, <2>6, <2>8
  <2>10. ASSUME NEW i \in 1..Len(blocks), At(blocks[i], to),
                blocks[i].value["server_name"] = served.host
         PROVE  b.value["server_name"] = served.host
    BY <2>2, <2>6, <2>8, <2>10
  <2> QED BY <2>7, <2>9, <2>10
<1> QED BY <1>1, StartInvInit, StartInvNext, PTL DEF StartSpec
-----------------------------------------------------------------------------
(* The meaning of a file: its braces line by line, and what a constructor  *)
(* has read of it.                                                         *)

(* The braces of one more line are counted (checkBracePair).               *)
LEMMA OneNext ==
  ASSUME NEW f, NEW word, NEW n \in Nat \ {0}, Len(f[n]) \in Nat,
         IsFiniteSet(Places(f, word, n - 1))
  PROVE  /\ IsFiniteSet(Places(f, word, n))
         /\ Cardinality(Places(f, word, n)) =
              Cardinality(Places(f, word, n - 1)) + Count(f[n], Len(f[n]), word)
<1> DEFINE P(m) == {m} \X {k \in 1..Len(f[m]) : f[m][k] = word}
           K == {k \in 1..Len(f[n]) : f[n][k] = word}
           S == Places(f, word, n - 1)
<1>1. Places(f, word, n) = S \cup P(n)
  <2>1. Places(f, word, n) = UNION {P(m) : m \in 1..n}
    BY Zenon DEF Places
  <2>2. S = UNION {P(m) : m \in 1..(n - 1)}
    BY Zenon DEF Places
  <2>3. 1..n = (1..(n - 1)) \cup {n}
    OBVIOUS
  <2> HIDE DEF P, S
  <2> QED BY <2>1, <2>2, <2>3
<1>2. S \cap P(n) = {}
  <2>1. S = UNION {P(m) : m \in 1..(n - 1)}
    BY Zenon DEF Places
  <2> HIDE DEF S
  <2>2. n \notin 1..(n - 1)
    OBVIOUS
  <2>3. \A m \in 1..(n - 1) : P(m) \cap P(n) = {}
    BY <2>2
  <2> HIDE DEF P
  <2> QED BY <2>1, <2>3
<1>3. IsFiniteSet(K)
  <2>1. IsFiniteSet(1..Len(f[n]))
    BY FS_Interval
  <2> QED BY <2>1, FS_Subset
<1>4. IsFiniteSet(P(n)) /\ Cardinality(P(n)) = Cardinality(K)
  <2> DEFINE g == [k \in K |-> <<n, k>>]
  <2>1. g \in Bijection(K, P(n))
    <3>1. g \in [K -> P(n)]
      OBVIOUS
    <3>2. \A a, b \in K : g[a] = g[b] => a = b
      OBVIOUS
    <3>3. \A t \in P(n) : \E s \in K : g[s] = t
      OBVIOUS
    <3> HIDE DEF g, P, K
    <3> QED BY <3>1, <3>2, <3>3 DEF Bijection, Injection, Surjection, IsInjective
  <2>2. ExistsBijection(K, P(n))
    BY <2>1, Zenon DEF ExistsBijection
  <2> HIDE DEF K, P
  <2> QED BY <1>3, <2>2, FS_Bijection
<1>5. Cardinality(K) = Count(f[n], Len(f[n]), word)
  BY Zenon DEF Count
<1> HIDE DEF P, K, S
<1>6. IsFiniteSet(S)
  BY DEF S
<1>7. IsFiniteSet(S \cup P(n)) /\ Cardinality(S \cup P(n)) =
        Cardinality(S) + Cardinality(P(n)) - Cardinality(S \cap P(n))
  BY <1>4, <1>6, FS_Union
<1>8. Cardinality({}) = 0 /\ Cardinality(S) \in Nat /\ Cardinality(P(n)) \in Nat
  BY <1>4, <1>6, FS_EmptySet, FS_CardinalityType
<1> DEFINE U == Places(f, word, n)  c == Count(f[n], Len(f[n]), word)
           p == Cardinality(P(n))  s == Cardinality(S)
<1>9. /\ IsFiniteSet(U) /\ Cardinality(U) = s + p - Cardinality({})
      /\ s \in Nat /\ p \in Nat /\ p = c
  BY <1>1, <1>2, <1>4, <1>5, <1>7, <1>8, Zenon
<1> HIDE DEF U, c, p, s
<1>10. IsFiniteSet(U) /\ Cardinality(U) = s + c
  BY <1>8, <1>9
<1> QED BY <1>10, Zenon DEF U, c, s, S

(* A line read changes the nesting by its braces. *)
PlacesFinite(f, i) ==
  IsFiniteSet(Places(f, Opening, i)) /\ IsFiniteSet(Places(f, Closing, i))

LEMMA NetNext ==
  ASSUME NEW f, NEW n \in Nat \ {0}, Len(f[n]) \in Nat, PlacesFinite(f, n - 1)
  PROVE  /\ PlacesFinite(f, n)
         /\ NetAt(f, n - 1) \in Int
         /\ NetAt(f, n) = NetAt(f, n - 1) + Braces(f[n], Len(f[n]))
<1>1. /\ PlacesFinite(f, n)
      /\ Cardinality(Places(f, Opening, n)) =
           Cardinality(Places(f, Opening, n - 1)) + Count(f[n], Len(f[n]), Opening)
      /\ Cardinality(Places(f, Closing, n)) =
           Cardinality(Places(f, Closing, n - 1)) + Count(f[n], Len(f[n]), Closing)
  BY OneNext DEF PlacesFinite
<1>2. /\ Cardinality(Places(f, Opening, n - 1)) \in Nat
      /\ Cardinality(Places(f, Closing, n - 1)) \in Nat
  BY FS_CardinalityType DEF PlacesFinite
<1>3. /\ Count(f[n], Len(f[n]), Opening) \in Nat
      /\ Count(f[n], Len(f[n]), Closing) \in Nat
  BY CountNat
<1> QED BY <1>1, <1>2, <1>3 DEF NetAt, Braces

LEMMA NetFirst ==
  ASSUME NEW f
  PROVE  PlacesFinite(f, 0) /\ NetAt(f, 0) = 0
<1>1. \A w : Places(f, w, 0) = {}
  BY DEF Places
<1> QED BY <1>1, FS_EmptySet DEF PlacesFinite, NetAt

(* The opening line of a block has one brace, unless its url is one. *)
LEMMA OpeningBraces ==
  ASSUME NEW l, NEW line \in Seq(STRING), Opens(l, line), line[Len(line)] = Opening,
         l = "server" => line[2] \notin {Opening, Closing}
  PROVE  Braces(line, Len(line)) = 1
<1> DEFINE up == {i \in 1..Len(line) : line[i] = Opening}
           down == {i \in 1..Len(line) : line[i] = Closing}
<1>0. /\ Opening # Closing /\ "server" \notin {Opening, Closing}
      /\ "location" \notin {Opening, Closing}
  BY DEF Opening, Closing
<1>3. Braces(line, Len(line)) = Cardinality(up) - Cardinality(down)
  BY Zenon DEF Braces, Count
<1> HIDE DEF up, down
<1>1. CASE l = "config"
  <2>1. Len(line) = 2 /\ line[1] = "server"
    BY <1>1 DEF Opens
  <2>3. Cardinality({2}) = 1 /\ Cardinality({}) = 0
    BY FS_Singleton, FS_EmptySet, Zenon
  <2>2. up = {2} /\ down = {}
    BY <1>0, <2>1 DEF up, down
  <2> QED BY <1>3, <2>2, <2>3
<1>2. CASE l = "server"
  <2>1. Len(line) = 3 /\ line[1] = "location"
    BY <1>2 DEF Opens
  <2>3. Cardinality({3}) = 1 /\ Cardinality({}) = 0
    BY FS_Singleton, FS_EmptySet, Zenon
  <2>2. up = {3} /\ down = {}
    BY <1>0, <1>2, <2>1 DEF up, down
  <2> QED BY <1>3, <2>2, <2>3
<1> QED BY <1>1, <1>2 DEF Opens

(* The lines of b, so far as it is read: those up to e that are in no block *)
(* of b; and the lines that open its blocks.                               *)
OwnUpTo(b, e) ==
  {i \in (b.first + 1)..e :
     \A k \in 1..Len(b.blocks) : i \notin (b.blocks[k].first + 1)..b.blocks[k].last}
Firsts(b) == {b.blocks[k].first : k \in 1..Len(b.blocks)}

(* The shape of an object under construction at level l.                   *)
ObjectFields == {"url", "first", "last", "seen", "value", "allowed_method", "blocks"}
IsObject(l, b) ==
  /\ DOMAIN b = ObjectFields /\ DOMAIN b.value = Single[l]
  /\ b.first \in Nat

(* The object b says what the given lines of f say, and they open blocks   *)
(* at the lines firsts.                                                    *)
Says(f, l, b, lines, firsts) ==
  /\ \A d \in Single[l] :
       LET giving == Giving(f, l, lines, d)
       IN  b.value[d] = IF giving = {} THEN "" ELSE f[LastOf(giving)][2]
  /\ \A d \in b.seen \ Level : Giving(f, l, lines, d) # {}
  /\ b.allowed_method = UNION {{f[i][k] : k \in 2..Len(f[i])} :
                                 i \in Giving(f, l, lines, "allowed_method")}
  /\ {i \in lines : Opens(l, f[i])} = firsts

(* An object that ends at line e, and one that is as it is written, with   *)
(* the blocks in it.                                                       *)
Ended(b, e) == [b EXCEPT !.last = e]

Finished(f, l, b) ==
  /\ Written(f, l, b)
  /\ l = "server" => \A k \in 1..Len(b.blocks) : Written(f, "location", b.blocks[k])

(* The constructor of level l has read b up to line e: b says what its own *)
(* lines say, and the blocks in it are as they are written.                *)
Reading(f, l, b, e, firsts) ==
  /\ IsObject(l, b) /\ b.first <= e
  /\ Says(f, l, b, OwnUpTo(b, e), firsts)
  /\ l # "config" => b.url = IF l = "location" THEN f[b.first][2] ELSE ""
  /\ \A k \in 1..Len(b.blocks) :
       /\ b.blocks[k].first \in Nat /\ b.blocks[k].last \in Nat
       /\ b.blocks[k].first <= b.blocks[k].last /\ b.blocks[k].last <= e
       /\ Finished(f, Child(l), b.blocks[k])

(* The block b is open before line n: the nesting was base before it and   *)
(* has been above base since.                                              *)
Braced(f, b, n, base) ==
  /\ b.first \in 1..(n - 1)
  /\ NetAt(f, b.first - 1) = base
  /\ \A i \in b.first..(n - 2) : NetAt(f, i) > base

(* The url of a location may be a brace until checkSemantics refuses it;   *)
(* till then the stacks count that brace, too.                             *)
Sound == level = "location" => block["location"].url \notin {Opening, Closing}

(* The inductive invariant: the object of the level that reads is read up  *)
(* to the last line taken, each object around it up to the line that opens *)
(* the block in it, and each open block is where its brace is open.        *)
WrittenInv ==
  /\ DOMAIN block = Level /\ block["config"].first = 0
  /\ PlacesFinite(file, next - 1)
  /\ net = NetAt(file, next - 1)
  /\ level = "config" =>
       Reading(file, "config", block["config"], next - 1, Firsts(block["config"]))
  /\ level # "config" =>
       Reading(file, "config", block["config"], block["server"].first,
               Firsts(block["config"]) \cup {block["server"].first})
  /\ level = "server" =>
       Reading(file, "server", block["server"], next - 1, Firsts(block["server"]))
  /\ level = "location" =>
       /\ Reading(file, "server", block["server"], block["location"].first,
                  Firsts(block["server"]) \cup {block["location"].first})
       /\ Reading(file, "location", block["location"], next - 1, Firsts(block["location"]))
       /\ Sound => Braced(file, block["location"], next,
                          depth["config"] + depth["server"] - 2)
  /\ level # "config" /\ Sound =>
       Braced(file, block["server"], next, depth["config"] - 1)

-----------------------------------------------------------------------------
(* A line gives one directive at most. *)
LEMMA GivesOne ==
  ASSUME NEW l, NEW line, NEW d, NEW e, Gives(l, line, d), Gives(l, line, e)
  PROVE  d = e
  BY DEF Gives

(* A line that opens a block gives no directive. *)
LEMMA OpensNotGives ==
  ASSUME NEW l, NEW line, Opens(l, line), NEW d
  PROVE  ~Gives(l, line, d)
<1>1. l = "config" => line[1] \notin Directive(l)
  BY DEF Opens, Directive, Single
<1>2. l = "server" => line[1] \notin Directive(l)
  BY DEF Opens, Directive, Single
<1> QED BY <1>1, <1>2 DEF Opens, Gives

(* The last of a set of lines and a later one. *)
LEMMA LastOfMore ==
  ASSUME NEW S, S \subseteq Nat, NEW n \in Nat, \A i \in S : i < n
  PROVE  LastOf(S \cup {n}) = n
<1> DEFINE T == S \cup {n}
<1>1. n \in T /\ \A j \in T : n >= j
  OBVIOUS
<1>2. \A i \in T : (\A j \in T : i >= j) => i = n
  OBVIOUS
<1>3. LastOf(T) = CHOOSE i \in T : \A j \in T : i >= j
  BY Zenon DEF LastOf
<1> HIDE DEF T
<1>4. LastOf(T) \in T /\ \A j \in T : LastOf(T) >= j
  BY <1>1, <1>3, Zenon
<1> QED BY <1>2, <1>4 DEF T

(* The lines that give a directive, with one line more. *)
LEMMA GivingNext ==
  ASSUME NEW f, NEW l, NEW lines, NEW n, NEW d
  PROVE  Giving(f, l, lines \cup {n}, d) =
           IF Gives(l, f[n], d) THEN Giving(f, l, lines, d) \cup {n}
                                ELSE Giving(f, l, lines, d)
  BY DEF Giving

(* A line that is no directive of l leaves what the object says.           *)
LEMMA SaysSkip ==
  ASSUME NEW f, NEW l, NEW b, NEW lines, NEW firsts, NEW n,
         \A d \in Directive(l) : ~Gives(l, f[n], d),
         Says(f, l, b, lines, firsts)
  PROVE  Says(f, l, b, lines \cup {n}, IF Opens(l, f[n]) THEN firsts \cup {n} ELSE firsts)
<1>1. \A d : ~Gives(l, f[n], d)
  BY DEF Gives
<1>2. \A d : Giving(f, l, lines \cup {n}, d) = Giving(f, l, lines, d)
  BY <1>1, GivingNext
<1>3. {i \in lines \cup {n} : Opens(l, f[i])} =
        IF Opens(l, f[n]) THEN {i \in lines : Opens(l, f[i])} \cup {n}
                          ELSE {i \in lines : Opens(l, f[i])}
  OBVIOUS
<1> QED BY <1>2, <1>3 DEF Says

(* A line that gives a directive is the last word on it.                   *)
LEMMA SaysGive ==
  ASSUME NEW f, NEW l \in Level, NEW b, IsObject(l, b), NEW lines, NEW firsts,
         NEW n \in Nat, lines \subseteq Nat, \A i \in lines : i < n,
         NEW d \in Directive(l), Gives(l, f[n], d), Says(f, l, b, lines, firsts)
  PROVE  Says(f, l, Given(b, f[n], d), lines \cup {n}, firsts)
<1> DEFINE g == Given(b, f[n], d)
           more == lines \cup {n}
<1>1. /\ IsObject(l, g)
      /\ g.url = b.url /\ g.first = b.first /\ g.blocks = b.blocks
      /\ g.seen = b.seen \cup {d}
      /\ g.allowed_method = IF d = "allowed_method"
                              THEN b.allowed_method \cup {f[n][i] : i \in 2..Len(f[n])}
                              ELSE b.allowed_method
      /\ \A e \in Single[l] : g.value[e] = IF e = d THEN f[n][2] ELSE b.value[e]
  <2>1. "allowed_method" \notin Single[l]
    BY DEF Single, Level
  <2> DEFINE line == f[n]
  <2> HIDE DEF line
  <2> QED BY <2>1 DEF Given, IsObject, ObjectFields, Directive, line
<1>2. /\ Giving(f, l, more, d) = Giving(f, l, lines, d) \cup {n}
      /\ \A e : e # d => Giving(f, l, more, e) = Giving(f, l, lines, e)
  <2>1. \A e : Gives(l, f[n], e) => e = d
    BY GivesOne, Zenon
  <2>2. \A e : Giving(f, l, more, e) = IF Gives(l, f[n], e)
                                        THEN Giving(f, l, lines, e) \cup {n}
                                        ELSE Giving(f, l, lines, e)
    BY GivingNext, Zenon
  <2> HIDE DEF more
  <2> QED BY <2>1, <2>2
<1>3. LastOf(Giving(f, l, more, d)) = n
  <2>1. Giving(f, l, lines, d) \subseteq lines
    BY DEF Giving
  <2> QED BY <1>2, <2>1, LastOfMore
<1>4. {i \in more : Opens(l, f[i])} = firsts
  <2>1. ~Opens(l, f[n])
    BY OpensNotGives
  <2>2. {i \in lines : Opens(l, f[i])} = firsts
    BY DEF Says
  <2> QED BY <2>1, <2>2
<1> HIDE DEF g, more
<1>5. ASSUME NEW e \in Single[l]
      PROVE  g.value[e] = IF Giving(f, l, more, e) = {} THEN ""
                          ELSE f[LastOf(Giving(f, l, more, e))][2]
  <2>1. CASE e = d
    BY <1>1, <1>2, <1>3, <2>1
  <2>2. CASE e # d
    BY <1>1, <1>2, <2>2 DEF Says
  <2> QED BY <2>1, <2>2
<1>6. ASSUME NEW e \in g.seen \ Level PROVE Giving(f, l, more, e) # {}
  <2>1. CASE e = d
    BY <1>2, <2>1
  <2>2. CASE e # d
    BY <1>1, <1>2, <2>2 DEF Says
  <2> QED BY <2>1, <2>2
<1>7. g.allowed_method = UNION {{f[i][k] : k \in 2..Len(f[i])} :
                                i \in Giving(f, l, more, "allowed_method")}
  <2> DEFINE M(i) == {f[i][k] : k \in 2..Len(f[i])}
  <2>1. b.allowed_method = UNION {M(i) : i \in Giving(f, l, lines, "allowed_method")}
    BY Zenon DEF Says
  <2>2. CASE d = "allowed_method"
    <3>1. g.allowed_method = b.allowed_method \cup M(n)
      BY <1>1, <2>2
    <3> HIDE DEF M
    <3>2. g.allowed_method = UNION {M(i) : i \in Giving(f, l, more, "allowed_method")}
      BY <1>2, <2>1, <2>2, <3>1
    <3> QED BY <3>2, Zenon DEF M
  <2>3. CASE d # "allowed_method"
    BY <1>1, <1>2, <2>1, <2>3
  <2> QED BY <2>2, <2>3
<1>8. Says(f, l, g, more, firsts)
  BY <1>4, <1>5, <1>6, <1>7, Zenon DEF Says
<1> QED BY <1>8, Zenon DEF g, more

(* The lines of an object that is read on, or in which a block c ended.    *)
LEMMA OwnNext ==
  ASSUME NEW b, b.first \in Nat, NEW n \in Nat \ {0}, b.first <= n - 1,
         \A k \in 1..Len(b.blocks) : b.blocks[k].first \in Nat /\ b.blocks[k].last \in Nat
                                  /\ b.blocks[k].last <= n - 1
  PROVE  /\ OwnUpTo(b, n) = OwnUpTo(b, n - 1) \cup {n}
         /\ OwnUpTo(b, n - 1) \subseteq Nat
         /\ \A i \in OwnUpTo(b, n - 1) : i < n
<1>1. (b.first + 1)..n = ((b.first + 1)..(n - 1)) \cup {n}
  OBVIOUS
<1>2. \A k \in 1..Len(b.blocks) : n \notin (b.blocks[k].first + 1)..b.blocks[k].last
  OBVIOUS
<1>3. \A i \in (b.first + 1)..(n - 1) : i \in Nat /\ i < n
  OBVIOUS
<1> QED BY <1>1, <1>2, <1>3 DEF OwnUpTo

(* An object starts with no line of its own. *)
LEMMA OwnNew ==
  ASSUME NEW b, b.first \in Nat
  PROVE  OwnUpTo(b, b.first) = {}
  BY DEF OwnUpTo

(* The blocks of b have ended by line n. *)
EndBy(b, n) ==
  \A k \in 1..Len(b.blocks) : b.blocks[k].first \in Nat /\ b.blocks[k].last \in Nat
                           /\ b.blocks[k].last <= n

(* g is b with a block c more, which starts after all there is in b. *)
WithBlock(g, b, c) ==
  /\ IsList(b.blocks) /\ g.blocks = Append(b.blocks, c) /\ g.first = b.first
  /\ b.first \in Nat /\ c.first \in Nat /\ c.last \in Nat
  /\ b.first <= c.first /\ c.first <= c.last
  /\ EndBy(b, c.first)

(* The lines of a block c that is appended are not lines of its parent.     *)
LEMMA OwnAppend ==
  ASSUME NEW b, NEW g, NEW c, WithBlock(g, b, c)
  PROVE  /\ OwnUpTo(g, c.last) = OwnUpTo(b, c.first)
         /\ Firsts(g) = Firsts(b) \cup {c.first}
<1>0. /\ IsList(b.blocks) /\ g.blocks = Append(b.blocks, c) /\ g.first = b.first
      /\ b.first \in Nat /\ c.first \in Nat /\ c.last \in Nat
      /\ b.first <= c.first /\ c.first <= c.last
  BY DEF WithBlock
<1> DEFINE n == Len(b.blocks)
<1>1. /\ n \in Nat /\ Len(g.blocks) = n + 1 /\ g.blocks[n + 1] = c
      /\ \A k \in 1..n : g.blocks[k] = b.blocks[k]
  BY <1>0, AppendProperties DEF IsList
<1> HIDE DEF n
<1>2. 1..(n + 1) = (1..n) \cup {n + 1}
  BY <1>1
<1>3. Firsts(g) = Firsts(b) \cup {c.first}
  <2>1. /\ \A k \in 1..n : k \in 1..(n + 1) /\ g.blocks[k].first = b.blocks[k].first
        /\ n + 1 \in 1..(n + 1) /\ g.blocks[n + 1].first = c.first
    BY <1>1
  <2>2. {g.blocks[k].first : k \in 1..(n + 1)} = {b.blocks[k].first : k \in 1..n} \cup {c.first}
    BY <1>2, <2>1
  <2> QED BY <1>1, <2>2, Zenon DEF Firsts, n
<1>4. \A i \in (b.first + 1)..c.last :
        i \notin (c.first + 1)..c.last <=> i \in (b.first + 1)..c.first
  BY <1>0
<1>5. OwnUpTo(g, c.last) = {i \in (b.first + 1)..c.first : \A k \in 1..n :
                              i \notin (b.blocks[k].first + 1)..b.blocks[k].last}
  <2>1. OwnUpTo(g, c.last) = {i \in (b.first + 1)..c.last :
          /\ i \notin (c.first + 1)..c.last
          /\ \A k \in 1..n : i \notin (b.blocks[k].first + 1)..b.blocks[k].last}
    BY <1>0, <1>1, <1>2 DEF OwnUpTo
  <2>2. (b.first + 1)..c.first \subseteq (b.first + 1)..c.last
    BY <1>0
  <2> QED BY <1>4, <2>1, <2>2
<1> QED BY <1>3, <1>5, Zenon DEF OwnUpTo, n

(* Line numbers are ordered. *)
LEMMA LessOrEqual == \A x, y, z \in Nat : x <= x /\ (x <= y /\ y <= z => x <= z)
  OBVIOUS

(* An object without blocks. *)
LEMMA NoBlocks ==
  ASSUME NEW b, b.blocks = <<>>
  PROVE  Firsts(b) = {} /\ \A k \in 1..Len(b.blocks) : FALSE
<1>1. Len(b.blocks) = 0
  OBVIOUS
<1>2. \A k \in 1..Len(b.blocks) : FALSE
  BY <1>1
<1> QED BY <1>2 DEF Firsts

(* The constructor of l reads a line that is no directive of its own.      *)
LEMMA ReadSkip ==
  ASSUME NEW f, NEW l \in Level, NEW b, NEW firsts, NEW n \in Nat \ {0},
         Reading(f, l, b, n - 1, firsts),
         \A d \in Directive(l) : ~Gives(l, f[n], d)
  PROVE  Reading(f, l, b, n, IF Opens(l, f[n]) THEN firsts \cup {n} ELSE firsts)
<1>1. /\ IsObject(l, b) /\ b.first \in Nat /\ b.first <= n - 1
      /\ Says(f, l, b, OwnUpTo(b, n - 1), firsts)
      /\ \A k \in 1..Len(b.blocks) : b.blocks[k].first \in Nat /\ b.blocks[k].last \in Nat
                                  /\ b.blocks[k].last <= n - 1
  BY DEF Reading, IsObject
<1>2. OwnUpTo(b, n) = OwnUpTo(b, n - 1) \cup {n}
  BY <1>1, OwnNext
<1>3. Says(f, l, b, OwnUpTo(b, n), IF Opens(l, f[n]) THEN firsts \cup {n} ELSE firsts)
  <2> DEFINE own == OwnUpTo(b, n - 1)
  <2>1. Says(f, l, b, own, firsts)
    BY <1>1
  <2> HIDE DEF own
  <2>2. Says(f, l, b, own \cup {n}, IF Opens(l, f[n]) THEN firsts \cup {n} ELSE firsts)
    BY <2>1, SaysSkip, Zenon
  <2> QED BY <1>2, <2>2, Zenon DEF own
<1>4. b.first <= n /\ \A k \in 1..Len(b.blocks) : b.blocks[k].last <= n
  BY <1>1
<1> QED BY <1>3, <1>4 DEF Reading

(* It reads a directive. *)
LEMMA ReadGive ==
  ASSUME NEW f, NEW l \in Level, NEW b, NEW firsts, NEW n \in Nat \ {0},
         Reading(f, l, b, n - 1, firsts), NEW line, line = f[n],
         NEW d \in Directive(l), Gives(l, line, d), NEW g, g = Given(b, line, d)
  PROVE  /\ Reading(f, l, g, n, firsts)
         /\ g.first = b.first /\ g.url = b.url /\ g.blocks = b.blocks
<1>1. /\ IsObject(l, b) /\ b.first \in Nat /\ b.first <= n - 1
      /\ Says(f, l, b, OwnUpTo(b, n - 1), firsts)
      /\ \A k \in 1..Len(b.blocks) : b.blocks[k].first \in Nat /\ b.blocks[k].last \in Nat
                                  /\ b.blocks[k].last <= n - 1
  BY DEF Reading, IsObject
<1>2. /\ OwnUpTo(b, n) = OwnUpTo(b, n - 1) \cup {n}
      /\ OwnUpTo(b, n - 1) \subseteq Nat /\ \A i \in OwnUpTo(b, n - 1) : i < n
  BY <1>1, OwnNext
<1>3. Says(f, l, g, OwnUpTo(b, n), firsts)
  <2> DEFINE own == OwnUpTo(b, n - 1)
  <2>1. Says(f, l, b, own, firsts) /\ own \subseteq Nat /\ \A i \in own : i < n
    BY <1>1, <1>2
  <2> HIDE DEF own
  <2>2. n \in Nat /\ Gives(l, f[n], d)
    OBVIOUS
  <2>3. Says(f, l, Given(b, f[n], d), own \cup {n}, firsts)
    BY <1>1, <2>1, <2>2, SaysGive, Zenon
  <2> QED BY <1>2, <2>3, Zenon DEF own
<1>4. IsObject(l, g) /\ g.url = b.url /\ g.first = b.first /\ g.blocks = b.blocks
  <2>1. "allowed_method" \notin Single[l]
    BY DEF Single, Level
  <2> QED BY <1>1, <2>1 DEF Given, IsObject, ObjectFields, Directive
<1>5. OwnUpTo(g, n) = OwnUpTo(b, n)
  BY <1>4 DEF OwnUpTo
<1>6. b.first <= n /\ \A k \in 1..Len(b.blocks) : b.blocks[k].last <= n
  BY <1>1
<1>7. Reading(f, l, g, n, firsts)
  BY <1>3, <1>4, <1>5, <1>6 DEF Reading
<1> QED BY <1>4, <1>7

(* It starts, at the line that opens its block. *)
LEMMA ReadNew ==
  ASSUME NEW f, NEW l \in {"config", "server", "location"}, NEW n \in Nat,
         NEW url, l = "server" => url = "", l = "location" => url = f[n][2],
         NEW b, b = NewBlock(l, url, n)
  PROVE  Reading(f, l, b, n, {})
<1>u. l # "config" => url = IF l = "location" THEN f[n][2] ELSE ""
  BY Zenon
<1>1. /\ IsObject(l, b) /\ b.first = n /\ b.url = url /\ b.seen = {} /\ b.blocks = <<>>
      /\ b.allowed_method = {} /\ \A d \in Single[l] : b.value[d] = ""
  BY DEF NewBlock, IsObject, ObjectFields
<1>2. OwnUpTo(b, n) = {}
  BY <1>1, OwnNew
<1>3. \A d : Giving(f, l, {}, d) = {}
  BY DEF Giving
<1>4. Says(f, l, b, {}, {})
  BY <1>1, <1>3 DEF Says
<1>e. Firsts(b) = {} /\ \A k \in 1..Len(b.blocks) : FALSE
  BY <1>1, NoBlocks, Zenon
<1>5. Reading(f, l, b, n, {})
  <2>2. /\ IsObject(l, b) /\ b.first <= n /\ Says(f, l, b, OwnUpTo(b, n), {})
        /\ l # "config" => b.url = IF l = "location" THEN f[b.first][2] ELSE ""
    <3> HIDE DEF Says
    <3>1. b.first <= n
      BY <1>1, LessOrEqual, Zenon
    <3> QED BY <1>1, <1>2, <1>4, <1>u, <3>1, Zenon
  <2> QED BY <1>e, <2>2, Zenon DEF Reading
<1> QED BY <1>5

(* A block c in it has ended. *)
LEMMA ReadClose ==
  ASSUME NEW f, NEW l \in {"config", "server"}, NEW b, NEW c, IsList(b.blocks),
         Reading(f, l, b, c.first, Firsts(b) \cup {c.first}),
         Finished(f, Child(l), c), c.first \in Nat, c.last \in Nat, c.first <= c.last,
         NEW g, DOMAIN g = ObjectFields, g.blocks = Append(b.blocks, c),
         g.seen = b.seen \cup {Child(l)}, g.first = b.first, g.url = b.url,
         g.value = b.value, g.allowed_method = b.allowed_method
  PROVE  Reading(f, l, g, c.last, Firsts(g))
<1>1. /\ IsObject(l, b) /\ b.first \in Nat /\ b.first <= c.first
      /\ Says(f, l, b, OwnUpTo(b, c.first), Firsts(b) \cup {c.first})
      /\ \A k \in 1..Len(b.blocks) :
           /\ b.blocks[k].first \in Nat /\ b.blocks[k].last \in Nat
           /\ b.blocks[k].first <= b.blocks[k].last /\ b.blocks[k].last <= c.first
           /\ Finished(f, Child(l), b.blocks[k])
      /\ l # "config" => b.url = IF l = "location" THEN f[b.first][2] ELSE ""
  BY DEF Reading, IsObject
<1>2. OwnUpTo(g, c.last) = OwnUpTo(b, c.first) /\ Firsts(g) = Firsts(b) \cup {c.first}
  <2>1. EndBy(b, c.first)
    BY <1>1, Zenon DEF EndBy
  <2>2. b.first \in Nat /\ b.first <= c.first
    BY <1>1, Zenon
  <2>3. WithBlock(g, b, c)
    BY <2>1, <2>2, Zenon DEF WithBlock
  <2> QED BY <2>3, OwnAppend
<1>3. IsObject(l, g)
  BY <1>1 DEF IsObject
<1>4. Child(l) \in Level
  BY DEF Child, Level
<1>5. Says(f, l, g, OwnUpTo(g, c.last), Firsts(g))
  BY <1>1, <1>2, <1>4 DEF Says
<1>6. \A k \in 1..Len(g.blocks) :
        /\ g.blocks[k].first \in Nat /\ g.blocks[k].last \in Nat
        /\ g.blocks[k].first <= g.blocks[k].last /\ g.blocks[k].last <= c.last
        /\ Finished(f, Child(l), g.blocks[k])
  <2> DEFINE n == Len(b.blocks)
  <2>1. /\ n \in Nat /\ Len(g.blocks) = n + 1 /\ g.blocks[n + 1] = c
        /\ \A k \in 1..n : g.blocks[k] = b.blocks[k]
    BY AppendProperties DEF IsList
  <2>2. ASSUME NEW k \in 1..n
        PROVE  /\ b.blocks[k].first \in Nat /\ b.blocks[k].last \in Nat
               /\ b.blocks[k].first <= b.blocks[k].last /\ b.blocks[k].last <= c.last
               /\ Finished(f, Child(l), b.blocks[k])
    <3>1. k \in 1..Len(b.blocks)
      OBVIOUS
    <3> HIDE DEF n
    <3>2. /\ b.blocks[k].first \in Nat /\ b.blocks[k].last \in Nat
          /\ b.blocks[k].first <= b.blocks[k].last /\ b.blocks[k].last <= c.first
          /\ Finished(f, Child(l), b.blocks[k])
      BY <1>1, <3>1, Zenon
    <3> QED BY <3>2, LessOrEqual, Zenon
  <2> HIDE DEF n
  <2>3. \A k \in 1..(n + 1) : k \in 1..n \/ k = n + 1
    BY <2>1
  <2> QED BY <2>1, <2>2, <2>3
<1>7. g.first <= c.last
  BY <1>1, LessOrEqual, Zenon
<1> QED BY <1>1, <1>3, <1>5, <1>6, <1>7 DEF Reading

(* It ends, with every mandatory directive given. *)
LEMMA ReadEnd ==
  ASSUME NEW f, NEW l \in Level, NEW b, NEW e,
         Reading(f, l, b, e, Firsts(b)), Mandatory[l] \subseteq b.seen,
         l # "config" =>
           /\ NetAt(f, e) = NetAt(f, b.first - 1)
           /\ \A i \in b.first..(e - 1) : NetAt(f, i) > NetAt(f, b.first - 1),
         NEW g, g = Ended(b, e)
  PROVE  Written(f, l, g)
<1>1. /\ IsObject(l, b) /\ Says(f, l, b, OwnUpTo(b, e), Firsts(b))
      /\ l # "config" => b.url = IF l = "location" THEN f[b.first][2] ELSE ""
  BY DEF Reading
<1>2. /\ g.last = e /\ g.first = b.first /\ g.blocks = b.blocks /\ g.seen = b.seen
      /\ g.value = b.value /\ g.allowed_method = b.allowed_method /\ g.url = b.url
  BY <1>1 DEF IsObject, ObjectFields, Ended
<1>3. Own(g) = OwnUpTo(b, e)
  BY <1>2 DEF Own, OwnUpTo
<1>4. {g.blocks[k].first : k \in 1..Len(g.blocks)} = Firsts(b)
  BY <1>2 DEF Firsts
<1>5. \A d \in Mandatory[l] \ Level : Giving(f, l, Own(g), d) # {}
  BY <1>1, <1>3 DEF Says
<1>6. /\ \A d \in Single[l] : g.value[d] = IF Giving(f, l, Own(g), d) = {} THEN ""
                                ELSE f[LastOf(Giving(f, l, Own(g), d))][2]
      /\ g.allowed_method = UNION {{f[i][k] : k \in 2..Len(f[i])} :
                                    i \in Giving(f, l, Own(g), "allowed_method")}
      /\ {i \in Own(g) : Opens(l, f[i])} = Firsts(b)
  BY <1>1, <1>2, <1>3, Zenon DEF Says
<1> HIDE DEF Says
<1> QED BY <1>1, <1>2, <1>4, <1>5, <1>6, Zenon DEF Written
-----------------------------------------------------------------------------
(* A block stays open over a line before which the nesting is above base.  *)
LEMMA BracedNext ==
  ASSUME NEW f, NEW b, NEW n \in Nat \ {0}, NEW base \in Int,
         Braced(f, b, n, base), NetAt(f, n - 1) > base
  PROVE  Braced(f, b, n + 1, base)
<1>1. /\ b.first \in 1..(n - 1) /\ NetAt(f, b.first - 1) = base
      /\ \A i \in b.first..(n - 2) : NetAt(f, i) > base
  BY DEF Braced
<1>2. b.first \in 1..((n + 1) - 1)
  BY <1>1
<1>3. \A i \in b.first..((n + 1) - 2) : i \in b.first..(n - 2) \/ i = n - 1
  BY <1>1
<1> QED BY <1>1, <1>2, <1>3, Zenon DEF Braced

(* A block opens. *)
LEMMA BracedNew ==
  ASSUME NEW f, NEW b, NEW n \in Nat \ {0}, NEW base, b.first = n, NetAt(f, n - 1) = base
  PROVE  Braced(f, b, n + 1, base)
<1>1. n \in 1..((n + 1) - 1) /\ \A i \in n..((n + 1) - 2) : FALSE
  OBVIOUS
<1> QED BY <1>1, Zenon DEF Braced

(* A line that is taken, for what was read so far. *)
LEMMA LineTaken ==
  ASSUME ParseInv, WrittenInv, Takes
  PROVE  /\ next \in Nat \ {0} /\ next' = next + 1 /\ next' - 1 = next
         /\ file' = file /\ Line = file[next] /\ Line \in Seq(STRING)
         /\ PlacesFinite(file', next' - 1) /\ net' = NetAt(file', next' - 1)
         /\ net = NetAt(file, next - 1)
         /\ level # "config" => depth[level] > 0
<1>1. file \in Seq(Seq(STRING)) /\ next \in 1..Len(file) /\ depth \in [Level -> Nat]
      /\ level \in Level
  BY DEF ParseInv, TypeOK, Takes, CanRead
<1>2. next \in Nat \ {0} /\ next' = next + 1 /\ next' - 1 = next /\ file' = file
  BY <1>1 DEF Takes
<1>3. Line = file[next] /\ Line \in Seq(STRING) /\ Len(file[next]) \in Nat
  BY <1>1 DEF Line
<1>4. PlacesFinite(file, next - 1) /\ net = NetAt(file, next - 1)
  BY DEF WrittenInv
<1>5. /\ PlacesFinite(file, next)
      /\ NetAt(file, next) = NetAt(file, next - 1) + Braces(file[next], Len(file[next]))
  BY <1>2, <1>3, <1>4, NetNext
<1>6. net' = net + Braces(Line, Len(Line))
  BY DEF Takes
<1>7. level # "config" => depth[level] > 0
  <2>1. level # "config" => depth[level] # 0
    BY Zenon DEF Takes, CanRead, BlockEnds
  <2> QED BY <1>1, <2>1
<1> QED BY <1>2, <1>3, <1>4, <1>5, <1>6, <1>7

(* A line that is read by the constructor that read the line before.       *)
LEMMA LineRead ==
  ASSUME ParseInv, WrittenInv, Takes, level' = level, depth' = Counted,
         NEW g, DOMAIN block' = Level, block'[level] = g,
         \A l \in Level \ {level} : block'[l] = block[l],
         Reading(file, level, g, next, Firsts(g)),
         g.first = block[level].first, g.url = block[level].url
  PROVE  WrittenInv'
<1>1. /\ next \in Nat \ {0} /\ next' = next + 1 /\ next' - 1 = next
      /\ file' = file
      /\ PlacesFinite(file', next' - 1) /\ net' = NetAt(file', next' - 1)
      /\ net = NetAt(file, next - 1)
      /\ level # "config" => depth[level] > 0
  BY LineTaken
<1>2. /\ level \in Level /\ depth \in [Level -> Nat]
      /\ net = depth["config"] + depth["server"] + depth["location"] - Around[level]
      /\ level = "location" => depth["server"] > 0
      /\ level # "location" => depth["location"] = 0
  BY DEF ParseInv, TypeOK, NestingAgrees, ParentsOpen
<1>3. \A l \in Level \ {level} : depth'[l] = depth[l]
  BY TakenLine
<1>4. DOMAIN block = Level /\ block["config"].first = 0
  BY DEF WrittenInv
<1>5. /\ DOMAIN block' = Level /\ block'[level] = g
      /\ \A l \in Level \ {level} : block'[l] = block[l]
  OBVIOUS
<1>d. depth["config"] \in Nat /\ depth["server"] \in Nat /\ depth["location"] \in Nat
  BY <1>2 DEF Level
<1>6. CASE level = "config"
  <2>1. block'["config"] = g /\ g.first = 0
    BY <1>4, <1>5, <1>6
  <2>2. Reading(file', "config", block'["config"], next' - 1, Firsts(block'["config"]))
    BY <1>1, <1>6, <2>1, Zenon
  <2>3. level' = "config"
    BY <1>6
  <2>4. "config" # "server" /\ "config" # "location"
    OBVIOUS
  <2> QED BY <1>1, <1>5, <2>1, <2>2, <2>3, <2>4, Zenon DEF WrittenInv
<1>7. CASE level = "server"
  <2>1. /\ block'["server"] = g /\ g.first = block["server"].first
        /\ block'["config"] = block["config"] /\ depth'["config"] = depth["config"]
    BY <1>3, <1>5, <1>7 DEF Level
  <2>2. Reading(file', "server", block'["server"], next' - 1, Firsts(block'["server"]))
    BY <1>1, <1>7, <2>1, Zenon
  <2>3. Reading(file', "config", block'["config"], block'["server"].first,
                Firsts(block'["config"]) \cup {block'["server"].first})
    BY <1>1, <1>7, <2>1, "server" # "config", Zenon DEF WrittenInv
  <2>4. Braced(file, block["server"], next, depth["config"] - 1)
    BY <1>7 DEF WrittenInv, Sound
  <2>5. NetAt(file, next - 1) > depth["config"] - 1
    BY <1>1, <1>2, <1>7, <1>d DEF Around
  <2>6. Braced(file, block["server"], next + 1, depth["config"] - 1)
    BY <1>1, <1>d, <2>4, <2>5, BracedNext
  <2>7. Braced(file', block'["server"], next', depth'["config"] - 1)
    BY <1>1, <2>1, <2>6, Zenon DEF Braced
  <2>8. level' = "server" /\ "server" # "config" /\ "server" # "location"
    BY <1>7
  <2>9. block'["config"].first = 0
    BY <1>4, <2>1
  <2> QED BY <1>1, <1>5, <2>2, <2>3, <2>7, <2>8, <2>9, Zenon DEF WrittenInv
<1>8. CASE level = "location"
  <2>1. /\ block'["location"] = g /\ g.first = block["location"].first
        /\ g.url = block["location"].url
        /\ block'["config"] = block["config"] /\ block'["server"] = block["server"]
        /\ depth'["config"] = depth["config"] /\ depth'["server"] = depth["server"]
    BY <1>3, <1>5, <1>8 DEF Level
  <2>2. Reading(file', "location", block'["location"], next' - 1, Firsts(block'["location"]))
    BY <1>1, <1>8, <2>1, Zenon
  <2>e. "location" # "config" /\ "location" # "server"
    OBVIOUS
  <2>3. /\ Reading(file', "config", block'["config"], block'["server"].first,
                   Firsts(block'["config"]) \cup {block'["server"].first})
        /\ Reading(file', "server", block'["server"], block'["location"].first,
                  Firsts(block'["server"]) \cup {block'["location"].first})
    BY <1>1, <1>8, <2>1, <2>e, Zenon DEF WrittenInv
  <2>4. ASSUME Sound'
        PROVE  /\ Braced(file', block'["location"], next',
                         depth'["config"] + depth'["server"] - 2)
               /\ Braced(file', block'["server"], next', depth'["config"] - 1)
    <3>1. Sound
      BY <1>8, <2>1, <2>4, Zenon DEF Sound
    <3>2. /\ Braced(file, block["location"], next, depth["config"] + depth["server"] - 2)
          /\ Braced(file, block["server"], next, depth["config"] - 1)
      BY <1>8, <2>e, <3>1, Zenon DEF WrittenInv
    <3>3. /\ NetAt(file, next - 1) > depth["config"] - 1
          /\ NetAt(file, next - 1) > depth["config"] + depth["server"] - 2
      BY <1>1, <1>2, <1>8, <1>d DEF Around
    <3>4. Braced(file, block["server"], next + 1, depth["config"] - 1)
      BY <1>1, <1>d, <3>2, <3>3, BracedNext
    <3>5. Braced(file, block["location"], next + 1, depth["config"] + depth["server"] - 2)
      BY <1>1, <1>d, <3>2, <3>3, BracedNext
    <3> QED BY <1>1, <2>1, <3>4, <3>5, Zenon DEF Braced
  <2>8. level' = "location"
    BY <1>8
  <2>9. block'["config"].first = 0
    BY <1>4, <2>1
  <2> QED BY <1>1, <1>5, <2>2, <2>3, <2>4, <2>8, <2>9, <2>e, Zenon DEF WrittenInv
<1> QED BY <1>2, <1>6, <1>7, <1>8 DEF Level

(* A line of no meaning (SkipLine). *)
LEMMA WrittenSkip == ASSUME ParseInv, WrittenInv, SkipLine PROVE WrittenInv'
<1> DEFINE b == block[level]
<1>1. Takes /\ level' = level /\ depth' = Counted /\ block' = block
      /\ ~Opens(level, Line) /\ \A d \in Directive(level) : ~Gives(level, Line, d)
  BY DEF SkipLine
<1>2. next \in Nat \ {0} /\ Line = file[next]
  BY <1>1, LineTaken
<1>3. level \in Level
  BY DEF ParseInv, TypeOK
<1>4. Reading(file, level, b, next - 1, Firsts(b))
  BY <1>3 DEF WrittenInv, Level
<1>5. DOMAIN block' = Level /\ block'[level] = b
      /\ \A l \in Level \ {level} : block'[l] = block[l]
  BY <1>1 DEF WrittenInv
<1>6. ~Opens(level, file[next]) /\ \A d \in Directive(level) : ~Gives(level, file[next], d)
  BY <1>1, <1>2, Zenon
<1> HIDE DEF b
<1>7. Reading(file, level, b, next, IF Opens(level, file[next])
                                     THEN Firsts(b) \cup {next} ELSE Firsts(b))
  BY <1>2, <1>3, <1>4, <1>6, ReadSkip, Zenon
<1>8. Reading(file, level, b, next, Firsts(b))
  BY <1>6, <1>7, Zenon
<1> QED BY <1>1, <1>5, <1>8, LineRead, Zenon DEF b

(* A directive (GiveDirective). *)
LEMMA WrittenGive == ASSUME ParseInv, WrittenInv, GiveDirective PROVE WrittenInv'
<1> DEFINE b == block[level]
<1>1. PICK d \in Directive(level) :
        /\ Gives(level, Line, d)
        /\ block' = [block EXCEPT ![level] = Given(block[level], Line, d)]
  BY Zenon DEF GiveDirective
<1>2. Takes /\ level' = level /\ depth' = Counted
  BY Zenon DEF GiveDirective
<1>3. next \in Nat \ {0} /\ Line = file[next]
  BY <1>2, LineTaken
<1>4. level \in Level
  BY DEF ParseInv, TypeOK
<1>5. Reading(file, level, b, next - 1, Firsts(b))
  BY <1>4 DEF WrittenInv, Level
<1> HIDE DEF b
<1> DEFINE g == Given(b, Line, d)
<1> HIDE DEF g
<1>6. Gives(level, Line, d) /\ g = Given(b, Line, d)
  BY <1>1, Zenon DEF g
<1>7. /\ Reading(file, level, g, next, Firsts(b))
      /\ g.first = b.first /\ g.url = b.url /\ g.blocks = b.blocks
  BY <1>3, <1>4, <1>5, <1>6, ReadGive, SMTT(30)
<1>8. DOMAIN block' = Level /\ block'[level] = g
      /\ \A l \in Level \ {level} : block'[l] = block[l]
  <2>1. block' = [block EXCEPT ![level] = g]
    BY <1>1, <1>3, Zenon DEF g, b
  <2> QED BY <1>4, <2>1 DEF WrittenInv
<1>9. Firsts(g) = Firsts(b)
  BY <1>7, Zenon DEF Firsts
<1> QED BY <1>2, <1>7, <1>8, <1>9, LineRead, Zenon DEF b

(* The line that opens a block: read by the parent, first line of the      *)
(* child (OpenBlock).                                                      *)
LEMMA WrittenOpen == ASSUME ParseInv, WrittenInv, OpenBlock PROVE WrittenInv'
<1> DEFINE F(l) == Firsts(block[l])
<1>1. /\ Takes /\ Opens(level, Line) /\ level' = Child(level)
      /\ depth' = [Counted EXCEPT ![Child(level)] = 1]
      /\ block' = [block EXCEPT ![Child(level)] =
                     NewBlock(Child(level), IF Child(level) = "location" THEN Line[2] ELSE "",
                              next)]
  BY Zenon DEF OpenBlock
<1>2. /\ next \in Nat \ {0} /\ next' = next + 1 /\ next' - 1 = next
      /\ file' = file /\ Line = file[next] /\ Line \in Seq(STRING)
      /\ PlacesFinite(file', next' - 1) /\ net' = NetAt(file', next' - 1)
      /\ net = NetAt(file, next - 1)
      /\ level # "config" => depth[level] > 0
  BY <1>1, LineTaken
<1>3. /\ level \in Level /\ depth \in [Level -> Nat]
      /\ net = depth["config"] + depth["server"] + depth["location"] - Around[level]
      /\ level # "location" => depth["location"] = 0
      /\ level = "config" => depth["server"] = 0
  BY DEF ParseInv, TypeOK, NestingAgrees, ParentsOpen
<1>d. depth["config"] \in Nat /\ depth["server"] \in Nat /\ depth["location"] \in Nat
  BY <1>3 DEF Level
<1>4. DOMAIN block = Level /\ block["config"].first = 0
  BY DEF WrittenInv
<1>5. /\ Counted \in [Level -> Nat]
      /\ Counted[level] = depth[level] + Braces(Line, Len(Line))
      /\ \A l \in Level \ {level} : Counted[l] = depth[l]
  BY <1>1, TakenLine
<1>6. Line[Len(Line)] = Opening
  BY <1>1 DEF Takes, Refused
<1>7. \A d \in Directive(level) : ~Gives(level, file[next], d)
  BY <1>1, <1>2, OpensNotGives, Zenon
<1>8. Opens(level, file[next])
  BY <1>1, <1>2, Zenon
<1>9. level \in {"config", "server"}
  BY <1>1 DEF Opens
<1>10. ASSUME Reading(file, level, block[level], next - 1, F(level))
       PROVE  Reading(file, level, block[level], next, F(level) \cup {next})
  <2>1. Reading(file, level, block[level], next,
                IF Opens(level, file[next]) THEN F(level) \cup {next} ELSE F(level))
    BY <1>2, <1>3, <1>7, <1>10, ReadSkip, Zenon
  <2> QED BY <1>8, <2>1, Zenon
<1>11. CASE level = "config"
  <2> DEFINE s == NewBlock("server", "", next)
  <2>1. /\ level' = "server" /\ block'["server"] = s
        /\ block'["config"] = block["config"] /\ DOMAIN block' = Level
        /\ depth'["config"] = depth["config"] + Braces(Line, Len(Line))
    BY <1>1, <1>4, <1>5, <1>11 DEF Child, Level
  <2>2. /\ Reading(file, "server", s, next, {}) /\ s.first = next /\ Firsts(s) = {}
    <3> DEFINE l == "server"  u == ""
    <3>1. /\ next \in Nat /\ l \in {"config", "server", "location"}
          /\ u = "" /\ l # "location"
      BY <1>2
    <3>2. s = NewBlock(l, u, next)
      OBVIOUS
    <3> HIDE DEF s, l, u
    <3>3. Reading(file, l, s, next, {})
      BY <3>1, <3>2, ReadNew, Zenon
    <3>4. s.first = next /\ s.blocks = <<>>
      BY <3>2 DEF NewBlock
    <3>5. Firsts(s) = {}
      BY <3>4, NoBlocks, Zenon
    <3> QED BY <3>3, <3>4, <3>5 DEF l
  <2> HIDE DEF s
  <2>3. Reading(file, "config", block["config"], next, F("config") \cup {next})
    BY <1>10, <1>11, Zenon DEF WrittenInv
  <2>4. Braces(Line, Len(Line)) = 1
    BY <1>1, <1>2, <1>6, <1>11, OpeningBraces, "server" # "config"
  <2>5. NetAt(file, next - 1) = depth'["config"] - 1
    BY <1>2, <1>3, <1>d, <1>11, <2>1, <2>4 DEF Around
  <2>6. Braced(file, s, next + 1, depth'["config"] - 1)
    BY <1>2, <2>2, <2>5, BracedNew
  <2>7. Braced(file', block'["server"], next', depth'["config"] - 1)
    BY <1>2, <2>1, <2>6, Zenon
  <2>8. Reading(file', "server", block'["server"], next' - 1, Firsts(block'["server"]))
    BY <1>2, <2>1, <2>2, Zenon
  <2>9. Reading(file', "config", block'["config"], block'["server"].first,
                Firsts(block'["config"]) \cup {block'["server"].first})
    BY <1>2, <2>1, <2>2, <2>3, Zenon
  <2>10. "server" # "config" /\ "server" # "location"
    OBVIOUS
  <2>11. block'["config"].first = 0
    BY <1>4, <2>1
  <2> QED BY <1>2, <2>1, <2>7, <2>8, <2>9, <2>10, <2>11, Zenon DEF WrittenInv
<1>12. CASE level = "server"
  <2> DEFINE m == NewBlock("location", Line[2], next)
  <2>1. /\ level' = "location" /\ block'["location"] = m
        /\ block'["config"] = block["config"] /\ block'["server"] = block["server"]
        /\ DOMAIN block' = Level /\ depth'["config"] = depth["config"]
        /\ depth'["server"] = depth["server"] + Braces(Line, Len(Line))
    BY <1>1, <1>4, <1>5, <1>12 DEF Child, Level
  <2>e. "location" # "config" /\ "location" # "server" /\ "server" # "config"
    OBVIOUS
  <2>2. /\ Reading(file, "location", m, next, {}) /\ m.first = next /\ m.url = Line[2]
        /\ Firsts(m) = {}
    <3> DEFINE l == "location"  u == Line[2]
    <3>1. /\ next \in Nat /\ l \in {"config", "server", "location"} /\ l # "server"
          /\ u = file[next][2]
      BY <1>2
    <3>2. m = NewBlock(l, u, next)
      OBVIOUS
    <3> HIDE DEF m, l, u
    <3>3. /\ next \in Nat /\ l \in {"config", "server", "location"} /\ l # "server"
          /\ l = "location" => u = file[next][2]
      BY <3>1
    <3>4. Reading(file, l, m, next, {})
      BY <3>2, <3>3, ReadNew, Zenon
    <3>5. m.first = next /\ m.url = u /\ m.blocks = <<>>
      BY <3>2 DEF NewBlock
    <3>6. Firsts(m) = {}
      BY <3>5, NoBlocks, Zenon
    <3> QED BY <3>4, <3>5, <3>6 DEF l, u
  <2> HIDE DEF m
  <2>3. Reading(file, "server", block["server"], next, F("server") \cup {next})
    BY <1>10, <1>12, Zenon DEF WrittenInv
  <2>4. Reading(file', "config", block'["config"], block'["server"].first,
                Firsts(block'["config"]) \cup {block'["server"].first})
    BY <1>2, <1>12, <2>1, <2>e, Zenon DEF WrittenInv
  <2>5. Reading(file', "server", block'["server"], block'["location"].first,
                Firsts(block'["server"]) \cup {block'["location"].first})
    BY <1>2, <2>1, <2>2, <2>3, Zenon
  <2>6. Reading(file', "location", block'["location"], next' - 1, Firsts(block'["location"]))
    BY <1>2, <2>1, <2>2, Zenon
  <2>7. ASSUME Sound'
        PROVE  /\ Braced(file', block'["location"], next',
                         depth'["config"] + depth'["server"] - 2)
               /\ Braced(file', block'["server"], next', depth'["config"] - 1)
    <3>1. Line[2] \notin {Opening, Closing}
      BY <2>1, <2>2, <2>7, Zenon DEF Sound
    <3>2. Braces(Line, Len(Line)) = 1
      BY <1>1, <1>2, <1>6, <1>12, <3>1, OpeningBraces
    <3>3. /\ NetAt(file, next - 1) = depth'["config"] + depth'["server"] - 2
          /\ NetAt(file, next - 1) > depth["config"] - 1
      <4> DEFINE K == Braces(Line, Len(Line))
      <4>1. K = 1 /\ depth'["server"] = depth["server"] + K
        BY <2>1, <3>2
      <4>2. net = depth["config"] + depth["server"] - 1 /\ depth["server"] > 0
        BY <1>2, <1>3, <1>d, <1>12 DEF Around
      <4> HIDE DEF K
      <4>3. depth'["server"] = depth["server"] + 1 /\ depth'["config"] = depth["config"]
        BY <2>1, <4>1
      <4>4. NetAt(file, next - 1) = depth["config"] + depth["server"] - 1
        BY <1>2, <4>2
      <4> QED BY <1>d, <4>2, <4>3, <4>4
    <3>4. Braced(file, m, next + 1, depth'["config"] + depth'["server"] - 2)
      BY <1>2, <2>2, <3>3, BracedNew
    <3>5. Braced(file, block["server"], next, depth["config"] - 1)
      BY <1>12, <2>e, Zenon DEF WrittenInv, Sound
    <3>6. Braced(file, block["server"], next + 1, depth["config"] - 1)
      BY <1>2, <1>d, <3>3, <3>5, BracedNext
    <3> QED BY <1>2, <2>1, <3>4, <3>6, Zenon
  <2>8. block'["config"].first = 0
    BY <1>4, <2>1
  <2> QED BY <1>2, <2>1, <2>4, <2>5, <2>6, <2>7, <2>8, <2>e, Zenon DEF WrittenInv
<1> QED BY <1>9, <1>11, <1>12

(* The block that ends is as it is written, and so is its parent so far.   *)
(* The block that ends. *)
Closed == Ended(block[level], next - 1)

LEMMA BlockEnded ==
  ASSUME ParseInv, BlocksAreSeqs, WrittenInv, CloseBlock,
         NEW up, up = Parent(level), NEW b, b = Closed
  PROVE  /\ level # "config" /\ level' = up /\ UNCHANGED <<file, next, net>>
         /\ depth' = [depth EXCEPT ![up] = @ - 1] /\ depth[level] = 0
         /\ DOMAIN block' = Level
         /\ \A l \in Level \ {up} : block'[l] = block[l]
         /\ block'[up].first = block[up].first /\ block'[up].url = block[up].url
         /\ Reading(file, up, block'[up], next - 1, Firsts(block'[up]))
         /\ level = "location" => Sound
<1>1. /\ level # "config" /\ Completes(level, b) /\ level' = up
      /\ UNCHANGED <<file, next, net>>
      /\ depth' = [depth EXCEPT ![up] = @ - 1]
      /\ block' = [block EXCEPT ![up].blocks = Append(@, b), ![up].seen = @ \cup {level}]
  BY Zenon DEF CloseBlock, BlockEnds, Closed, Ended
<1>2. Mandatory[level] \subseteq b.seen /\ depth[level] = 0 /\ CheckSemantics(level, b)
  BY <1>1, Zenon DEF Completes
<1>3. /\ up \in Level /\ level \in Level /\ up \in {"config", "server"} /\ level = Child(up)
      /\ \/ level = "server" /\ up = "config"
         \/ level = "location" /\ up = "server"
  BY <1>1 DEF Parent, Child, Level, ParseInv, TypeOK
<1>4. DOMAIN block = Level /\ "blocks" \in DOMAIN block[up] /\ IsList(block[up].blocks)
  BY <1>3 DEF BlocksAreSeqs
<1>n. /\ next \in Nat \ {0} /\ depth \in [Level -> Nat]
      /\ net = depth["config"] + depth["server"] + depth["location"] - Around[level]
      /\ level # "location" => depth["location"] = 0
      /\ net = NetAt(file, next - 1)
  BY DEF ParseInv, TypeOK, NestingAgrees, WrittenInv
<1>d. depth["config"] \in Nat /\ depth["server"] \in Nat /\ depth["location"] \in Nat
  BY <1>n DEF Level
<1>5. /\ Reading(file, level, block[level], next - 1, Firsts(block[level]))
      /\ Reading(file, up, block[up], block[level].first,
                 Firsts(block[up]) \cup {block[level].first})
  BY <1>3 DEF WrittenInv
<1>6. /\ DOMAIN block[level] = ObjectFields /\ DOMAIN block[up] = ObjectFields
      /\ block[level].first \in Nat /\ block[level].first <= next - 1
  BY <1>5, Zenon DEF Reading, IsObject
<1>7. ASSUME level = "location" PROVE Sound
  <2>1. b.url = block[level].url
    BY <1>6 DEF ObjectFields, Closed, Ended
  <2>2. b.url \in Urls
    BY <1>2, <1>7, Zenon DEF CheckSemantics, LocationSemantics
  <2> QED BY <1>7, <2>1, <2>2, ConfigAssumption, Zenon DEF Sound
<1>8. /\ DOMAIN block' = Level
      /\ \A l \in Level \ {up} : block'[l] = block[l]
      /\ block'[up] = [block[up] EXCEPT !.blocks = Append(@, b), !.seen = @ \cup {level}]
  BY <1>1, <1>3, <1>4
<1>9. /\ block'[up].first = block[up].first /\ block'[up].url = block[up].url
      /\ block'[up].blocks = Append(block[up].blocks, b)
      /\ DOMAIN block'[up] = ObjectFields
      /\ block'[up].seen = block[up].seen \cup {level}
      /\ block'[up].value = block[up].value
      /\ block'[up].allowed_method = block[up].allowed_method
  BY <1>6, <1>8 DEF ObjectFields, Closed, Ended
<1>10. PICK base \in Int :
         Braced(file, block[level], next, base) /\ NetAt(file, next - 1) = base
  <2>1. CASE level = "server"
    <3>1. Braced(file, block["server"], next, depth["config"] - 1)
      BY <2>1 DEF WrittenInv, Sound
    <3>2. NetAt(file, next - 1) = depth["config"] - 1 /\ depth["config"] - 1 \in Int
      BY <1>n, <1>d, <1>2, <2>1 DEF Around
    <3> QED BY <2>1, <3>1, <3>2, Zenon
  <2>2. CASE level = "location"
    <3>1. Braced(file, block["location"], next, depth["config"] + depth["server"] - 2)
      BY <1>7, <2>2, Zenon DEF WrittenInv
    <3>2. /\ NetAt(file, next - 1) = depth["config"] + depth["server"] - 2
          /\ depth["config"] + depth["server"] - 2 \in Int
      BY <1>n, <1>d, <1>2, <2>2 DEF Around
    <3> QED BY <2>2, <3>1, <3>2, Zenon
  <2> QED BY <1>3, <2>1, <2>2
<1>11. Written(file, level, b)
  <2> DEFINE o == block[level]  e == next - 1
  <2>1. NetAt(file, o.first - 1) = base /\ NetAt(file, e) = base
        /\ \A i \in o.first..(next - 2) : NetAt(file, i) > base
    BY <1>10 DEF Braced
  <2>2. o.first..(next - 2) = o.first..(e - 1)
    BY <1>n
  <2>3. Mandatory[level] \subseteq o.seen
    BY <1>2, <1>6 DEF ObjectFields, Closed, Ended
  <2>4. b = Ended(o, e) /\ Reading(file, level, o, e, Firsts(o))
    BY <1>5, Zenon DEF Closed
  <2> HIDE DEF o, e
  <2> QED BY <1>3, <2>1, <2>2, <2>3, <2>4, ReadEnd
<1>12. Finished(file, level, b)
  <2>1. ASSUME level = "server", NEW k \in 1..Len(b.blocks)
        PROVE  Written(file, "location", b.blocks[k])
    <3>1. b.blocks = block[level].blocks
      BY <1>6 DEF ObjectFields, Closed, Ended
    <3>2. Finished(file, Child(level), b.blocks[k])
      BY <1>5, <2>1, <3>1, Zenon DEF Reading
    <3>3. Child(level) = "location"
      BY <2>1 DEF Child
    <3> QED BY <3>2, <3>3, Zenon DEF Finished
  <2> QED BY <1>11, <2>1, Zenon DEF Finished
<1>13. Reading(file, up, block'[up], next - 1, Firsts(block'[up]))
  <2> DEFINE o == block[up]  g == block'[up]
  <2>1. b.first = block[level].first /\ b.last = next - 1
    BY <1>6 DEF ObjectFields, Closed, Ended
  <2>2. /\ b.first \in Nat /\ b.last \in Nat /\ b.first <= b.last
    BY <1>6, <1>n, <2>1
  <2>3. Reading(file, up, o, b.first, Firsts(o) \cup {b.first})
    BY <1>5, <2>1, Zenon
  <2>4. Finished(file, Child(up), b) /\ IsList(o.blocks) /\ up \in {"config", "server"}
    BY <1>3, <1>4, <1>12, Zenon
  <2>5. /\ DOMAIN g = ObjectFields /\ g.blocks = Append(o.blocks, b)
        /\ g.seen = o.seen \cup {Child(up)} /\ g.first = o.first /\ g.url = o.url
        /\ g.value = o.value /\ g.allowed_method = o.allowed_method
    BY <1>3, <1>9, Zenon
  <2> HIDE DEF o, g
  <2>6. Reading(file, up, g, b.last, Firsts(g))
    BY <2>2, <2>3, <2>4, <2>5, ReadClose, Zenon
  <2> QED BY <2>1, <2>6, Zenon DEF g
<1> QED BY <1>1, <1>2, <1>7, <1>8, <1>9, <1>13, Zenon

(* The end of a block: its parent reads on (CloseBlock). *)
LEMMA WrittenClose == ASSUME ParseInv, BlocksAreSeqs, WrittenInv, CloseBlock PROVE WrittenInv'
<1> DEFINE up == Parent(level)
<1>1. /\ level # "config" /\ level' = up /\ UNCHANGED <<file, next, net>>
      /\ depth' = [depth EXCEPT ![up] = @ - 1] /\ depth[level] = 0
      /\ DOMAIN block' = Level
      /\ \A l \in Level \ {up} : block'[l] = block[l]
      /\ block'[up].first = block[up].first /\ block'[up].url = block[up].url
      /\ Reading(file, up, block'[up], next - 1, Firsts(block'[up]))
      /\ level = "location" => Sound
  BY BlockEnded, Zenon
<1>2. /\ depth \in [Level -> Nat] /\ level \in Level
      /\ block["config"].first = 0
      /\ PlacesFinite(file, next - 1) /\ net = NetAt(file, next - 1)
  BY DEF ParseInv, TypeOK, WrittenInv
<1>e. "location" # "config" /\ "location" # "server" /\ "server" # "config"
  OBVIOUS
<1>3. file' = file /\ next' = next /\ net' = net
  BY <1>1
<1>4. CASE level = "server"
  <2>1. up = "config"
    BY <1>4 DEF Parent
  <2>2. block'["config"].first = 0
    BY <1>1, <1>2, <2>1, Zenon
  <2>3. Reading(file', "config", block'["config"], next' - 1, Firsts(block'["config"]))
    BY <1>1, <1>3, <2>1, Zenon
  <2> QED BY <1>1, <1>2, <1>3, <1>e, <2>1, <2>2, <2>3, Zenon DEF WrittenInv
<1>5. CASE level = "location"
  <2>1. up = "server"
    BY <1>5 DEF Parent
  <2>2. /\ block'["config"] = block["config"] /\ depth'["config"] = depth["config"]
        /\ block'["server"].first = block["server"].first
    BY <1>1, <1>2, <2>1 DEF Level
  <2>3. Reading(file', "server", block'["server"], next' - 1, Firsts(block'["server"]))
    BY <1>1, <1>3, <2>1, Zenon
  <2>4. Reading(file', "config", block'["config"], block'["server"].first,
                Firsts(block'["config"]) \cup {block'["server"].first})
    BY <1>3, <1>5, <1>e, <2>2, Zenon DEF WrittenInv
  <2>5. Braced(file, block["server"], next, depth["config"] - 1)
    BY <1>1, <1>5, <1>e, Zenon DEF WrittenInv
  <2>6. Braced(file', block'["server"], next', depth'["config"] - 1)
    BY <1>3, <2>2, <2>5, Zenon DEF Braced
  <2>7. level' = "server" /\ block'["config"].first = 0
    BY <1>1, <1>2, <2>1, <2>2
  <2> QED BY <1>1, <1>2, <1>3, <1>e, <2>3, <2>4, <2>6, <2>7, Zenon DEF WrittenInv
<1> QED BY <1>1, <1>2, <1>4, <1>5 DEF Level

(* Nothing is read at first. *)
LEMMA WrittenInvInit == Init => WrittenInv
<1> SUFFICES ASSUME Init PROVE WrittenInv
  OBVIOUS
<1> DEFINE c == NewBlock("config", "", 0)
<1>1. /\ next = 1 /\ level = "config" /\ net = 0 /\ DOMAIN block = Level
      /\ block["config"] = c
  BY Zenon DEF Init, Level
<1>2. c.first = 0 /\ c.blocks = <<>>
  BY DEF NewBlock
<1>3. Firsts(c) = {}
  BY <1>2, NoBlocks, Zenon
<1>4. next - 1 = 0
  <2>1. next = 1
    BY Zenon DEF Init
  <2> QED BY <2>1
<1>5. Reading(file, "config", c, 0, {})
  <2> DEFINE l == "config"  url == ""
  <2>1. /\ 0 \in Nat /\ l \in {"config", "server", "location"}
        /\ l # "server" /\ l # "location" /\ c = NewBlock(l, url, 0)
    OBVIOUS
  <2> HIDE DEF l, url, c
  <2>2. Reading(file, l, c, 0, {})
    BY <2>1, ReadNew, Zenon
  <2> QED BY <2>2 DEF l
<1> HIDE DEF c
<1>6. PlacesFinite(file, 0) /\ NetAt(file, 0) = 0
  BY NetFirst
<1>7. "location" # "config" /\ "server" # "config"
  OBVIOUS
<1> QED BY <1>1, <1>2, <1>3, <1>4, <1>5, <1>6, <1>7, Zenon DEF WrittenInv

(* Every step of the parser. *)
LEMMA WrittenInvNext ==
  ParseInv /\ BlocksAreSeqs /\ WrittenInv /\ [ParseStep]_cvars => WrittenInv'
<1> SUFFICES ASSUME ParseInv, BlocksAreSeqs, WrittenInv, [ParseStep]_cvars PROVE WrittenInv'
  OBVIOUS
<1>1. CASE UNCHANGED <<file, next, level, depth, block, net>>
  BY <1>1, Zenon DEF WrittenInv, Sound
<1>2. CASE OpenBlock
  BY <1>2, WrittenOpen
<1>3. CASE GiveDirective
  BY <1>3, WrittenGive
<1>4. CASE SkipLine
  BY <1>4, WrittenSkip
<1>5. CASE CloseBlock
  BY <1>5, WrittenClose
<1> QED BY <1>1, <1>2, <1>3, <1>4, <1>5
        DEF ParseStep, RefuseLine, ReadBlanks, RefuseBlock, EndOfFile, Ends, cvars

(* An accepted file means what its braces say, whatever the file: each     *)
(* object holds what its own lines give, and each block reaches from its   *)
(* opening line to the matching brace (the three parse methods).           *)
THEOREM ParsedAsWrittenAlways == StartSpec => ParsedAsWritten
<1> DEFINE Inv == ParseInv /\ BlocksAreSeqs /\ WrittenInv
<1>1. StartInit => Inv
  BY ParseInvInit, BlocksInit, WrittenInvInit DEF StartInit
<1>2. Inv /\ [StartNext]_vars => Inv'
  <2> SUFFICES ASSUME Inv, [StartNext]_vars PROVE Inv'
    OBVIOUS
  <2>1. [ParseStep]_cvars
    BY DEF StartNext, Configure, Configured, Bind, Run, Client, vars, cvars
  <2>2. level \in Level
    BY DEF ParseInv, TypeOK
  <2> QED BY <2>1, <2>2, ParseInvNext, BlocksNext, WrittenInvNext
<1>3. ASSUME Inv, [StartNext]_vars, outcome = "parsing", outcome' = "accepted",
             NEW top, top = Ended(block["config"], Len(file))
      PROVE  /\ Written(file, "config", top)
             /\ \A s \in 1..Len(top.blocks) :
                  /\ Written(file, "server", top.blocks[s])
                  /\ \A k \in 1..Len(top.blocks[s].blocks) :
                       Written(file, "location", top.blocks[s].blocks[k])
  <2> DEFINE c == block["config"]
  <2>1. EndOfFile
    BY <1>3 DEF StartNext, Configure, Configured, Bind, Run, Client, vars, cvars,
                ParseStep, RefuseLine, ReadBlanks, OpenBlock, GiveDirective, SkipLine,
                CloseBlock, RefuseBlock, Takes, Ends
  <2>2. level = "config" /\ next > Len(file) /\ Completes("config", c)
    BY <1>3, <2>1 DEF EndOfFile, Ends
  <2>3. next - 1 = Len(file)
    BY <1>3, <2>2 DEF ParseInv, TypeOK
  <2>4. Reading(file, "config", c, Len(file), Firsts(c)) /\ Mandatory["config"] \subseteq c.seen
    BY <1>3, <2>2, <2>3, Zenon DEF WrittenInv, Completes
  <2>5. DOMAIN c = ObjectFields
    BY <2>4, Zenon DEF Reading, IsObject
  <2>6. top.blocks = c.blocks
    <3> HIDE DEF c
    <3> QED BY <1>3, <2>5 DEF c, Ended, ObjectFields
  <2>7. Written(file, "config", top)
    <3> DEFINE l == "config"  e == Len(file)
    <3>1. /\ l \in Level /\ l = "config" /\ top = Ended(c, e)
          /\ Reading(file, l, c, e, Firsts(c)) /\ Mandatory[l] \subseteq c.seen
      BY <1>3, <2>4, Zenon DEF Level
    <3> HIDE DEF c, l, e
    <3> QED BY <3>1, ReadEnd
  <2>8. \A k \in 1..Len(c.blocks) : Finished(file, "server", c.blocks[k])
    <3>1. Child("config") = "server"
      BY DEF Child
    <3> QED BY <2>4, <3>1, Zenon DEF Reading
  <2> HIDE DEF c
  <2> QED BY <2>6, <2>7, <2>8, Zenon DEF Finished
<1>4. Inv /\ [StartNext]_vars =>
        [outcome = "parsing" /\ outcome' = "accepted" =>
           LET top == [block["config"] EXCEPT !.last = Len(file)] IN
           /\ Written(file, "config", top)
           /\ \A s \in 1..Len(top.blocks) :
                /\ Written(file, "server", top.blocks[s])
                /\ \A k \in 1..Len(top.blocks[s].blocks) :
                     Written(file, "location", top.blocks[s].blocks[k])]_cvars
  BY <1>3, Zenon DEF Ended
<1> HIDE DEF Inv
<1> QED BY <1>1, <1>2, <1>4, PTL DEF StartSpec, ParsedAsWritten
=============================================================================
