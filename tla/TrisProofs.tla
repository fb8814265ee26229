----------------------------- MODULE TrisProofs -----------------------------
(***************************************************************************)
(* Theorems about the game of tris: its sessions, TrisGame, for any timers *)
(* and any number of losses and repetitions, and its matchmaker, TrisMatch *)
(* and Pairing.                                                            *)
(***************************************************************************)
EXTENDS TrisMatch, TrisGame, FiniteSetTheorems, TLAPS

-----------------------------------------------------------------------------
(***************************************************************************)
(* The referee.                                                            *)
(***************************************************************************)
\* A line of the board that p has.
LineIn(b, p) == \E line \in Lines : \A c \in line : b[c] = p

\* First finds a line if there is one, and 0 only if there is none.
LEMMA FirstFinds ==
    ASSUME NEW b, NEW w, NEW lines, DOMAIN lines \subseteq Three
    PROVE  LET f == First(b, w, lines) IN
           \/ f = 0 /\ \A k \in DOMAIN lines : ~Owns(b, w, lines[k])
           \/ f \in DOMAIN lines /\ Owns(b, w, lines[f])
  <1> DEFINE S == {k \in DOMAIN lines : Owns(b, w, lines[k])}
  <1>1. CASE S = {}
    BY <1>1 DEF First
  <1>2. CASE S # {}
    <2>1. \E k \in S : \A j \in S : k <= j
      <3>1. S \subseteq {1, 2, 3}
        BY DEF Three
      <3> HIDE DEF S
      <3>2. CASE 1 \in S
        BY <3>1, <3>2
      <3>3. CASE 1 \notin S /\ 2 \in S
        BY <3>1, <3>3
      <3>4. CASE S = {3}
        BY <3>4
      <3> QED BY <1>2, <3>1, <3>2, <3>3, <3>4
    <2>2. First(b, w, lines) = CHOOSE k \in S : \A j \in S : k <= j
      BY <1>2 DEF First
    <2>3. First(b, w, lines) \in S
      <3> HIDE DEF S
      <3> QED BY <2>1, <2>2
    <2> QED BY <2>3
  <1> QED BY <1>1, <1>2

\* Three cells in a row, by their coordinates.
LEMMA RowOfThree ==
    ASSUME NEW i \in Three, NEW j \in Three, NEW m \in Three,
           NEW n \in Three, NEW k \in Three, NEW l \in Three
    PROVE  <<<<i, j>>, <<m, n>>, <<k, l>>>> \in InARow
              <=> (i # k \/ j # l) /\ i + k = 2 * m /\ j + l = 2 * n
  <1> DEFINE t == <<<<i, j>>, <<m, n>>, <<k, l>>>>
  <1>1. t \in Cells \X Cells \X Cells
    BY DEF Cells
  <1>2. t[1] # t[3] <=> i # k \/ j # l
    OBVIOUS
  <1>3. (\A x \in {1, 2} : t[1][x] + t[3][x] = 2 * t[2][x]) <=> i + k = 2 * m /\ j + l = 2 * n
    OBVIOUS
  <1> HIDE DEF t
  <1>4. t \in InARow <=> (i # k \/ j # l) /\ i + k = 2 * m /\ j + l = 2 * n
    BY <1>1, <1>2, <1>3 DEF InARow
  <1> QED BY <1>4 DEF t

\* Rows, columns and diagonals are the lines of the board.
LEMMA RowsColsDiagonals ==
    /\ DOMAIN Rows = Three /\ DOMAIN Cols = Three /\ DOMAIN Diagonals = {1, 2}
    /\ Lines = {Rows[k] : k \in Three} \cup {Cols[k] : k \in Three}
                  \cup {Diagonals[1], Diagonals[2]}
  <1> DEFINE All == {Rows[k] : k \in Three} \cup {Cols[k] : k \in Three}
                       \cup {Diagonals[1], Diagonals[2]}
  <1>1. /\ DOMAIN Rows = Three /\ DOMAIN Cols = Three /\ DOMAIN Diagonals = {1, 2}
        /\ \A k \in Three : Rows[k] = {k} \X Three /\ Cols[k] = Three \X {k}
    BY DEF Rows, Cols, Diagonals
  <1>2. Three = {1, 2, 3}
    BY DEF Three
  <1>3. ASSUME NEW k \in Three
        PROVE  /\ Rows[k] = {<<k, 1>>, <<k, 2>>, <<k, 3>>}
               /\ Cols[k] = {<<1, k>>, <<2, k>>, <<3, k>>}
    BY <1>1, <1>2
  <1>4. Diagonals[1] = {<<1, 1>>, <<2, 2>>, <<3, 3>>}
    <2>1. Diagonals[1] = {<<k, k>> : k \in Three}
      BY DEF Diagonals
    <2> QED BY <1>2, <2>1
  <1>5. Diagonals[2] = {<<1, 3>>, <<2, 2>>, <<3, 1>>}
    <2>1. Diagonals[2] = {<<k, 4 - k>> : k \in Three}
      BY DEF Diagonals
    <2>2. 4 - 1 = 3 /\ 4 - 2 = 2 /\ 4 - 3 = 1
      OBVIOUS
    <2>3. {<<k, 4 - k>> : k \in {1, 2, 3}} = {<<1, 4 - 1>>, <<2, 4 - 2>>, <<3, 4 - 3>>}
      OBVIOUS
    <2> QED BY <1>2, <2>1, <2>2, <2>3
  <1>6. ASSUME NEW t \in InARow PROVE {t[1], t[2], t[3]} \in All
    <2>1. PICK i, j, m, n, k, l \in Three : t = <<<<i, j>>, <<m, n>>, <<k, l>>>>
      <3>1. \A c \in Cells : \E x, y \in Three : c = <<x, y>>
        BY DEF Cells
      <3>2. /\ t[1] \in Cells /\ t[2] \in Cells /\ t[3] \in Cells
            /\ t = <<t[1], t[2], t[3]>>
        BY DEF InARow
      <3> QED BY <3>1, <3>2
    <2>2. (i # k \/ j # l) /\ i + k = 2 * m /\ j + l = 2 * n
      BY <2>1, RowOfThree
    <2>3. {t[1], t[2], t[3]} = {<<i, j>>, <<m, n>>, <<k, l>>}
      BY <2>1
    <2>4. CASE i = k
      <3>1. m = i /\ n = 2 /\ ((j = 1 /\ l = 3) \/ (j = 3 /\ l = 1))
        BY <1>2, <2>2, <2>4
      <3>2. {<<i, j>>, <<m, n>>, <<k, l>>} = {<<i, 1>>, <<i, 2>>, <<i, 3>>}
        BY <2>4, <3>1
      <3>3. {<<i, j>>, <<m, n>>, <<k, l>>} = Rows[i]
        BY <1>3, <3>2
      <3> QED BY <2>3, <3>3
    <2>5. CASE i # k /\ j = l
      <3>1. n = j /\ m = 2 /\ ((i = 1 /\ k = 3) \/ (i = 3 /\ k = 1))
        BY <1>2, <2>2, <2>5
      <3>2. {<<i, j>>, <<m, n>>, <<k, l>>} = {<<1, j>>, <<2, j>>, <<3, j>>}
        BY <2>5, <3>1
      <3>3. {<<i, j>>, <<m, n>>, <<k, l>>} = Cols[j]
        BY <1>3, <3>2
      <3> QED BY <2>3, <3>3
    <2>6. CASE i # k /\ j # l
      <3>1. m = 2 /\ n = 2 /\ i \in {1, 3} /\ k = 4 - i /\ j \in {1, 3} /\ l = 4 - j
        BY <1>2, <2>2, <2>6
      <3>2. CASE i = j
        <4>1. {<<i, j>>, <<m, n>>, <<k, l>>} = Diagonals[1]
          BY <1>4, <3>1, <3>2
        <4> QED BY <2>3, <4>1
      <3>3. CASE i # j
        <4>1. {<<i, j>>, <<m, n>>, <<k, l>>} = Diagonals[2]
          BY <1>5, <3>1, <3>3
        <4> QED BY <2>3, <4>1
      <3> QED BY <3>2, <3>3
    <2> QED BY <2>4, <2>5, <2>6
  <1>7. ASSUME NEW t \in InARow PROVE {t[1], t[2], t[3]} \in Lines
    BY DEF Lines
  <1>8. ASSUME NEW k \in Three PROVE Rows[k] \in Lines /\ Cols[k] \in Lines
    <2>1. /\ <<<<k, 1>>, <<k, 2>>, <<k, 3>>>> \in InARow
          /\ <<<<1, k>>, <<2, k>>, <<3, k>>>> \in InARow
      <3>1. 1 + 3 = 2 * 2 /\ k + k = 2 * k
        BY <1>2
      <3>2. 1 \in Three /\ 2 \in Three /\ 3 \in Three /\ 1 # 3
        BY <1>2
      <3> QED BY <3>1, <3>2, RowOfThree
    <2>2. /\ {<<k, 1>>, <<k, 2>>, <<k, 3>>} \in Lines
          /\ {<<1, k>>, <<2, k>>, <<3, k>>} \in Lines
      BY <1>7, <2>1
    <2> QED BY <1>3, <2>2
  <1>9. Diagonals[1] \in Lines /\ Diagonals[2] \in Lines
    <2>1. /\ <<<<1, 1>>, <<2, 2>>, <<3, 3>>>> \in InARow
          /\ <<<<1, 3>>, <<2, 2>>, <<3, 1>>>> \in InARow
      <3>1. 1 \in Three /\ 2 \in Three /\ 3 \in Three
        BY <1>2
      <3> QED BY <3>1, RowOfThree
    <2>2. /\ {<<1, 1>>, <<2, 2>>, <<3, 3>>} \in Lines
          /\ {<<1, 3>>, <<2, 2>>, <<3, 1>>} \in Lines
      BY <1>7, <2>1
    <2> QED BY <1>4, <1>5, <2>2
  <1>10. Lines = All
    <2>1. Lines \subseteq All
      BY <1>6 DEF Lines
    <2>2. All \subseteq Lines
      BY <1>8, <1>9
    <2> QED BY <2>1, <2>2
  <1> QED BY <1>1, <1>10

\* The tris noted is at exactly one of its three places and there; without a
\* line nothing is noted.
LEMMA TrisFound ==
    ASSUME NEW b, NEW w
    PROVE  LET t == tris(b, w) IN
           /\ t \in Seq(0 .. 3) /\ Len(t) = 3
           /\ winner(b, w) <=> LineIn(b, w)
           /\ winner(b, w) => \E i \in 1 .. 3 : {j \in 1 .. 3 : t[j] # 0} = {i}
           /\ t[1] # 0 => Owns(b, w, Rows[t[1]])
           /\ t[2] # 0 => Owns(b, w, Cols[t[2]])
           /\ t[3] # 0 => Owns(b, w, Diagonals[t[3]])
  <1> DEFINE r == First(b, w, Rows)
             c == First(b, w, Cols)
             d == First(b, w, Diagonals)
  <1>1. \/ r = 0 /\ \A k \in Three : ~Owns(b, w, Rows[k])
        \/ r \in Three /\ Owns(b, w, Rows[r])
    BY FirstFinds, RowsColsDiagonals
  <1>2. \/ c = 0 /\ \A k \in Three : ~Owns(b, w, Cols[k])
        \/ c \in Three /\ Owns(b, w, Cols[c])
    BY FirstFinds, RowsColsDiagonals
  <1>3. \/ d = 0 /\ ~Owns(b, w, Diagonals[1]) /\ ~Owns(b, w, Diagonals[2])
        \/ d \in {1, 2} /\ Owns(b, w, Diagonals[d])
    <2>1. DOMAIN Diagonals \subseteq Three
      BY RowsColsDiagonals DEF Three
    <2> QED BY <2>1, FirstFinds, RowsColsDiagonals
  <1>4. LineIn(b, w) <=> \/ \E k \in Three : Owns(b, w, Rows[k])
                         \/ \E k \in Three : Owns(b, w, Cols[k])
                         \/ Owns(b, w, Diagonals[1]) \/ Owns(b, w, Diagonals[2])
    BY RowsColsDiagonals DEF LineIn, Owns
  <1>5. tris(b, w) = IF r # 0 THEN <<r, 0, 0>> ELSE IF c # 0 THEN <<0, c, 0>> ELSE <<0, 0, d>>
    BY DEF tris
  <1> HIDE DEF r, c, d
  <1>6. Three = {1, 2, 3}
    BY DEF Three
  <1>7. r \in 0 .. 3 /\ c \in 0 .. 3 /\ d \in 0 .. 3
    BY <1>1, <1>2, <1>3, <1>6
  <1>8. CASE r # 0
    <2>1. tris(b, w) = <<r, 0, 0>>
      BY <1>5, <1>8
    <2>2. winner(b, w) /\ LineIn(b, w)
      BY <1>1, <1>4, <1>8, <2>1 DEF winner
    <2>3. {j \in 1 .. 3 : <<r, 0, 0>>[j] # 0} = {1}
      BY <1>8
    <2> QED BY <1>1, <1>7, <1>8, <2>1, <2>2, <2>3
  <1>9. CASE r = 0 /\ c # 0
    <2>1. tris(b, w) = <<0, c, 0>>
      BY <1>5, <1>9
    <2>2. winner(b, w) /\ LineIn(b, w)
      BY <1>2, <1>4, <1>9, <2>1 DEF winner
    <2>3. {j \in 1 .. 3 : <<0, c, 0>>[j] # 0} = {2}
      BY <1>9
    <2> QED BY <1>2, <1>7, <1>9, <2>1, <2>2, <2>3
  <1>10. CASE r = 0 /\ c = 0 /\ d # 0
    <2>1. tris(b, w) = <<0, 0, d>>
      BY <1>5, <1>10
    <2>2. winner(b, w) /\ LineIn(b, w)
      BY <1>3, <1>4, <1>10, <2>1 DEF winner
    <2>3. {j \in 1 .. 3 : <<0, 0, d>>[j] # 0} = {3}
      BY <1>10
    <2> QED BY <1>3, <1>7, <1>10, <2>1, <2>2, <2>3
  <1>11. CASE r = 0 /\ c = 0 /\ d = 0
    <2>1. tris(b, w) = <<0, 0, 0>>
      BY <1>5, <1>11
    <2>2. ~winner(b, w) /\ ~LineIn(b, w)
      BY <1>1, <1>2, <1>3, <1>4, <1>6, <1>11, <2>1 DEF winner
    <2> QED BY <2>1, <2>2
  <1> QED BY <1>8, <1>9, <1>10, <1>11

LEMMA Players12 == Players = {1, 2} /\ \A p \in Players : Other(p) \in Players /\ Other(p) = 3 - p
  BY DEF Players, Other

\* When at most the last to move has a line, that is who the referee finds.
LEMMA WinnerIs ==
    ASSUME NEW p \in Players, NEW b, ~LineIn(b, Other(p))
    PROVE  Winner(b) = IF LineIn(b, p) THEN p ELSE 0
  <1>1. winner(b, 1) <=> LineIn(b, 1)
    BY TrisFound
  <1>2. winner(b, 2) <=> LineIn(b, 2)
    BY TrisFound
  <1>3. CASE p = 1
    BY <1>1, <1>2, <1>3 DEF Winner, Other
  <1>4. CASE p = 2
    BY <1>1, <1>2, <1>4 DEF Winner, Other
  <1> QED BY <1>3, <1>4, Players12

\* The inserted 3 of a game that was won by time.
LEMMA InsertedType == InsertAt(<<0, 0, 0>>, 3, 3) \in Seq(0 .. 3)
  <1>1. <<0, 0, 0>> \in Seq(0 .. 3) /\ <<3>> \in Seq(0 .. 3) /\ <<0>> \in Seq(0 .. 3)
        /\ <<0, 0>> \in Seq(0 .. 3)
    OBVIOUS
  <1>2. InsertAt(<<0, 0, 0>>, 3, 3) = SubSeq(<<0, 0, 0>>, 1, 3 - 1) \o <<3>>
                                      \o SubSeq(<<0, 0, 0>>, 3, Len(<<0, 0, 0>>))
    BY DEF InsertAt
  <1>3. SubSeq(<<0, 0, 0>>, 1, 3 - 1) \in Seq(0 .. 3)
        /\ SubSeq(<<0, 0, 0>>, 3, Len(<<0, 0, 0>>)) \in Seq(0 .. 3)
    BY <1>1
  <1>4. ASSUME NEW q \in Seq(0 .. 3), NEW r \in Seq(0 .. 3), NEW s \in Seq(0 .. 3)
        PROVE  q \o r \o s \in Seq(0 .. 3)
    OBVIOUS
  <1> HIDE DEF InsertAt
  <1>5. SubSeq(<<0, 0, 0>>, 1, 3 - 1) \o <<3>> \o SubSeq(<<0, 0, 0>>, 3, Len(<<0, 0, 0>>))
           \in Seq(0 .. 3)
    BY <1>1, <1>3, <1>4, Zenon
  <1> QED BY <1>2, <1>5, Zenon

\* What the referee answers on a position that the move before left open.
LEMMA VerdictCases ==
    ASSUME NEW p \in Players, NEW b \in Boards, NEW t \in Times, ~LineIn(b, Other(p))
    PROVE  LET v == Verdict(p, b, t) IN
           /\ v.state = b /\ v.timers = t /\ v.nextPlayer = Other(p)
           /\ LineIn(b, p) => v.command = "finish" /\ v.winner = p /\ v.tris = tris(b, p)
           /\ ~LineIn(b, p) /\ full(b) =>
                 /\ v.command = "finish" /\ v.tris \in Seq(0 .. 3) /\ v.winner \in {0} \cup Players
                 /\ \A q \in Players : v.winner = q <=> t[q] < t[3 - q]
           /\ ~LineIn(b, p) /\ ~full(b) =>
                 v.command = "play" /\ v.tris = <<>> /\ v.winner = 0
  <1> DEFINE w == Winner(b)
             f == IF w = 0 /\ full(b) THEN Faster(t) ELSE w
  <1>1. w = IF LineIn(b, p) THEN p ELSE 0
    BY WinnerIs
  <1>2. Verdict(p, b, t) =
           [state      |-> b,
            timers     |-> t,
            command    |-> IF w > 0 \/ full(b) THEN "finish" ELSE "play",
            nextPlayer |-> Other(p),
            winner     |-> Announce(f),
            tris       |-> IF Announce(f) = 0 THEN <<>>
                           ELSE IF w = 0 THEN InsertAt(<<0, 0, 0>>, 3, 3) ELSE tris(b, w)]
    BY DEF Verdict
  <1>3. f = IF w = 0 /\ full(b) THEN Faster(t) ELSE w
    OBVIOUS
  <1> HIDE DEF w, f
  <1>4. p \in {1, 2}
    BY Players12
  <1>5. CASE LineIn(b, p)
    <2>1. w = p /\ f = p /\ Announce(f) = p /\ p > 0 /\ p # 0
      BY <1>1, <1>3, <1>4, <1>5 DEF Announce
    <2> QED BY <1>2, <1>5, <2>1
  <1>6. CASE ~LineIn(b, p) /\ full(b)
    <2>1. w = 0 /\ f = Faster(t)
      BY <1>1, <1>3, <1>6
    <2>2. t[1] \in Int /\ t[2] \in Int
      BY Players12 DEF Times
    <2>3. /\ t[1] < t[2] => Announce(f) = 1
          /\ t[2] < t[1] => Announce(f) = 2
          /\ ~(t[1] < t[2]) /\ ~(t[2] < t[1]) => Announce(f) = 0
      BY <2>1, <2>2 DEF Faster, Announce
    <2>4. Announce(f) \in {0} \cup Players
      BY <2>2, <2>3, Players12
    <2>5. \A q \in {1, 2} : Announce(f) = q <=> t[q] < t[3 - q]
      <3>1. Announce(f) = 1 <=> t[1] < t[2]
        BY <2>2, <2>3
      <3>2. Announce(f) = 2 <=> t[2] < t[1]
        BY <2>2, <2>3
      <3>3. 3 - 1 = 2 /\ 3 - 2 = 1
        OBVIOUS
      <3> QED BY <3>1, <3>2, <3>3
    <2>6. <<>> \in Seq(0 .. 3)
      OBVIOUS
    <2> QED BY <1>2, <1>6, <2>1, <2>4, <2>5, <2>6, InsertedType, Players12
  <1>7. CASE ~LineIn(b, p) /\ ~full(b)
    <2>1. w = 0 /\ f = 0 /\ Announce(f) = 0 /\ ~(w > 0)
      BY <1>1, <1>3, <1>7 DEF Announce
    <2> QED BY <1>2, <1>7, <2>1
  <1>8. /\ Verdict(p, b, t).state = b /\ Verdict(p, b, t).timers = t
        /\ Verdict(p, b, t).nextPlayer = Other(p)
    BY <1>2
  <1> QED BY <1>5, <1>6, <1>7, <1>8

-----------------------------------------------------------------------------
(***************************************************************************)
(* The sessions: what holds throughout a session, GInv.                    *)
(***************************************************************************)
\* Who has not just moved has no line: the game would be finished before.
NoLineBefore(p, b) == ~LineIn(b, Other(p))

\* The message on the topic is one of subscribe's or a verdict on a position
\* that can be reached.
Position ==
    \/ last \in {Nothing, Setup, Start}
    \/ \E p \in Players : last = Verdict(p, last.state, last.timers) /\ NoLineBefore(p, last.state)

\* A request still to come is on such a position; if it was not answered yet,
\* it is the move that the session waits for.
CopyInv ==
    copy # NoRequest =>
        /\ NoLineBefore(copy.player, copy.state)
        /\ ~copy.done =>
              /\ last.command \in {"start", "play"} /\ last.nextPlayer = copy.player
              /\ copy.player \notin current
              /\ \E c \in Cells : last.state[c] = 0
                                  /\ copy.state = [last.state EXCEPT ![c] = copy.player]

\* Moves follow the last message of subscribe.
Started == last.command \in {"start", "play", "finish"} \/ copy # NoRequest => sent >= 4

\* Without a loss both players are told the topic, and unless one of them was
\* late, who has the turn has the message.
Steady == ~faulty =>
    /\ sent <= 4 /\ ready = {p \in Players : p <= sent}
    /\ sent = 4 => last.command \in {"start", "play", "finish"}
    /\ sent = 4 /\ last.command # "finish" /\ ~missed => last.nextPlayer \in current

GInv == GameTypeOK /\ Position /\ CopyInv /\ Started /\ Steady

USE BoundsAssumption

LEMMA FirstMessages ==
    /\ Nothing.command = "none" /\ Setup.command = "setup" /\ Start.command = "start"
    /\ Nothing.nextPlayer = 0 /\ Setup.nextPlayer = 0 /\ Start.nextPlayer = 1
    /\ \A m \in {Nothing, Setup, Start} :
          /\ m.winner = 0 /\ m.tris = <<>>
          /\ m.state = [c \in Cells |-> 0] /\ m.timers = [p \in Players |-> 0]
  BY DEF Nothing, Setup, Start

LEMMA EmptyTyped ==
    /\ [c \in Cells |-> 0] \in Boards /\ [p \in Players |-> 0] \in Times
    /\ <<>> \in Seq(0 .. 3)
    /\ \A p : p # 0 => ~LineIn([c \in Cells |-> 0], p)
  <1>1. [c \in Cells |-> 0] \in Boards /\ [p \in Players |-> 0] \in Times /\ <<>> \in Seq(0 .. 3)
    BY DEF Boards, Times
  <1>2. \A line \in Lines : \E c \in line : c \in Cells
    <2>1. \A t \in InARow : t[1] \in Cells
      BY DEF InARow
    <2> QED BY <2>1 DEF Lines
  <1>3. ASSUME NEW p, p # 0 PROVE ~LineIn([c \in Cells |-> 0], p)
    BY <1>2, <1>3 DEF LineIn
  <1> QED BY <1>1, <1>3

\* A mark of p gives the other one no line.
LEMMA BoardAfter ==
    ASSUME NEW p \in Players, NEW b \in Boards, NEW c \in Cells, ~LineIn(b, Other(p))
    PROVE  [b EXCEPT ![c] = p] \in Boards /\ ~LineIn([b EXCEPT ![c] = p], Other(p))
  <1> DEFINE a == [b EXCEPT ![c] = p]
  <1>1. a \in Boards
    BY DEF Boards
  <1>2. \A line \in Lines : \A d \in line : d \in Cells
    <2>1. \A t \in InARow : t[1] \in Cells /\ t[2] \in Cells /\ t[3] \in Cells
      BY DEF InARow
    <2> QED BY <2>1 DEF Lines
  <1>3. p # Other(p)
    BY Players12
  <1>4. \A d \in Cells : a[d] = Other(p) => b[d] = Other(p)
    BY <1>3 DEF Boards
  <1> HIDE DEF a
  <1>5. LineIn(a, Other(p)) => LineIn(b, Other(p))
    BY <1>2, <1>4, Zenon DEF LineIn
  <1> QED BY <1>1, <1>5 DEF a

\* A verdict is a well-formed message on its own position.
LEMMA VerdictTyped ==
    ASSUME NEW p \in Players, NEW b \in Boards, NEW t \in Times, ~LineIn(b, Other(p))
    PROVE  LET v == Verdict(p, b, t) IN
           /\ v.command \in {"play", "finish"} /\ v.nextPlayer = Other(p)
           /\ v.winner \in {0} \cup Players /\ v.tris \in Seq(0 .. 3)
           /\ v.state = b /\ v.timers = t
           /\ \E q \in Players : v = Verdict(q, v.state, v.timers) /\ NoLineBefore(q, v.state)
  <1> DEFINE v == Verdict(p, b, t)
  <1>1. v.state = b /\ v.timers = t /\ v.nextPlayer = Other(p)
    BY VerdictCases
  <1>2. v = Verdict(p, v.state, v.timers) /\ NoLineBefore(p, v.state)
    BY <1>1 DEF NoLineBefore
  <1>3. CASE LineIn(b, p)
    <2>1. v.command = "finish" /\ v.winner = p /\ v.tris = tris(b, p)
      BY <1>3, VerdictCases
    <2>2. tris(b, p) \in Seq(0 .. 3)
      BY TrisFound
    <2> HIDE DEF v
    <2>3. v.command \in {"play", "finish"} /\ v.winner \in {0} \cup Players /\ v.tris \in Seq(0 .. 3)
      BY <2>1, <2>2
    <2> QED BY <1>1, <1>2, <2>3 DEF v
  <1>4. CASE ~LineIn(b, p) /\ full(b)
    <2>1. v.command = "finish" /\ v.winner \in {0} \cup Players /\ v.tris \in Seq(0 .. 3)
      BY <1>4, VerdictCases
    <2> QED BY <1>1, <1>2, <2>1
  <1>5. CASE ~LineIn(b, p) /\ ~full(b)
    <2>1. v.command = "play" /\ v.winner = 0 /\ v.tris = <<>>
      BY <1>5, VerdictCases
    <2> HIDE DEF v
    <2>3. v.command \in {"play", "finish"} /\ v.winner \in {0} \cup Players /\ v.tris \in Seq(0 .. 3)
      BY <2>1, EmptyTyped
    <2> QED BY <1>1, <1>2, <2>3 DEF v
  <1> QED BY <1>3, <1>4, <1>5

\* Who has the turn moves on a position on which the other has no line.
LEMMA OpenPosition ==
    ASSUME GameTypeOK, Position, last.command \in {"start", "play"}
    PROVE  last.nextPlayer \in Players /\ ~LineIn(last.state, Other(last.nextPlayer))
  <1>1. last.state \in Boards /\ last.timers \in Times
    BY DEF GameTypeOK
  <1>2. CASE last \in {Nothing, Setup, Start}
    <2>1. last.nextPlayer = 1 /\ last.state = [c \in Cells |-> 0]
      BY <1>2, FirstMessages
    <2>2. Other(1) # 0 /\ 1 \in Players
      BY DEF Other, Players
    <2> QED BY <2>1, <2>2, EmptyTyped
  <1>3. ASSUME NEW q \in Players, last = Verdict(q, last.state, last.timers),
               NoLineBefore(q, last.state)
        PROVE  last.nextPlayer \in Players /\ ~LineIn(last.state, Other(last.nextPlayer))
    <2>1. ~LineIn(last.state, Other(q))
      BY <1>3 DEF NoLineBefore
    <2>2. last.nextPlayer = Other(q)
      BY <1>1, <1>3, <2>1, VerdictCases
    <2>3. LineIn(last.state, q) => last.command = "finish"
      BY <1>1, <1>3, <2>1, VerdictCases
    <2>4. ~LineIn(last.state, q)
      BY <2>3
    <2>5. Other(Other(q)) = q
      BY DEF Players, Other
    <2> QED BY <2>2, <2>4, <2>5, Players12
  <1> QED BY <1>2, <1>3 DEF Position

\* A verdict on such a position is right.
LEMMA VerdictIsRight ==
    ASSUME GameTypeOK, Position
    PROVE  RightVerdict
  <1>1. last.state \in Boards /\ last.timers \in Times
    BY DEF GameTypeOK
  <1>2. CASE last \in {Nothing, Setup, Start}
    BY <1>2, FirstMessages DEF RightVerdict
  <1>3. ASSUME NEW q \in Players, last = Verdict(q, last.state, last.timers),
               NoLineBefore(q, last.state)
        PROVE  RightVerdict
    <2>1. ~LineIn(last.state, Other(q))
      BY <1>3 DEF NoLineBefore
    <2>2. \A p : HasLine(p) <=> LineIn(last.state, p)
      BY DEF HasLine, LineIn
    <2>3. q \in {1, 2} /\ Other(q) = 3 - q
      BY Players12
    <2>4. HasLine(1) \/ HasLine(2) <=> LineIn(last.state, q)
      <3>1. CASE q = 1
        BY <2>1, <2>2, <3>1 DEF Other
      <3>2. CASE q = 2
        BY <2>1, <2>2, <3>2 DEF Other
      <3> QED BY <2>3, <3>1, <3>2
    <2>5. ~(HasLine(1) /\ HasLine(2))
      <3>1. CASE q = 1
        BY <2>1, <2>2, <3>1 DEF Other
      <3>2. CASE q = 2
        BY <2>1, <2>2, <3>2 DEF Other
      <3> QED BY <2>3, <3>1, <3>2
    <2>6. CASE LineIn(last.state, q)
      <3>1. last.command = "finish" /\ last.winner = q /\ last.tris = tris(last.state, q)
        BY <1>1, <1>3, <2>1, <2>6, VerdictCases
      <3>2. LineIsThere
        <4> DEFINE t == last.tris
        <4>1. /\ Len(t) = 3
              /\ t[1] # 0 => Owns(last.state, q, Rows[t[1]])
              /\ t[2] # 0 => Owns(last.state, q, Cols[t[2]])
              /\ t[3] # 0 => Owns(last.state, q, Diagonals[t[3]])
          BY <3>1, TrisFound
        <4>2. \E i \in 1 .. 3 : {j \in 1 .. 3 : t[j] # 0} = {i}
          BY <2>6, <3>1, TrisFound
        <4>3. Cardinality({j \in 1 .. 3 : t[j] # 0}) = 1
          BY <4>2, FS_Singleton
        <4> QED BY <3>1, <4>1, <4>3 DEF LineIsThere
      <3>3. \A p \in Players : last.winner = p <=> HasLine(p)
        BY <2>1, <2>2, <2>3, <2>6, <3>1 DEF Players
      <3> QED BY <2>4, <2>5, <2>6, <3>1, <3>2, <3>3 DEF RightVerdict
    <2>7. CASE ~LineIn(last.state, q) /\ full(last.state)
      <3>1. last.command = "finish"
            /\ \A p \in Players : last.winner = p <=> last.timers[p] < last.timers[3 - p]
        BY <1>1, <1>3, <2>1, <2>7, VerdictCases
      <3>2. ~HasLine(1) /\ ~HasLine(2)
        BY <2>4, <2>7
      <3>3. LineIsThere /\ \A p \in Players : ~HasLine(p)
        BY <3>2, Players12 DEF LineIsThere
      <3> QED BY <2>7, <3>1, <3>2, <3>3 DEF RightVerdict
    <2>8. CASE ~LineIn(last.state, q) /\ ~full(last.state)
      <3>1. last.command = "play" /\ last.winner = 0
        BY <1>1, <1>3, <2>1, <2>8, VerdictCases
      <3>2. ~HasLine(1) /\ ~HasLine(2)
        BY <2>4, <2>8
      <3> QED BY <2>8, <3>1, <3>2 DEF RightVerdict, LineIsThere
    <2> QED BY <2>6, <2>7, <2>8
  <1> QED BY <1>2, <1>3 DEF Position

-----------------------------------------------------------------------------
(***************************************************************************)
(* The sessions: every action keeps GInv.                                  *)
(***************************************************************************)
LEMMA SessionBegins ==
    ASSUME GameInit
    PROVE  GInv
  <1>1. GameTypeOK
    <2>1. last.command = "none" /\ last.nextPlayer = 0 /\ last.winner = 0 /\ last.tris = <<>>
          /\ last.state = [c \in Cells |-> 0] /\ last.timers = [p \in Players |-> 0]
      BY FirstMessages DEF GameInit
    <2>2. last.nextPlayer \in {0} \cup Players /\ last.winner \in {0} \cup Players
          /\ last.tris \in Seq(0 .. 3) /\ last.state \in Boards /\ last.timers \in Times
      BY <2>1, EmptyTyped
    <2>3. sent \in 0 .. 5 /\ troubles \in 0 .. MaxTroubles /\ copy = NoRequest
          /\ ready = {} /\ listening = {} /\ current = {} /\ faulty = FALSE /\ missed = FALSE
      BY DEF GameInit
    <2> QED BY <2>1, <2>2, <2>3 DEF GameTypeOK
  <1>2. Position /\ CopyInv
    BY DEF GameInit, Position, CopyInv
  <1>3. Started
    BY FirstMessages DEF GameInit, Started
  <1>4. Steady
    BY DEF GameInit, Steady, Players
  <1> QED BY <1>1, <1>2, <1>3, <1>4 DEF GInv

LEMMA SessionStutters ==
    ASSUME GInv, UNCHANGED gameVars
    PROVE  GInv'
  BY DEF GInv, gameVars, GameTypeOK, Position, CopyInv, Started, Steady, HasTurn

LEMMA ListenKeeps ==
    ASSUME GInv, NEW p \in Players, Listen(p)
    PROVE  GInv'
  <1> USE DEF GInv, Listen
  <1>1. GameTypeOK'
    BY DEF GameTypeOK
  <1>2. Position'
    BY DEF Position
  <1>3. CopyInv'
    BY DEF CopyInv
  <1>4. Started'
    BY DEF Started
  <1>5. Steady'
    BY DEF Steady
  <1> QED BY <1>1, <1>2, <1>3, <1>4, <1>5

LEMMA TroublesTyped ==
    ASSUME GameTypeOK, NEW how \in Outcomes, NEW again \in BOOLEAN, Counted(how, again)
    PROVE  /\ troubles' \in 0 .. MaxTroubles
           /\ faulty' \in BOOLEAN
           /\ ~faulty' => ~faulty /\ how = "delivered"
  <1>1. troubles \in 0 .. MaxTroubles /\ faulty \in BOOLEAN
    BY DEF GameTypeOK
  <1>2. faulty' = (faulty \/ how # "delivered")
    BY DEF Counted
  <1>3. troubles' = troubles \/ (troubles < MaxTroubles /\ troubles' = troubles + 1)
    <2>1. CASE how = "delivered" /\ ~again
      BY <2>1 DEF Counted
    <2>2. CASE ~(how = "delivered" /\ ~again)
      BY <2>2 DEF Counted
    <2> QED BY <2>1, <2>2
  <1>4. troubles' \in 0 .. MaxTroubles
    BY <1>1, <1>3
  <1> QED BY <1>1, <1>2, <1>4

LEMMA SubscribeKeeps ==
    ASSUME GInv, NEW how \in Outcomes, subscribe(how)
    PROVE  GInv'
  <1>1. /\ GameTypeOK /\ Position /\ CopyInv /\ Started /\ Steady
        /\ sent < 4 /\ sent \in 0 .. 5 /\ copy' = copy /\ listening' = listening
        /\ sent' = IF how = "exception" THEN 5 ELSE sent + 1
    BY DEF GInv, subscribe, GameTypeOK
  <1>2. copy = NoRequest /\ last.command \notin {"start", "play", "finish"}
    BY <1>1 DEF Started
  <1>3. troubles' \in 0 .. MaxTroubles /\ faulty' \in BOOLEAN
        /\ (~faulty' => ~faulty /\ how = "delivered")
    <2>1. Counted(how, FALSE)
      BY DEF subscribe
    <2> QED BY <1>1, <2>1, TroublesTyped
  <1>4. CopyInv'
    BY <1>1, <1>2 DEF CopyInv
  <1>5. CASE sent < 2 /\ Ready(sent + 1, how)
    <2>1. ready' = (IF how = "delivered" THEN ready \cup {sent + 1} ELSE ready)
          /\ last' = last /\ current' = current /\ missed' = missed
      BY <1>5 DEF Ready
    <2>2. sent + 1 \in Players /\ sent' \in 0 .. 5
      BY <1>1, <1>5 DEF Players
    <2>3. GameTypeOK'
      BY <1>1, <1>3, <2>1, <2>2 DEF GameTypeOK
    <2>4. Position'
      BY <1>1, <2>1 DEF Position
    <2>5. Started'
      BY <1>1, <1>2, <2>1 DEF Started
    <2>6. ~faulty' => sent' = sent + 1 /\ sent' \in {1, 2} /\ ready' = {p \in Players : p <= sent'}
      <3> SUFFICES ASSUME ~faulty' PROVE sent' = sent + 1 /\ sent' \in {1, 2}
                                         /\ ready' = {p \in Players : p <= sent'}
        OBVIOUS
      <3>1. how = "delivered" /\ sent' = sent + 1 /\ sent \in {0, 1}
        BY <1>1, <1>3, <1>5
      <3>2. ready = {p \in Players : p <= sent}
        BY <1>1, <1>3 DEF Steady
      <3>3. ready' = ready \cup {sent + 1}
        BY <2>1, <3>1
      <3>4. CASE sent = 0
        BY <3>1, <3>2, <3>3, <3>4 DEF Players
      <3>5. CASE sent = 1
        BY <3>1, <3>2, <3>3, <3>5 DEF Players
      <3> QED BY <3>1, <3>4, <3>5
    <2>7. Steady'
      BY <2>6 DEF Steady
    <2> QED BY <1>4, <2>3, <2>4, <2>5, <2>7 DEF GInv
  <1>6. ASSUME NEW m \in {Setup, Start}, sent \in {2, 3}, m = (IF sent = 2 THEN Setup ELSE Start),
               Publish(m, how, current), ready' = ready
        PROVE  GInv'
    <2>1. \/ how = "delivered" /\ last' = m /\ current' = listening
             /\ missed' = (missed \/ m.nextPlayer \in ready \ listening)
          \/ how # "delivered" /\ last' = last /\ current' = current /\ missed' = missed
      BY <1>6 DEF Publish
    <2>2. m.command \in {"setup", "start"} /\ m.nextPlayer \in {0, 1} /\ m.winner = 0 /\ m.tris = <<>>
          /\ m.state = [c \in Cells |-> 0] /\ m.timers = [p \in Players |-> 0]
      BY FirstMessages
    <2>3. /\ m.command \in {"none", "setup", "start", "play", "finish"}
          /\ m.nextPlayer \in {0} \cup Players /\ m.winner \in {0} \cup Players
          /\ m.tris \in Seq(0 .. 3) /\ m.state \in Boards /\ m.timers \in Times
      BY <2>2, EmptyTyped DEF Players
    <2>4. sent' \in 0 .. 5 /\ sent' > sent
      BY <1>1
    <2>5. missed' \in BOOLEAN
      <3>1. missed \in BOOLEAN
        BY <1>1 DEF GameTypeOK
      <3> QED BY <2>1, <3>1
    <2>6. GameTypeOK'
      <3>1. CASE how = "delivered"
        <4>1. last' = m /\ current' = listening
          BY <2>1, <3>1
        <4>2. listening \subseteq ready /\ ready \subseteq Players
          BY <1>1 DEF GameTypeOK
        <4> QED BY <1>1, <1>2, <1>3, <1>6, <2>3, <2>4, <2>5, <4>1, <4>2 DEF GameTypeOK
      <3>2. CASE how # "delivered"
        <4>1. last' = last /\ current' = current
          BY <2>1, <3>2
        <4> QED BY <1>1, <1>2, <1>3, <1>6, <2>4, <2>5, <4>1 DEF GameTypeOK
      <3> QED BY <3>1, <3>2
    <2>7. Position'
      BY <1>1, <2>1 DEF Position
    <2>8. Started'
      <3>1. CASE sent = 2
        <4>1. m.command = "setup"
          BY <1>6, <3>1, FirstMessages
        <4>2. last'.command \notin {"start", "play", "finish"}
          BY <1>2, <2>1, <4>1
        <4> QED BY <1>1, <1>2, <4>2 DEF Started
      <3>2. CASE sent = 3
        BY <1>1, <3>2 DEF Started
      <3> QED BY <1>6, <3>1, <3>2
    <2>9. Steady'
      <3> SUFFICES ASSUME ~faulty' PROVE Steady'
        BY DEF Steady
      <3>1. how = "delivered" /\ sent' = sent + 1 /\ ~faulty
        BY <1>1, <1>3
      <3>2. last' = m /\ current' = listening /\ missed' = (missed \/ m.nextPlayer \in ready \ listening)
        BY <2>1, <3>1
      <3>3. ready = {p \in Players : p <= sent}
        BY <1>1, <3>1 DEF Steady
      <3>4. \A p \in Players : p <= sent /\ p <= sent'
        BY <1>6, <3>1, Players12
      <3>5. ready = Players /\ ready' = {p \in Players : p <= sent'}
        BY <1>6, <3>3, <3>4
      <3>6. CASE sent = 2
        BY <3>1, <3>5, <3>6 DEF Steady
      <3>7. CASE sent = 3
        <4>1. m.command = "start" /\ m.nextPlayer = 1
          BY <1>6, <3>7, FirstMessages
        <4>2. ~missed' => 1 \in listening
          BY <3>2, <3>5, <4>1, Players12
        <4>3. last'.command = "start" /\ last'.nextPlayer = 1
          BY <3>2, <4>1
        <4>4. ~missed' => last'.nextPlayer \in current'
          BY <3>2, <4>2, <4>3
        <4> QED BY <3>1, <3>5, <3>7, <4>3, <4>4 DEF Steady
      <3> QED BY <1>6, <3>6, <3>7
    <2> QED BY <1>4, <2>6, <2>7, <2>8, <2>9 DEF GInv
  <1>7. \/ sent < 2 /\ Ready(sent + 1, how)
        \/ sent = 2 /\ Publish(Setup, how, current) /\ ready' = ready
        \/ sent = 3 /\ Publish(Start, how, current) /\ ready' = ready
    BY DEF subscribe
  <1> QED BY <1>5, <1>6, <1>7

\* A verdict published for a request on an open position.
LEMMA VerdictKeeps ==
    ASSUME GInv, NEW p \in Players, NEW b \in Boards, NEW t \in Times, ~LineIn(b, Other(p)),
           NEW how \in Outcomes, NEW again \in BOOLEAN, Counted(how, again),
           NEW waiting, waiting \subseteq current, Publish(Verdict(p, b, t), how, waiting),
           sent >= 4, UNCHANGED <<sent, ready, listening>>,
           CopyInv', copy' = NoRequest \/ copy' \in [player : Players, state : Boards,
                                                   timers : Times, done : BOOLEAN]
    PROVE  GInv'
  <1> DEFINE v == Verdict(p, b, t)
  <1>1. /\ v.command \in {"play", "finish"} /\ v.nextPlayer = Other(p)
        /\ v.winner \in {0} \cup Players /\ v.tris \in Seq(0 .. 3)
        /\ v.state \in Boards /\ v.timers \in Times
        /\ \E q \in Players : v = Verdict(q, v.state, v.timers) /\ NoLineBefore(q, v.state)
    BY VerdictTyped
  <1>2. \/ how = "delivered" /\ last' = v /\ current' = listening
           /\ missed' = (missed \/ v.nextPlayer \in ready \ listening)
        \/ how # "delivered" /\ last' = last /\ current' = waiting /\ missed' = missed
    BY DEF Publish
  <1> HIDE DEF v
  <1>3. GameTypeOK /\ Position /\ Started /\ Steady /\ Other(p) \in Players
    BY Players12 DEF GInv
  <1>4. troubles' \in 0 .. MaxTroubles /\ faulty' \in BOOLEAN
        /\ (~faulty' => ~faulty /\ how = "delivered")
    BY <1>3, TroublesTyped
  <1>5. missed' \in BOOLEAN
    <2>1. missed \in BOOLEAN
      BY <1>3 DEF GameTypeOK
    <2> QED BY <1>2, <2>1
  <1>6. CASE how = "delivered"
    <2>1. last' = v /\ current' = listening
          /\ missed' = (missed \/ v.nextPlayer \in ready \ listening)
      BY <1>2, <1>6
    <2>2. listening \subseteq ready /\ ready \subseteq Players /\ sent \in 0 .. 5
      BY <1>3 DEF GameTypeOK
    <2>3. GameTypeOK'
      BY <1>1, <1>3, <1>4, <1>5, <2>1, <2>2 DEF GameTypeOK
    <2>4. Position'
      BY <1>1, <2>1 DEF Position
    <2>5. Started'
      BY DEF Started
    <2>6. Steady'
      <3> SUFFICES ASSUME ~faulty' PROVE Steady'
        BY DEF Steady
      <3>1. sent = 4 /\ ready = {q \in Players : q <= sent}
        BY <1>3, <1>4, <2>2 DEF Steady
      <3>2. ready = Players
        BY <3>1, Players12
      <3>3. ~missed' => v.nextPlayer \in listening
        BY <1>1, <1>3, <2>1, <3>2
      <3>4. last'.command \in {"start", "play", "finish"}
        BY <1>1, <2>1
      <3>5. ~missed' => last'.nextPlayer \in current'
        BY <2>1, <3>3
      <3>6. sent' = 4 /\ ready' = {q \in Players : q <= sent'}
        BY <3>1
      <3> QED BY <3>4, <3>5, <3>6 DEF Steady
    <2> QED BY <2>3, <2>4, <2>5, <2>6 DEF GInv
  <1>7. CASE how # "delivered"
    <2>1. last' = last /\ current' \subseteq current /\ faulty'
      BY <1>2, <1>4, <1>7
    <2>2. GameTypeOK'
      BY <1>3, <1>4, <1>5, <2>1 DEF GameTypeOK
    <2>3. Position'
      BY <1>3, <2>1 DEF Position
    <2>4. Started' /\ Steady'
      BY <2>1 DEF Started, Steady
    <2> QED BY <2>2, <2>3, <2>4 DEF GInv
  <1> QED BY <1>6, <1>7

LEMMA MoveTyped ==
    ASSUME GInv, NEW p \in Players, NEW c \in Cells, NEW time \in TimesOf(p), HasTurn(p)
    PROVE  /\ last.state \in Boards /\ last.nextPlayer = p /\ last.command \in {"start", "play"}
           /\ p \in current /\ sent >= 4
           /\ [last.state EXCEPT ![c] = p] \in Boards
           /\ ~LineIn([last.state EXCEPT ![c] = p], Other(p))
           /\ [last.timers EXCEPT ![p] = @ + time] \in Times
  <1>1. last.nextPlayer = p /\ last.command \in {"start", "play"} /\ p \in current
    BY DEF HasTurn
  <1>2. last.state \in Boards /\ last.timers \in Times /\ Position /\ sent >= 4
    BY <1>1 DEF GInv, GameTypeOK, Started
  <1>3. ~LineIn(last.state, Other(p))
    BY <1>1, OpenPosition DEF GInv
  <1>4. [last.timers EXCEPT ![p] = @ + time] \in Times
    <2>1. time \in 0 .. MaxTime /\ last.timers[1] + last.timers[2] + time <= MaxTime
      BY DEF TimesOf
    <2>2. last.timers[1] \in 0 .. MaxTime /\ last.timers[2] \in 0 .. MaxTime
      BY <1>2, Players12 DEF Times
    <2>3. last.timers[p] + time \in 0 .. MaxTime
      <3>1. CASE p = 1
        BY <2>1, <2>2, <3>1
      <3>2. CASE p = 2
        BY <2>1, <2>2, <3>2
      <3> QED BY <3>1, <3>2, Players12
    <2> QED BY <1>2, <2>3 DEF Times
  <1> QED BY <1>1, <1>2, <1>3, <1>4, BoardAfter

LEMMA PostKeeps ==
    ASSUME GInv, NEW p \in Players, NEW c \in Cells, NEW time \in TimesOf(p),
           NEW how \in Outcomes, NEW again \in BOOLEAN, Post(p, c, time, how, again)
    PROVE  GInv'
  <1> DEFINE board == [last.state EXCEPT ![c] = p]
             timers == [last.timers EXCEPT ![p] = @ + time]
             request == [player |-> p, state |-> board, timers |-> timers,
                         done |-> how = "delivered"]
  <1>1. /\ HasTurn(p) /\ last.state[c] = 0
        /\ Counted(how, again) /\ (again => how # "failed")
        /\ Publish(Verdict(p, board, timers), how, current \ {p})
        /\ copy' = IF again THEN request ELSE copy
        /\ UNCHANGED <<sent, ready, listening>>
    BY DEF Post
  <1>2. /\ last.nextPlayer = p /\ last.command \in {"start", "play"} /\ p \in current /\ sent >= 4
        /\ board \in Boards /\ timers \in Times /\ ~LineIn(board, Other(p))
    BY <1>1, MoveTyped
  <1>3. board = [last.state EXCEPT ![c] = p]
    OBVIOUS
  <1>4. /\ request \in [player : Players, state : Boards, timers : Times, done : BOOLEAN]
        /\ request.player = p /\ request.state = board /\ request.done = (how = "delivered")
    BY <1>2
  <1> HIDE DEF board, timers, request
  <1>5. copy # NoRequest => copy.done
    <2>1. CopyInv
      BY DEF GInv
    <2> QED BY <1>2, <2>1 DEF CopyInv
  <1>6. how # "delivered" => last' = last /\ current' = current \ {p}
    BY <1>1 DEF Publish
  <1>7. CopyInv'
    <2>1. CASE again
      <3>1. copy' = request
        BY <1>1, <2>1
      <3>2. NoLineBefore(p, board)
        BY <1>2 DEF NoLineBefore
      <3>3. NoLineBefore(copy'.player, copy'.state)
        BY <1>4, <3>1, <3>2
      <3>4. ASSUME ~copy'.done
            PROVE  /\ last'.command \in {"start", "play"} /\ last'.nextPlayer = copy'.player
                   /\ copy'.player \notin current'
                   /\ \E d \in Cells : last'.state[d] = 0
                                     /\ copy'.state = [last'.state EXCEPT ![d] = copy'.player]
        <4>1. how # "delivered"
          BY <1>4, <3>1, <3>4
        <4>2. last' = last /\ current' = current \ {p} /\ copy'.player = p /\ copy'.state = board
          BY <1>4, <1>6, <3>1, <4>1
        <4> QED BY <1>1, <1>2, <1>3, <4>2
      <3>5. NoLineBefore(copy.player, copy.state)'
        BY <3>3 DEF NoLineBefore
      <3> QED BY <3>4, <3>5 DEF CopyInv
    <2>2. CASE ~again
      <3>1. copy' = copy
        BY <1>1, <2>2
      <3>2. copy # NoRequest => NoLineBefore(copy.player, copy.state)
        BY DEF GInv, CopyInv
      <3> QED BY <1>5, <3>1, <3>2 DEF CopyInv, NoLineBefore
    <2> QED BY <2>1, <2>2
  <1>8. copy' = NoRequest \/ copy' \in [player : Players, state : Boards,
                                      timers : Times, done : BOOLEAN]
    BY <1>1, <1>4 DEF GInv, GameTypeOK
  <1> QED BY <1>1, <1>2, <1>7, <1>8, VerdictKeeps

LEMMA PostAgainKeeps ==
    ASSUME GInv, NEW how \in Outcomes, PostAgain(how)
    PROVE  GInv'
  <1>1. /\ copy # NoRequest /\ copy' = NoRequest
        /\ Publish(Verdict(copy.player, copy.state, copy.timers), how, current)
        /\ Counted(how, FALSE) /\ UNCHANGED <<sent, ready, listening>>
    BY DEF PostAgain
  <1>2. copy.player \in Players /\ copy.state \in Boards /\ copy.timers \in Times
    BY <1>1 DEF GInv, GameTypeOK
  <1>3. ~LineIn(copy.state, Other(copy.player)) /\ sent >= 4
    BY <1>1 DEF GInv, CopyInv, NoLineBefore, Started
  <1>4. CopyInv'
    BY <1>1 DEF CopyInv
  <1> QED BY <1>1, <1>2, <1>3, <1>4, VerdictKeeps

LEMMA GameSteps ==
    ASSUME GInv, [GameNext]_gameVars
    PROVE  GInv'
  <1>1. ASSUME NEW how \in Outcomes, subscribe(how) \/ PostAgain(how)
        PROVE  GInv'
    BY <1>1, SubscribeKeeps, PostAgainKeeps
  <1>2. ASSUME NEW p \in Players, Listen(p)
        PROVE  GInv'
    BY <1>2, ListenKeeps
  <1>3. ASSUME NEW p \in Players, NEW c \in Cells, NEW time \in TimesOf(p), NEW how \in Outcomes,
               NEW again \in BOOLEAN, Post(p, c, time, how, again)
        PROVE  GInv'
    BY <1>3, PostKeeps
  <1>4. CASE UNCHANGED gameVars
    BY <1>4, SessionStutters
  <1> QED BY <1>1, <1>2, <1>3, <1>4 DEF GameNext

THEOREM GameInvariance == GameSpec => []GInv
  <1>1. GameInit => GInv
    BY SessionBegins
  <1>2. GInv /\ [GameNext]_gameVars => GInv'
    BY GameSteps
  <1> QED BY <1>1, <1>2, PTL DEF GameSpec

\* For any bounds on the timers and on what goes wrong, every variable of the
\* session keeps its type: the messages are well-formed whatever is lost or
\* comes twice.
THEOREM GameTypes == GameSpec => []GameTypeOK
  <1>1. GInv => GameTypeOK
    BY DEF GInv
  <1> QED BY <1>1, GameInvariance, PTL

\* The verdict of the referee, which keeps no state, is right in every session:
\* for all boards that can be reached, any timers, whatever requests are lost,
\* tried again or answered twice.
THEOREM RefereeIsRight == GameSpec => []RightVerdict
  <1>1. GInv => RightVerdict
    BY VerdictIsRight DEF GInv
  <1> QED BY <1>1, GameInvariance, PTL

\* The only thing that stops a session before its end is a lost message or a
\* player who listened too late.
THEOREM SessionsEnd == GameSpec => []StuckExplained
  <1>1. ASSUME GInv, Over, ~faulty, ~missed
        PROVE  last.command = "finish"
    <2>1. /\ sent <= 4 /\ sent >= 4 /\ sent \in 0 .. 5 /\ \A p \in Players : ~HasTurn(p)
          /\ current \subseteq Players
      BY <1>1 DEF GInv, Steady, Over, GameTypeOK
    <2>2. sent = 4
      BY <2>1
    <2>3. SUFFICES ASSUME last.command # "finish" PROVE FALSE
      OBVIOUS
    <2>4. last.command \in {"start", "play"} /\ last.nextPlayer \in current
      BY <1>1, <2>2, <2>3 DEF GInv, Steady
    <2>5. HasTurn(last.nextPlayer)
      BY <2>4 DEF HasTurn
    <2> QED BY <2>1, <2>4, <2>5
  <1>2. GInv => StuckExplained
    BY <1>1 DEF StuckExplained
  <1> QED BY <1>2, GameInvariance, PTL

\* Trying again is safe: a message goes back on the game only if it repeats the
\* answer to a request that had been answered before.
THEOREM GameGoesForward == GameSpec => OnlyForward
  <1>1. ASSUME GInv, GameNext, last' # last
        PROVE  Forward
    <2>1. ASSUME NEW how \in Outcomes, subscribe(how)
          PROVE  Forward
      <3>1. last' = Setup \/ last' = Start
        BY <1>1, <2>1 DEF subscribe, Ready, Publish
      <3>2. last'.command \in {"setup", "start"}
        BY <3>1, FirstMessages
      <3> QED BY <3>2 DEF Forward
    <2>2. ASSUME NEW how \in Outcomes, PostAgain(how)
          PROVE  Forward
      <3>1. copy # NoRequest /\ Publish(Verdict(copy.player, copy.state, copy.timers), how, current)
        BY <2>2 DEF PostAgain
      <3>2. how = "delivered" /\ last' = Verdict(copy.player, copy.state, copy.timers)
        BY <1>1, <3>1 DEF Publish
      <3>3. CASE copy.done
        BY <2>2, <3>1, <3>2, <3>3 DEF Forward
      <3>4. CASE ~copy.done
        <4>1. copy.player \in Players /\ copy.state \in Boards /\ copy.timers \in Times
          BY <1>1, <3>1 DEF GInv, GameTypeOK
        <4>2. /\ ~LineIn(copy.state, Other(copy.player))
              /\ last.command \in {"start", "play"} /\ last.nextPlayer = copy.player
              /\ \E c \in Cells : last.state[c] = 0
                                  /\ copy.state = [last.state EXCEPT ![c] = copy.player]
          BY <1>1, <3>1, <3>4 DEF GInv, CopyInv, NoLineBefore
        <4>3. last'.state = copy.state /\ last'.nextPlayer = Other(copy.player)
          BY <3>2, <4>1, <4>2, VerdictCases
        <4>4. Other(copy.player) # copy.player
          BY <4>1 DEF Players, Other
        <4> QED BY <4>2, <4>3, <4>4 DEF Forward
      <3> QED BY <3>3, <3>4
    <2>3. ASSUME NEW p \in Players, Listen(p)
          PROVE  Forward
      BY <1>1, <2>3 DEF Listen
    <2>4. ASSUME NEW p \in Players, NEW c \in Cells, NEW time \in TimesOf(p), NEW how \in Outcomes,
                 NEW again \in BOOLEAN, Post(p, c, time, how, again)
          PROVE  Forward
      <3> DEFINE board == [last.state EXCEPT ![c] = p]
                 timers == [last.timers EXCEPT ![p] = @ + time]
      <3>1. HasTurn(p) /\ last.state[c] = 0 /\ Publish(Verdict(p, board, timers), how, current \ {p})
        BY <2>4 DEF Post
      <3>2. /\ last.nextPlayer = p /\ last.command \in {"start", "play"}
            /\ board \in Boards /\ timers \in Times /\ ~LineIn(board, Other(p))
        BY <1>1, <3>1, MoveTyped
      <3>3. board = [last.state EXCEPT ![c] = p]
        OBVIOUS
      <3> HIDE DEF board, timers
      <3>4. last' = Verdict(p, board, timers)
        BY <1>1, <3>1 DEF Publish
      <3>5. last'.state = board /\ last'.nextPlayer = Other(p)
        BY <3>2, <3>4, VerdictCases
      <3>6. Other(p) # p
        BY DEF Players, Other
      <3> QED BY <3>1, <3>2, <3>3, <3>5, <3>6 DEF Forward
    <2>5. CASE UNCHANGED gameVars
      BY <1>1, <2>5 DEF gameVars
    <2> QED BY <1>1, <2>1, <2>2, <2>3, <2>4, <2>5 DEF GameNext
  <1>2. GInv /\ [GameNext]_gameVars => [last' # last => Forward]_gameVars
    BY <1>1
  <1> QED BY <1>2, GameInvariance, PTL DEF OnlyForward, GameSpec

-----------------------------------------------------------------------------
(***************************************************************************)
(* The matchmaker: types, and how far the races take the size of the list. *)
(***************************************************************************)
\* Requests that have not written the size yet; every other request has changed
\* it by one, starting from a size that was there before.
Early == {"check", "add", "install", "array", "index", "bump",
          "remove", "take", "shift", "size", "drop"}
Unwritten == {t \in Threads : pc[t] \in Early}
Reach == requests - Cardinality(Unwritten)

Within ==
    /\ IsFiniteSet(Unwritten)
    /\ size \in -Reach .. Reach
    /\ \A t \in Threads : pc[t] \in {"bump", "drop"} => index[t] \in -Reach .. Reach

\* Nobody is past the first lines of add while there is no array.
Allocated ==
    elems = None => /\ size = 0
                    /\ \A t \in Threads : pc[t] \in {"idle", "check", "add", "install"}

MInv == TypeOK /\ Within /\ Allocated

\* Who is in match is there for a client.
Served == \A t \in Threads : pc[t] # "idle" => client[t] \in Clients

Labels == {"idle", "check", "add", "install", "array", "index", "bump",
           "store", "remove", "take", "shift", "size", "drop", "clear"}

USE CapacityAssumption, NoneAssumption

LEMMA ReachType ==
    ASSUME MInv
    PROVE  /\ Cardinality(Unwritten) \in Nat /\ IsFiniteSet(Unwritten)
           /\ Reach \in Int /\ Reach <= requests /\ requests \in 0 .. MaxRequests
           /\ pc \in [Threads -> Labels] /\ size \in Int
  <1>1. IsFiniteSet(Unwritten) /\ requests \in 0 .. MaxRequests
        /\ pc \in [Threads -> Labels] /\ size \in -Reach .. Reach
    BY DEF MInv, Within, TypeOK, Labels
  <1>2. Cardinality(Unwritten) \in Nat
    BY <1>1, FS_CardinalityType
  <1> QED BY <1>1, <1>2 DEF Reach

LEMMA UnwrittenStays ==
    ASSUME MInv, NEW t \in Threads, pc[t] \in Early, NEW label \in Early, Goto(t, label),
           requests' = requests
    PROVE  IsFiniteSet(Unwritten') /\ Reach' = Reach
  <1>1. Unwritten' = Unwritten
    BY ReachType DEF Unwritten, Goto
  <1> QED BY <1>1, ReachType DEF Reach

LEMMA UnwrittenGoes ==
    ASSUME MInv, NEW t \in Threads, pc[t] \in Early, NEW label, label \notin Early, Goto(t, label),
           requests' = requests
    PROVE  IsFiniteSet(Unwritten') /\ Reach' = Reach + 1 /\ Reach < requests
  <1>1. Unwritten' = Unwritten \ {t} /\ t \in Unwritten
    BY ReachType DEF Unwritten, Goto
  <1>2. IsFiniteSet(Unwritten \ {t}) /\ Cardinality(Unwritten \ {t}) = Cardinality(Unwritten) - 1
    BY <1>1, ReachType, FS_RemoveElement
  <1>3. Cardinality(Unwritten) - 1 \in Nat
    BY <1>2, FS_CardinalityType
  <1> QED BY <1>1, <1>2, <1>3, ReachType DEF Reach

LEMMA UnwrittenComes ==
    ASSUME MInv, NEW t \in Threads, pc[t] = "idle", Goto(t, "check"), requests' = requests + 1
    PROVE  IsFiniteSet(Unwritten') /\ Reach' = Reach
  <1>1. Unwritten' = Unwritten \cup {t} /\ t \notin Unwritten
    BY ReachType DEF Unwritten, Goto, Early
  <1>2. \A S, x : IsFiniteSet(S) => /\ IsFiniteSet(S \cup {x})
                                    /\ x \notin S => Cardinality(S \cup {x}) = Cardinality(S) + 1
    BY FS_AddElement
  <1>3. /\ IsFiniteSet(Unwritten \cup {t})
        /\ Cardinality(Unwritten \cup {t}) = Cardinality(Unwritten) + 1
    <2>1. PICK S, x : S = Unwritten /\ x = t
      OBVIOUS
    <2>2. IsFiniteSet(S) /\ x \notin S
      BY <1>1, <2>1, ReachType
    <2>3. IsFiniteSet(S \cup {x}) /\ Cardinality(S \cup {x}) = Cardinality(S) + 1
      BY <1>2, <2>2
    <2> QED BY <2>1, <2>3
  <1>4. IsFiniteSet(Unwritten') /\ Cardinality(Unwritten') = Cardinality(Unwritten) + 1
    BY <1>1, <1>3
  <1> QED BY <1>4, ReachType DEF Reach

LEMMA WithinKept ==
    ASSUME MInv, IsFiniteSet(Unwritten'), Reach' = Reach \/ Reach' = Reach + 1,
           size' \in -Reach' .. Reach',
           \A t \in Threads : pc'[t] \in {"bump", "drop"} =>
              (pc[t] \in {"bump", "drop"} /\ index'[t] = index[t]) \/ index'[t] \in -Reach' .. Reach'
    PROVE  Within'
  <1>1. ASSUME NEW t \in Threads, pc'[t] \in {"bump", "drop"}
        PROVE  index'[t] \in -Reach' .. Reach'
    <2>1. CASE pc[t] \in {"bump", "drop"} /\ index'[t] = index[t]
      <3>1. index[t] \in -Reach .. Reach
        BY <2>1 DEF MInv, Within
      <3> QED BY <2>1, <3>1, ReachType
    <2> QED BY <1>1, <2>1
  <1> QED BY <1>1 DEF Within

\* A step that only goes on does not matter to the counting.
LEMMA WithinGoesOn ==
    ASSUME MInv, NEW t \in Threads, pc[t] \in Early, NEW label \in Early \ {"bump", "drop"},
           Goto(t, label), UNCHANGED <<size, index, requests>>
    PROVE  Within'
  <1>1. IsFiniteSet(Unwritten') /\ Reach' = Reach
    BY UnwrittenStays
  <1>2. size' \in -Reach' .. Reach'
    BY <1>1 DEF MInv, Within
  <1>3. \A s \in Threads : pc'[s] \in {"bump", "drop"} => pc[s] \in {"bump", "drop"} /\ index'[s] = index[s]
    BY ReachType DEF Goto
  <1> QED BY <1>1, <1>2, <1>3, WithinKept

LEMMA matchTyped ==
    ASSUME MInv, NEW t \in Threads, NEW c \in Clients, match(t, c)
    PROVE  MInv'
  <1>1. IsFiniteSet(Unwritten') /\ Reach' = Reach
    BY UnwrittenComes DEF match, Idle
  <1>2. size' \in -Reach' .. Reach'
    BY <1>1 DEF MInv, Within, match, list
  <1>3. \A s \in Threads : pc'[s] \in {"bump", "drop"} => pc[s] \in {"bump", "drop"} /\ index'[s] = index[s]
    BY ReachType DEF match, Goto
  <1>4. Within'
    BY <1>1, <1>2, <1>3, WithinKept
  <1>5. TypeOK'
    BY ReachType DEF MInv, TypeOK, match, Goto, list
  <1>6. Allocated'
    BY ReachType DEF MInv, Allocated, match, Goto, list
  <1> QED BY <1>4, <1>5, <1>6 DEF MInv

LEMMA CheckTyped ==
    ASSUME MInv, NEW t \in Threads, Check(t)
    PROVE  MInv'
  <1>1. Within'
    <2>1. Goto(t, IF size = 0 THEN "add" ELSE "remove") /\ pc[t] = "check"
          /\ UNCHANGED <<size, index, requests>>
      BY DEF Check, list, history
    <2> QED BY <2>1, WithinGoesOn DEF Early
  <1>2. TypeOK'
    BY DEF MInv, TypeOK, Check, Goto, list, history
  <1>3. Allocated'
    BY ReachType DEF MInv, Allocated, Check, Goto, list
  <1> QED BY <1>1, <1>2, <1>3 DEF MInv

LEMMA GrowTyped ==
    ASSUME MInv, NEW t \in Threads, Grow(t)
    PROVE  MInv'
  <1>1. Within'
    <2>1. Goto(t, IF elems = None THEN "install" ELSE "array") /\ pc[t] = "add"
          /\ UNCHANGED <<size, index, requests>>
      BY DEF Grow, list, history
    <2> QED BY <2>1, WithinGoesOn DEF Early
  <1>2. TypeOK'
    BY DEF MInv, TypeOK, Grow, Goto, list, history
  <1>3. Allocated'
    BY ReachType DEF MInv, Allocated, Grow, Goto, list
  <1> QED BY <1>1, <1>2, <1>3 DEF MInv

LEMMA InstallTyped ==
    ASSUME MInv, NEW t \in Threads, Install(t)
    PROVE  MInv'
  <1>1. Within'
    <2>1. Goto(t, "array") /\ pc[t] = "install" /\ UNCHANGED <<size, index, requests>>
      BY DEF Install, history
    <2> QED BY <2>1, WithinGoesOn DEF Early
  <1>2. stale' \in [Threads -> BOOLEAN]
    BY DEF MInv, TypeOK, Install
  <1>3. Empty \in [Slots -> Clients \cup {None}] /\ Empty # None
    BY DEF Empty
  <1>4. TypeOK'
    BY <1>2, <1>3 DEF MInv, TypeOK, Install, Goto, history
  <1>5. Allocated'
    BY <1>3 DEF MInv, Allocated, Install
  <1> QED BY <1>1, <1>4, <1>5 DEF MInv

LEMMA ReadArrayTyped ==
    ASSUME MInv, NEW t \in Threads, ReadArray(t)
    PROVE  MInv'
  <1>1. Within'
    <2>1. Goto(t, "index") /\ pc[t] = "array" /\ UNCHANGED <<size, index, requests>>
      BY DEF ReadArray, list, history
    <2> QED BY <2>1, WithinGoesOn DEF Early
  <1>2. TypeOK'
    BY DEF MInv, TypeOK, ReadArray, Goto, list, history
  <1>3. Allocated'
    BY ReachType DEF MInv, Allocated, ReadArray, Goto, list
  <1> QED BY <1>1, <1>2, <1>3 DEF MInv

\* The size is read, by add and by remove(0).
LEMMA ReadSizesTyped ==
    ASSUME MInv, NEW t \in Threads, ReadSize(t) \/ ReadSizeAgain(t)
    PROVE  MInv'
  <1> PICK label \in {"bump", "drop"} : Goto(t, label)
    BY DEF ReadSize, ReadSizeAgain
  <1>1. /\ pc[t] \in {"index", "size"} /\ index' = [index EXCEPT ![t] = size]
        /\ UNCHANGED <<list, client, stale, got, history>>
    BY DEF ReadSize, ReadSizeAgain
  <1>2. UNCHANGED <<size, elems, client, stale, got, requests, pairs, raced>>
    BY <1>1 DEF list, history
  <1>3. index \in [Threads -> -requests .. requests] /\ size \in -requests .. requests
    BY DEF MInv, TypeOK
  <1>4. Within'
    <2>1. IsFiniteSet(Unwritten') /\ Reach' = Reach
      BY <1>1, <1>2, UnwrittenStays DEF Early
    <2>2. size \in -Reach' .. Reach' /\ size' \in -Reach' .. Reach'
      BY <1>2, <2>1 DEF MInv, Within
    <2>3. \A s \in Threads : pc'[s] \in {"bump", "drop"} =>
             (pc[s] \in {"bump", "drop"} /\ index'[s] = index[s]) \/ index'[s] \in -Reach' .. Reach'
      <3> TAKE s \in Threads
      <3>1. CASE s = t
        <4>1. index'[s] = size
          BY <1>1, <1>3, <3>1
        <4> QED BY <2>2, <4>1
      <3>2. CASE s # t
        BY <1>1, <1>3, <3>2, ReachType DEF Goto
      <3> QED BY <3>1, <3>2
    <2> QED BY <2>1, <2>2, <2>3, WithinKept
  <1>5. TypeOK'
    <2>1. index' \in [Threads -> -requests .. requests]
      BY <1>1, <1>3
    <2>2. pc' \in [Threads -> Labels] /\ \A s \in Threads : pc'[s] = "store" => s # t /\ pc[s] = "store"
      BY ReachType DEF Goto, Labels
    <2>3. \A s \in Threads : pc'[s] = "store" => index'[s] < Capacity
      BY <1>1, <1>3, <2>2 DEF MInv, TypeOK
    <2> QED BY <1>2, <2>1, <2>2, <2>3 DEF MInv, TypeOK, Labels
  <1>6. Allocated'
    BY <1>1, <1>2, ReachType DEF MInv, Allocated, Goto
  <1> QED BY <1>4, <1>5, <1>6 DEF MInv

\* The size is written, by add and by remove(0): one more or less than was read.
LEMMA WritesTyped ==
    ASSUME MInv, NEW t \in Threads, Bump(t) \/ Drop(t)
    PROVE  MInv'
  <1>1. PICK label \in {"store", "clear"} : Goto(t, label)
    BY DEF Bump, Drop
  <1>2. /\ pc[t] \in {"bump", "drop"} /\ size' \in {index[t] - 1, index[t] + 1}
        /\ UNCHANGED <<elems, client, stale, index, got, requests, pairs, raced>>
    BY DEF Bump, Drop, history
  <1>3. IsFiniteSet(Unwritten') /\ Reach' = Reach + 1 /\ Reach < requests
    BY <1>1, <1>2, UnwrittenGoes DEF Early
  <1>4. index[t] \in -Reach .. Reach
    BY <1>2 DEF MInv, Within
  <1>5. size' \in -Reach' .. Reach' /\ size' \in -requests .. requests /\ index[t] < Capacity
    BY <1>2, <1>3, <1>4, ReachType
  <1>6. Within'
    <2>1. \A s \in Threads : pc'[s] \in {"bump", "drop"} => pc[s] \in {"bump", "drop"} /\ index'[s] = index[s]
      BY <1>1, <1>2, ReachType DEF Goto
    <2> QED BY <1>3, <1>5, <2>1, WithinKept
  <1>7. TypeOK'
    <2>1. pc' \in [Threads -> Labels] /\ \A s \in Threads : pc'[s] = "store" => s = t \/ pc[s] = "store"
      BY <1>1, ReachType DEF Goto, Labels
    <2>2. \A s \in Threads : pc'[s] = "store" => index'[s] < Capacity
      BY <1>2, <1>5, <2>1 DEF MInv, TypeOK
    <2> QED BY <1>2, <1>5, <2>1, <2>2 DEF MInv, TypeOK, Labels
  <1>8. Allocated'
    BY <1>2 DEF MInv, Allocated
  <1> QED BY <1>6, <1>7, <1>8 DEF MInv

\* A request that ends.
LEMMA DoneTyped ==
    ASSUME MInv, NEW t \in Threads, Done(t), requests' = requests
    PROVE  /\ pc' = [pc EXCEPT ![t] = "idle"] /\ pc' \in [Threads -> Labels]
           /\ client' \in [Threads -> Clients \cup {None}] /\ stale' \in [Threads -> BOOLEAN]
           /\ index' \in [Threads -> -requests .. requests] /\ got' \in [Threads -> Clients \cup {None}]
           /\ \A s \in Threads : pc'[s] = "store" => index'[s] < Capacity
           /\ size' = size => Within'
  <1>1. pc' = [pc EXCEPT ![t] = "idle"] /\ pc' \in [Threads -> Labels]
    BY ReachType DEF Done, Goto, Labels
  <1>2. index' \in [Threads -> -requests .. requests]
    BY ReachType DEF MInv, TypeOK, Done
  <1>3. /\ client' \in [Threads -> Clients \cup {None}] /\ stale' \in [Threads -> BOOLEAN]
        /\ got' \in [Threads -> Clients \cup {None}]
    BY DEF MInv, TypeOK, Done
  <1>4. \A s \in Threads : pc'[s] # "idle" => s # t /\ pc'[s] = pc[s] /\ index'[s] = index[s]
    BY <1>1, ReachType DEF MInv, TypeOK, Done
  <1>5. \A s \in Threads : pc'[s] = "store" => index'[s] < Capacity
    BY <1>4 DEF MInv, TypeOK
  <1>6. ASSUME size' = size PROVE Within'
    <2>1. IsFiniteSet(Unwritten') /\ (Reach' = Reach \/ Reach' = Reach + 1)
      <3>1. CASE pc[t] \in Early
        BY <3>1, UnwrittenGoes DEF Done, Early
      <3>2. CASE pc[t] \notin Early
        <4>1. Unwritten' = Unwritten
          BY <1>1, <3>2, ReachType DEF Unwritten, Early
        <4> QED BY <4>1, ReachType DEF Reach
      <3> QED BY <3>1, <3>2
    <2>2. size' \in -Reach' .. Reach'
      <3>1. size \in -Reach .. Reach
        BY DEF MInv, Within
      <3> QED BY <1>6, <2>1, <3>1, ReachType
    <2>3. \A s \in Threads : pc'[s] \in {"bump", "drop"} => pc[s] \in {"bump", "drop"} /\ index'[s] = index[s]
      BY <1>4
    <2> QED BY <2>1, <2>2, <2>3, WithinKept
  <1> QED BY <1>1, <1>2, <1>3, <1>5, <1>6

LEMMA StoreTyped ==
    ASSUME MInv, NEW t \in Threads, Store(t)
    PROVE  MInv'
  <1>1. /\ pc[t] = "store" /\ Done(t) /\ UNCHANGED <<size, requests, pairs, raced>>
        /\ elems' = IF stale[t] \/ index[t] < 0 THEN elems
                     ELSE [elems EXCEPT ![index[t]] = client[t]]
    BY DEF Store, history
  <1>2. elems \in [Slots -> Clients \cup {None}] /\ client[t] \in Clients \cup {None}
    BY <1>1 DEF MInv, TypeOK, Allocated
  <1>3. elems' \in [Slots -> Clients \cup {None}]
    BY <1>1, <1>2
  <1>4. TypeOK'
    BY <1>1, <1>3, DoneTyped DEF MInv, TypeOK, Labels
  <1>5. Within'
    BY <1>1, DoneTyped
  <1>6. Allocated'
    BY <1>3 DEF Allocated
  <1> QED BY <1>4, <1>5, <1>6 DEF MInv

LEMMA RangeCheckTyped ==
    ASSUME MInv, NEW t \in Threads, RangeCheck(t)
    PROVE  MInv'
  <1>1. pc[t] = "remove" /\ UNCHANGED <<size, elems, requests, pairs, raced>>
    BY DEF RangeCheck, list, history
  <1>2. CASE Done(t)
    <2>1. TypeOK'
      BY <1>1, <1>2, DoneTyped DEF MInv, TypeOK, Labels
    <2>2. Within'
      BY <1>1, <1>2, DoneTyped
    <2>3. Allocated'
      BY <1>1, <1>2, ReachType DEF MInv, Allocated, Done, Goto
    <2> QED BY <2>1, <2>2, <2>3 DEF MInv
  <1>3. CASE Goto(t, "take") /\ UNCHANGED <<client, stale, index, got>>
    <2>1. Within'
      BY <1>1, <1>3, WithinGoesOn DEF Early
    <2>2. TypeOK'
      BY <1>1, <1>3 DEF MInv, TypeOK, Goto
    <2>3. Allocated'
      BY <1>1, <1>3 DEF MInv, Allocated
    <2> QED BY <2>1, <2>2, <2>3 DEF MInv
  <1> QED BY <1>2, <1>3 DEF RangeCheck

LEMMA TakeTyped ==
    ASSUME MInv, NEW t \in Threads, Take(t)
    PROVE  MInv'
  <1>1. /\ pc[t] = "take" /\ Goto(t, "shift") /\ got' = [got EXCEPT ![t] = elems[0]]
        /\ UNCHANGED <<size, elems, client, stale, index, requests, pairs, raced>>
    BY DEF Take, list, history
  <1>2. elems \in [Slots -> Clients \cup {None}]
    BY <1>1 DEF MInv, TypeOK, Allocated
  <1>3. 0 \in Slots
    <2>1. t \in Unwritten
      BY <1>1 DEF Unwritten, Early
    <2>2. Cardinality(Unwritten) # 0
      BY <2>1, ReachType, FS_EmptySet
    <2>3. size \in -Reach .. Reach
      BY DEF MInv, Within
    <2>4. requests > 0
      BY <2>2, <2>3, ReachType DEF Reach
    <2> QED BY <2>4, ReachType DEF Slots
  <1>4. Within'
    BY <1>1, WithinGoesOn DEF Early
  <1>5. TypeOK'
    <2>1. got' \in [Threads -> Clients \cup {None}]
      BY <1>1, <1>2, <1>3 DEF MInv, TypeOK
    <2> QED BY <1>1, <2>1 DEF MInv, TypeOK, Goto
  <1>6. Allocated'
    BY <1>1 DEF MInv, Allocated
  <1> QED BY <1>4, <1>5, <1>6 DEF MInv

LEMMA ShiftTyped ==
    ASSUME MInv, NEW t \in Threads, Shift(t)
    PROVE  MInv'
  <1>1. /\ pc[t] = "shift" /\ Goto(t, "size")
        /\ elems' = [i \in Slots |-> IF i < size - 1 THEN elems[i + 1] ELSE elems[i]]
        /\ UNCHANGED <<size, client, stale, index, got, requests, pairs, raced>>
    BY DEF Shift, history
  <1>2. elems \in [Slots -> Clients \cup {None}]
    BY <1>1 DEF MInv, TypeOK, Allocated
  <1>3. size <= Capacity
    BY ReachType DEF MInv, TypeOK
  <1>4. \A i \in Slots : i < size - 1 => i + 1 \in Slots
    BY <1>3, ReachType DEF Slots
  <1>5. elems' \in [Slots -> Clients \cup {None}]
    BY <1>1, <1>2, <1>4
  <1>6. Within'
    BY <1>1, WithinGoesOn DEF Early
  <1>7. TypeOK'
    BY <1>1, <1>5 DEF MInv, TypeOK, Goto
  <1>8. Allocated'
    BY <1>5 DEF Allocated
  <1> QED BY <1>6, <1>7, <1>8 DEF MInv

LEMMA ClearTyped ==
    ASSUME MInv, Served, NEW t \in Threads, Clear(t)
    PROVE  MInv'
  <1>1. /\ pc[t] = "clear" /\ Done(t) /\ UNCHANGED <<size, requests, raced>>
        /\ \/ elems' = [elems EXCEPT ![index[t] - 1] = None] /\ pairs' = pairs \cup {<<got[t], client[t]>>}
           \/ elems' = elems /\ pairs' = pairs
    BY DEF Clear
  <1>2. elems \in [Slots -> Clients \cup {None}]
    BY <1>1 DEF MInv, TypeOK, Allocated
  <1>3. elems' \in [Slots -> Clients \cup {None}]
    BY <1>1, <1>2
  <1>4. got[t] \in Clients \cup {None} /\ client[t] \in Clients
    BY <1>1 DEF MInv, TypeOK, Served
  <1>5. pairs' \subseteq (Clients \cup {None}) \X Clients
    BY <1>1, <1>4 DEF MInv, TypeOK
  <1>6. TypeOK'
    BY <1>1, <1>3, <1>5, DoneTyped DEF MInv, TypeOK, Labels
  <1>7. Within'
    BY <1>1, DoneTyped
  <1>8. Allocated'
    BY <1>3 DEF Allocated
  <1> QED BY <1>6, <1>7, <1>8 DEF MInv

LEMMA ServedKept ==
    ASSUME MInv, Served, NEW t \in Threads, (\E c \in Clients : match(t, c)) \/ Work(t)
    PROVE  Served'
  <1>1. pc \in [Threads -> Labels] /\ client \in [Threads -> Clients \cup {None}]
    BY ReachType DEF MInv, TypeOK
  <1>2. ASSUME NEW c \in Clients, match(t, c)
        PROVE  Served'
    BY <1>1, <1>2 DEF Served, match, Goto
  <1>3. CASE Done(t)
    BY <1>1, <1>3 DEF Served, Done, Goto
  <1>4. ASSUME NEW label, Goto(t, label), pc[t] # "idle", client' = client
        PROVE  Served'
    BY <1>1, <1>4 DEF Served, Goto
  <1>5. CASE Check(t) \/ Grow(t) \/ Install(t) \/ ReadArray(t)
    BY <1>4, <1>5 DEF Check, Grow, Install, ReadArray
  <1>6. CASE ReadSize(t) \/ Bump(t) \/ Take(t) \/ Shift(t) \/ ReadSizeAgain(t) \/ Drop(t)
    BY <1>4, <1>6 DEF ReadSize, Bump, Take, Shift, ReadSizeAgain, Drop
  <1>7. CASE Store(t) \/ RangeCheck(t) \/ Clear(t)
    BY <1>3, <1>4, <1>7 DEF Store, RangeCheck, Clear
  <1> QED BY <1>2, <1>5, <1>6, <1>7 DEF Work

LEMMA MatchSteps ==
    ASSUME MInv, Served, [Next]_vars
    PROVE  MInv' /\ Served'
  <1>1. ASSUME NEW t \in Threads, (\E c \in Clients : match(t, c)) \/ Work(t)
        PROVE  MInv' /\ Served'
    BY <1>1, ServedKept, matchTyped, CheckTyped, GrowTyped, InstallTyped, ReadArrayTyped,
       ReadSizesTyped, WritesTyped, StoreTyped, RangeCheckTyped, TakeTyped, ShiftTyped, ClearTyped
       DEF Work
  <1>2. CASE UNCHANGED vars
    <2>1. UNCHANGED <<size, elems, pc, client, stale, index, got, requests, pairs, raced>>
      BY <1>2 DEF vars, list, locals, history
    <2>2. TypeOK' /\ Allocated' /\ Served'
      BY <2>1 DEF MInv, TypeOK, Allocated, Served
    <2>3. Unwritten' = Unwritten
      BY <2>1 DEF Unwritten
    <2>4. Within'
      BY <2>1, <2>3 DEF MInv, Within, Reach
    <2> QED BY <2>2, <2>4 DEF MInv
  <1> QED BY <1>1, <1>2 DEF Next

LEMMA MatchBegins ==
    ASSUME Init
    PROVE  MInv /\ Served
  <1>1. Allocated /\ Served
    BY DEF Init, Allocated, Served
  <1>2. Unwritten = {}
    BY DEF Init, Unwritten, Early
  <1>3. IsFiniteSet(Unwritten) /\ Cardinality(Unwritten) = 0
    BY <1>2, FS_EmptySet
  <1>4. Within
    BY <1>3 DEF Init, Within, Reach
  <1>5. TypeOK
    <2>1. /\ size \in -requests .. requests /\ requests \in 0 .. MaxRequests /\ elems = None
          /\ pc \in [Threads -> {"idle"}] /\ index \in [Threads -> {0}] /\ {0} = -requests .. requests
      BY DEF Init
    <2>2. /\ pc \in [Threads -> Labels] /\ index \in [Threads -> -requests .. requests]
          /\ \A t \in Threads : pc[t] # "store"
      BY <2>1 DEF Labels
    <2>3. /\ client \in [Threads -> Clients \cup {None}] /\ got \in [Threads -> Clients \cup {None}]
          /\ stale \in [Threads -> BOOLEAN] /\ pairs \subseteq (Clients \cup {None}) \X Clients
          /\ raced \in BOOLEAN
      BY DEF Init
    <2> QED BY <2>1, <2>2, <2>3 DEF TypeOK, Labels
  <1> QED BY <1>1, <1>4, <1>5 DEF MInv

THEOREM MatchInvariance == Spec => [](MInv /\ Served)
  BY MatchBegins, MatchSteps, PTL DEF Spec

\* Whatever the threads do to the list, its size is no further from 0 than
\* there were requests, and no element is stored beyond its array.
THEOREM MatchTypes == Spec => []TypeOK
  <1>1. MInv => TypeOK
    BY DEF MInv
  <1> QED BY <1>1, MatchInvariance, PTL

\* A list whose size the races took below 0 stays as it is, for any number of
\* threads: no later request changes it or is paired.
THEOREM RacesAreForEver == Spec => DeadForever
  <1>1. ASSUME MInv, Next, Dead
        PROVE  Dead' /\ UNCHANGED <<list, pairs>>
    <2>1. PICK t \in Threads : (\E c \in Clients : match(t, c)) \/ Work(t)
      BY <1>1 DEF Next
    <2>2. pc[t] \in {"idle", "check", "remove"} /\ size < 0
          /\ \A s \in Threads : pc[s] \in {"idle", "check", "remove"}
      BY <1>1 DEF Dead
    <2>3. (\E c \in Clients : match(t, c)) \/ Check(t) \/ RangeCheck(t)
      BY <2>1, <2>2 DEF Work, Grow, Install, ReadArray, ReadSize, Bump, Store, Take, Shift,
                        ReadSizeAgain, Drop, Clear
    <2>4. pc \in [Threads -> Labels] /\ size \in Int
      BY <1>1, ReachType
    <2>5. CASE \E c \in Clients : match(t, c)
      BY <2>2, <2>4, <2>5 DEF match, Goto, Dead, list
    <2>6. CASE Check(t)
      BY <2>2, <2>4, <2>6 DEF Check, Goto, Dead, list, history
    <2>7. CASE RangeCheck(t)
      BY <2>2, <2>4, <2>7 DEF RangeCheck, Done, Goto, Dead, list, history
    <2> QED BY <2>3, <2>5, <2>6, <2>7
  <1>2. MInv /\ [Next]_vars => [Dead => Dead' /\ UNCHANGED <<list, pairs>>]_vars
    BY <1>1
  <1> QED BY <1>2, MatchInvariance, PTL DEF DeadForever, Spec

-----------------------------------------------------------------------------
(***************************************************************************)
(* The matchmaker implements Pairing: as long as no two requests have been *)
(* in match at the same time, the list is empty or holds the one client    *)
(* that waits, and a request that is in match finds it as it left it.      *)
(***************************************************************************)
Waits == elems # None /\ elems[0] \in Clients
Bare  == elems = None \/ elems[0] = None

\* The only request in match, from its place in the code.
Mid(t) ==
    /\ ~stale[t]
    /\ pc[t] # "idle" => requests > 0
    /\ pc[t] \in {"add", "install", "array", "index", "bump"} => size = 0
    /\ pc[t] \in {"remove", "take", "shift", "size", "drop"} => size = 1
    /\ pc[t] = "install" => elems = None
    /\ pc[t] \in {"array", "index", "bump", "store"} => elems # None
    /\ pc[t] \in {"bump", "store"} => index[t] = 0
    /\ pc[t] = "store" => size = 1 /\ Bare
    /\ pc[t] \in {"remove", "take", "shift", "size", "drop", "clear"} => Waits
    /\ pc[t] \in {"shift", "size", "drop", "clear"} => got[t] = elems[0]
    /\ pc[t] \in {"drop", "clear"} => index[t] = 1
    /\ pc[t] = "clear" => size = 0

Serial == ~raced =>
    /\ \A s, t \in Threads : pc[s] # "idle" /\ pc[t] # "idle" => s = t
    /\ \A t \in Threads : Mid(t)
    /\ size \in {0, 1}
    /\ size = 0 /\ (\A t \in Threads : pc[t] # "clear") => Bare
    /\ size = 1 /\ (\A t \in Threads : pc[t] # "store") => Waits

LEMMA SerialTo ==
    ASSUME NEW t \in Threads, \A s \in Threads : s # t => pc'[s] = "idle" /\ ~stale'[s],
           Mid(t)', size' \in {0, 1},
           size' = 0 /\ pc'[t] # "clear" => Bare', size' = 1 /\ pc'[t] # "store" => Waits'
    PROVE  Serial'
  <1>1. \A s \in Threads : s # t => Mid(s)'
    BY DEF Mid
  <1>2. \A s \in Threads : Mid(s)'
    BY <1>1
  <1>3. \A s, r \in Threads : pc'[s] # "idle" /\ pc'[r] # "idle" => s = r
    OBVIOUS
  <1> QED BY <1>2, <1>3 DEF Serial

\* What is known where the only request in match stands.
LEMMA SerialAt ==
    ASSUME MInv, Serial, ~raced, NEW t \in Threads, pc[t] # "idle"
    PROVE  /\ \A s \in Threads : s # t => pc[s] = "idle" /\ ~stale[s]
           /\ Mid(t) /\ size \in {0, 1}
           /\ size = 0 /\ pc[t] # "clear" => Bare
           /\ size = 1 /\ pc[t] # "store" => Waits
           /\ pc \in [Threads -> Labels] /\ index \in [Threads -> Int]
           /\ got \in [Threads -> Clients \cup {None}] /\ stale \in [Threads -> BOOLEAN]
           /\ elems # None => elems \in [Slots -> Clients \cup {None}]
           /\ 0 \in Slots
  <1>1. \A s \in Threads : s # t => pc[s] = "idle" /\ ~stale[s]
    BY DEF Serial, Mid
  <1>2. \A s \in Threads : /\ pc[t] # "clear" => pc[s] # "clear"
                          /\ pc[t] # "store" => pc[s] # "store"
    BY <1>1
  <1>3. /\ Mid(t) /\ size \in {0, 1}
        /\ size = 0 /\ pc[t] # "clear" => Bare
        /\ size = 1 /\ pc[t] # "store" => Waits
    BY <1>2 DEF Serial
  <1>4. /\ pc \in [Threads -> Labels] /\ index \in [Threads -> Int]
        /\ got \in [Threads -> Clients \cup {None}] /\ stale \in [Threads -> BOOLEAN]
        /\ elems # None => elems \in [Slots -> Clients \cup {None}]
    BY ReachType DEF MInv, TypeOK
  <1>5. 0 \in Slots
    <2>1. requests > 0
      BY <1>3 DEF Mid
    <2> QED BY <2>1, ReachType DEF Slots
  <1> QED BY <1>1, <1>3, <1>4, <1>5

LEMMA SerialMatch ==
    ASSUME MInv, Serial, ~raced', NEW t \in Threads, NEW c \in Clients, match(t, c)
    PROVE  Serial' /\ ~raced /\ \A s \in Threads : s # t => pc[s] = "idle" /\ pc'[s] = "idle"
  <1>1. /\ pc[t] = "idle" /\ Goto(t, "check") /\ requests' = requests + 1
        /\ ~raced /\ \A s \in Threads : pc[s] = "idle"
        /\ UNCHANGED <<size, elems, stale, index, got>>
    BY DEF match, Idle, list
  <1>2. pc' = [pc EXCEPT ![t] = "check"] /\ pc \in [Threads -> Labels] /\ requests \in Nat
    BY <1>1, ReachType DEF Goto
  <1>3. \A s \in Threads : s # t => pc'[s] = "idle" /\ ~stale'[s]
    BY <1>1, <1>2 DEF Serial, Mid
  <1>4. pc'[t] = "check"
    BY <1>2
  <1>5. size \in {0, 1} /\ (size = 0 => Bare) /\ (size = 1 => Waits) /\ ~stale[t]
    BY <1>1 DEF Serial, Mid
  <1>6. Mid(t)'
    BY <1>1, <1>2, <1>4, <1>5 DEF Mid
  <1>7. size' \in {0, 1} /\ (size' = 0 => Bare') /\ (size' = 1 => Waits')
    BY <1>1, <1>5 DEF Bare, Waits
  <1>8. Serial'
    BY <1>3, <1>6, <1>7, SerialTo
  <1> QED BY <1>1, <1>3, <1>8

\* While the list is as it was and the request goes on.
LEMMA SerialCheck ==
    ASSUME MInv, Serial, ~raced, NEW t \in Threads, Check(t)
    PROVE  Serial'
  <1>1. /\ pc[t] = "check" /\ Goto(t, IF size = 0 THEN "add" ELSE "remove")
        /\ UNCHANGED <<size, elems, client, stale, index, got, requests>>
    BY DEF Check, list, history
  <1>2. /\ \A s \in Threads : s # t => pc'[s] = "idle" /\ ~stale'[s]
        /\ pc'[t] = IF size = 0 THEN "add" ELSE "remove"
    BY <1>1, SerialAt DEF Goto
  <1>3. Mid(t)' /\ size' \in {0, 1} /\ (size' = 0 => Bare') /\ (size' = 1 => Waits')
    BY <1>1, <1>2, SerialAt DEF Mid, Bare, Waits
  <1> QED BY <1>2, <1>3, SerialTo

LEMMA SerialAdd ==
    ASSUME MInv, Serial, ~raced, NEW t \in Threads, Grow(t) \/ ReadArray(t) \/ ReadSize(t)
    PROVE  Serial'
  <1>1. /\ UNCHANGED <<size, elems, client, stale, got, requests>>
        /\ \/ pc[t] = "add" /\ Goto(t, IF elems = None THEN "install" ELSE "array") /\ index' = index
           \/ pc[t] = "array" /\ Goto(t, "index") /\ index' = index
           \/ pc[t] = "index" /\ Goto(t, "bump") /\ index' = [index EXCEPT ![t] = size]
    BY DEF Grow, ReadArray, ReadSize, list, history
  <1>2. Mid(t) /\ size = 0 /\ Bare /\ index \in [Threads -> Int] /\ pc \in [Threads -> Labels]
    BY <1>1, SerialAt DEF Mid
  <1>3. \A s \in Threads : s # t => pc'[s] = "idle" /\ ~stale'[s]
    BY <1>1, SerialAt DEF Goto
  <1>4. \/ pc[t] = "add" /\ pc'[t] = (IF elems = None THEN "install" ELSE "array")
        \/ pc[t] = "array" /\ pc'[t] = "index"
        \/ pc[t] = "index" /\ pc'[t] = "bump" /\ index'[t] = 0
    BY <1>1, <1>2 DEF Goto
  <1>5. Mid(t)'
    BY <1>1, <1>2, <1>4 DEF Mid
  <1>6. size' = 0 /\ Bare'
    BY <1>1, <1>2 DEF Bare
  <1> QED BY <1>3, <1>5, <1>6, SerialTo

LEMMA SerialInstall ==
    ASSUME MInv, Serial, ~raced, NEW t \in Threads, Install(t)
    PROVE  Serial'
  <1>1. /\ pc[t] = "install" /\ Goto(t, "array") /\ elems' = Empty
        /\ stale' = [s \in Threads |-> stale[s] \/ pc[s] \in {"index", "bump", "store"}]
        /\ UNCHANGED <<size, client, index, got, requests>>
    BY DEF Install, history
  <1>2. Mid(t) /\ size = 0 /\ pc \in [Threads -> Labels] /\ 0 \in Slots
    BY <1>1, SerialAt DEF Mid
  <1>3. \A s \in Threads : ~stale[s] /\ pc[s] \in {"idle", "install"}
    BY <1>1, <1>2, SerialAt DEF Mid
  <1>4. \A s \in Threads : ~stale'[s]
    BY <1>1, <1>3
  <1>5. (\A s \in Threads : s # t => pc'[s] = "idle") /\ pc'[t] = "array"
    BY <1>1, <1>2, SerialAt DEF Goto
  <1>6. Empty # None /\ Empty[0] = None
    BY <1>2 DEF Empty
  <1>7. Mid(t)'
    BY <1>1, <1>2, <1>4, <1>5, <1>6 DEF Mid
  <1>8. size' = 0 /\ Bare'
    BY <1>1, <1>2, <1>6 DEF Bare
  <1> QED BY <1>4, <1>5, <1>7, <1>8, SerialTo

LEMMA SerialBump ==
    ASSUME MInv, Serial, ~raced, NEW t \in Threads, Bump(t)
    PROVE  Serial'
  <1>1. /\ pc[t] = "bump" /\ Goto(t, "store") /\ size' = index[t] + 1
        /\ UNCHANGED <<elems, client, stale, index, got, requests>>
    BY DEF Bump, history
  <1>2. Mid(t) /\ index[t] = 0 /\ Bare /\ pc \in [Threads -> Labels]
    BY <1>1, SerialAt DEF Mid
  <1>3. (\A s \in Threads : s # t => pc'[s] = "idle" /\ ~stale'[s]) /\ pc'[t] = "store"
    BY <1>1, <1>2, SerialAt DEF Goto
  <1>4. size' = 1 /\ Bare'
    BY <1>1, <1>2 DEF Bare
  <1>5. Mid(t)'
    BY <1>1, <1>2, <1>3, <1>4 DEF Mid
  <1> QED BY <1>3, <1>4, <1>5, SerialTo

LEMMA SerialStore ==
    ASSUME MInv, Served, Serial, ~raced, NEW t \in Threads, Store(t)
    PROVE  /\ Serial' /\ size = 1 /\ size' = 1 /\ elems # None /\ elems[0] = None
           /\ elems' # None /\ elems'[0] = client[t] /\ client[t] \in Clients
  <1>1. /\ pc[t] = "store" /\ Done(t) /\ UNCHANGED <<size, requests>>
        /\ elems' = IF stale[t] \/ index[t] < 0 THEN elems
                     ELSE [elems EXCEPT ![index[t]] = client[t]]
    BY DEF Store, history
  <1>2. /\ ~stale[t] /\ elems # None /\ index[t] = 0 /\ size = 1 /\ Bare
        /\ pc \in [Threads -> Labels] /\ 0 \in Slots /\ stale \in [Threads -> BOOLEAN]
    BY <1>1, SerialAt DEF Mid
  <1>3. elems \in [Slots -> Clients \cup {None}] /\ client[t] \in Clients
    BY <1>1, <1>2, SerialAt DEF Served
  <1>4. elems' = [elems EXCEPT ![0] = client[t]]
    BY <1>1, <1>2
  <1>5. elems' \in [Slots -> Clients \cup {None}] /\ elems'[0] = client[t]
    BY <1>2, <1>3, <1>4
  <1>6. elems' # None
    BY <1>5
  <1>7. \A s \in Threads : pc'[s] = "idle" /\ ~stale'[s]
    <2>1. pc' = [pc EXCEPT ![t] = "idle"] /\ stale' = [stale EXCEPT ![t] = FALSE]
      BY <1>1 DEF Done, Goto
    <2>2. \A s \in Threads : pc'[s] = "idle"
      BY <1>1, <1>2, <2>1, SerialAt
    <2>3. \A s \in Threads : ~stale'[s]
      BY <1>1, <1>2, <2>1, SerialAt
    <2> QED BY <2>2, <2>3
  <1>8. size' = 1 /\ Waits' /\ Mid(t)'
    BY <1>1, <1>2, <1>3, <1>5, <1>6, <1>7 DEF Waits, Mid
  <1>9. Serial'
    BY <1>7, <1>8, SerialTo
  <1>10. elems[0] = None
    BY <1>2 DEF Bare
  <1> QED BY <1>2, <1>3, <1>5, <1>6, <1>8, <1>9, <1>10

LEMMA SerialRemove ==
    ASSUME MInv, Serial, ~raced, NEW t \in Threads,
           RangeCheck(t) \/ Take(t) \/ ReadSizeAgain(t) \/ Drop(t)
    PROVE  Serial'
  <1>1. /\ pc[t] \in {"remove", "take", "size", "drop"} /\ Mid(t) /\ size = 1 /\ Waits
        /\ pc \in [Threads -> Labels] /\ index \in [Threads -> Int]
        /\ got \in [Threads -> Clients \cup {None}]
    BY SerialAt DEF RangeCheck, Take, ReadSizeAgain, Drop, Mid
  <1>2. /\ UNCHANGED <<elems, client, stale, requests>>
        /\ \/ pc[t] = "remove" /\ Goto(t, "take") /\ UNCHANGED <<size, index, got>>
           \/ pc[t] = "take" /\ Goto(t, "shift") /\ got' = [got EXCEPT ![t] = elems[0]]
              /\ UNCHANGED <<size, index>>
           \/ pc[t] = "size" /\ Goto(t, "drop") /\ index' = [index EXCEPT ![t] = size]
              /\ UNCHANGED <<size, got>>
           \/ pc[t] = "drop" /\ Goto(t, "clear") /\ size' = index[t] - 1 /\ UNCHANGED <<index, got>>
    BY <1>1 DEF RangeCheck, Take, ReadSizeAgain, Drop, list, history
  <1>3. \A s \in Threads : s # t => pc'[s] = "idle" /\ ~stale'[s]
    BY <1>1, <1>2, SerialAt DEF Goto
  <1>4. \/ pc[t] = "remove" /\ pc'[t] = "take" /\ size' = 1
        \/ pc[t] = "take" /\ pc'[t] = "shift" /\ got'[t] = elems[0] /\ size' = 1
        \/ pc[t] = "size" /\ pc'[t] = "drop" /\ index'[t] = 1 /\ size' = 1 /\ got' = got
        \/ pc[t] = "drop" /\ pc'[t] = "clear" /\ index' = index /\ size' = 0 /\ got' = got
    BY <1>1, <1>2 DEF Goto, Mid
  <1>5. Waits'
    BY <1>1, <1>2 DEF Waits
  <1>6. Mid(t)'
    BY <1>1, <1>2, <1>4, <1>5 DEF Mid
  <1>7. size' \in {0, 1} /\ (size' = 0 => pc'[t] = "clear")
    BY <1>4
  <1> QED BY <1>3, <1>5, <1>6, <1>7, SerialTo

LEMMA SerialShift ==
    ASSUME MInv, Serial, ~raced, NEW t \in Threads, Shift(t)
    PROVE  Serial'
  <1>1. /\ pc[t] = "shift" /\ Goto(t, "size")
        /\ elems' = [i \in Slots |-> IF i < size - 1 THEN elems[i + 1] ELSE elems[i]]
        /\ UNCHANGED <<size, client, stale, index, got, requests>>
    BY DEF Shift, history
  <1>2. /\ Mid(t) /\ size = 1 /\ Waits /\ pc \in [Threads -> Labels] /\ 0 \in Slots
        /\ elems \in [Slots -> Clients \cup {None}]
    BY <1>1, SerialAt DEF Mid, Waits
  <1>3. elems' = elems
    <2>1. \A i \in Slots : ~(i < size - 1)
      BY <1>2 DEF Slots
    <2>2. elems' = [i \in Slots |-> elems[i]]
      BY <1>1, <2>1
    <2> QED BY <1>2, <2>2
  <1>4. (\A s \in Threads : s # t => pc'[s] = "idle" /\ ~stale'[s]) /\ pc'[t] = "size"
    BY <1>1, <1>2, SerialAt DEF Goto
  <1>5. Waits' /\ size' = 1
    BY <1>1, <1>2, <1>3 DEF Waits
  <1>6. Mid(t)'
    BY <1>1, <1>2, <1>3, <1>4, <1>5 DEF Mid
  <1> QED BY <1>4, <1>5, <1>6, SerialTo

LEMMA SerialClear ==
    ASSUME MInv, Served, Serial, ~raced, NEW t \in Threads, Clear(t)
    PROVE  /\ Serial' /\ size' = 0 /\ got[t] \in Clients /\ client[t] \in Clients
           /\ pairs' = pairs \cup {<<got[t], client[t]>>}
  <1>1. pc[t] = "clear" /\ Done(t) /\ UNCHANGED <<size, requests>>
    BY DEF Clear
  <1>2. /\ Mid(t) /\ size = 0 /\ Waits /\ got[t] = elems[0] /\ index[t] = 1
        /\ pc \in [Threads -> Labels] /\ 0 \in Slots /\ stale \in [Threads -> BOOLEAN]
    BY <1>1, SerialAt DEF Mid
  <1>3. elems \in [Slots -> Clients \cup {None}] /\ got[t] \in Clients /\ client[t] \in Clients
    BY <1>1, <1>2, SerialAt DEF Waits, Served
  <1>4. elems' = [elems EXCEPT ![0] = None] /\ pairs' = pairs \cup {<<got[t], client[t]>>}
    BY <1>2 DEF Clear
  <1>5. \A s \in Threads : pc'[s] = "idle" /\ ~stale'[s]
    <2>1. pc' = [pc EXCEPT ![t] = "idle"] /\ stale' = [stale EXCEPT ![t] = FALSE]
      BY <1>1 DEF Done, Goto
    <2>2. \A s \in Threads : pc'[s] = "idle"
      BY <1>1, <1>2, <2>1, SerialAt
    <2>3. \A s \in Threads : ~stale'[s]
      BY <1>1, <1>2, <2>1, SerialAt
    <2> QED BY <2>2, <2>3
  <1>6. elems'[0] = None
    BY <1>2, <1>3, <1>4
  <1>7. size' = 0 /\ Bare' /\ Mid(t)'
    BY <1>1, <1>2, <1>5, <1>6 DEF Bare, Mid
  <1>8. Serial'
    BY <1>5, <1>7, SerialTo
  <1> QED BY <1>3, <1>4, <1>7, <1>8

LEMMA SerialKept ==
    ASSUME MInv, Served, Serial, [Next]_vars
    PROVE  Serial'
  <1>1. raced => raced'
    <2>1. ASSUME NEW t \in Threads, (\E c \in Clients : match(t, c)) \/ Work(t)
          PROVE  raced => raced'
      <3>1. CASE \E c \in Clients : match(t, c)
        BY <3>1 DEF match
      <3>2. CASE Work(t)
        BY <3>2 DEF Work, Check, Grow, Install, ReadArray, ReadSize, Bump, Store, RangeCheck, Take,
                    Shift, ReadSizeAgain, Drop, Clear, history
      <3> QED BY <2>1, <3>1, <3>2
    <2> QED BY <2>1 DEF Next, vars, history
  <1>2. SUFFICES ASSUME ~raced' PROVE Serial'
    BY DEF Serial
  <1>3. ~raced
    BY <1>1, <1>2
  <1>4. ASSUME NEW t \in Threads, NEW c \in Clients, match(t, c)
        PROVE  Serial'
    BY <1>2, <1>4, SerialMatch
  <1>5. ASSUME NEW t \in Threads, Work(t)
        PROVE  Serial'
    BY <1>3, <1>5, SerialCheck, SerialAdd, SerialInstall, SerialBump, SerialStore, SerialRemove,
       SerialShift, SerialClear DEF Work
  <1>6. CASE UNCHANGED vars
    BY <1>6 DEF vars, list, locals, history, Serial, Mid, Bare, Waits
  <1> QED BY <1>4, <1>5, <1>6 DEF Next

LEMMA SerialBegins ==
    ASSUME Init
    PROVE  Serial
  BY DEF Init, Serial, Mid, Bare

\* Who waits, when t alone may be in match.
LEMMA TakerIs ==
    ASSUME NEW p, NEW L, NEW t \in Threads, \A s \in Threads : s # t => p[s] \notin L
    PROVE  /\ p[t] \in L => /\ {s \in Threads : p[s] \in L} # {}
                            /\ (CHOOSE u \in {s \in Threads : p[s] \in L} : TRUE) = t
           /\ p[t] \notin L => {s \in Threads : p[s] \in L} = {}
  <1>1. CASE p[t] \in L
    <2>1. {s \in Threads : p[s] \in L} = {t}
      BY <1>1
    <2> QED BY <1>1, <2>1
  <1> QED BY <1>1

TakingAt == {"shift", "size", "drop", "clear"}

LEMMA WaitingIs ==
    ASSUME NEW t \in Threads, \A s \in Threads : s # t => pc[s] = "idle"
    PROVE  Waiting = IF pc[t] \in TakingAt THEN got[t]
                     ELSE IF size > 0 /\ elems # None THEN elems[0] ELSE None
  <1>1. \A s \in Threads : s # t => pc[s] \notin TakingAt
    BY DEF TakingAt
  <1>2. Taking = {s \in Threads : pc[s] \in TakingAt}
    BY DEF Taking, TakingAt
  <1>3. /\ pc[t] \in TakingAt => Taking # {} /\ (CHOOSE u \in Taking : TRUE) = t
        /\ pc[t] \notin TakingAt => Taking = {}
    BY <1>1, <1>2, TakerIs
  <1> QED BY <1>3 DEF Waiting

LEMMA WaitingWillBe ==
    ASSUME NEW t \in Threads, \A s \in Threads : s # t => pc'[s] = "idle"
    PROVE  Waiting' = IF pc'[t] \in TakingAt THEN got'[t]
                      ELSE IF size' > 0 /\ elems' # None THEN elems'[0] ELSE None
  <1>1. \A s \in Threads : s # t => pc'[s] \notin TakingAt
    BY DEF TakingAt
  <1>2. Taking' = {s \in Threads : pc'[s] \in TakingAt}
    BY DEF Taking, TakingAt
  <1>3. /\ pc'[t] \in TakingAt => Taking' # {} /\ (CHOOSE u \in Taking' : TRUE) = t
        /\ pc'[t] \notin TakingAt => Taking' = {}
    BY <1>1, <1>2, TakerIs
  <1> QED BY <1>3 DEF Waiting

LEMMA ChangesNothing ==
    ASSUME MInv, Serial, ~raced, NEW t \in Threads,
           Check(t) \/ Grow(t) \/ Install(t) \/ ReadArray(t) \/ ReadSize(t) \/ Bump(t)
           \/ RangeCheck(t) \/ Take(t) \/ Shift(t) \/ ReadSizeAgain(t) \/ Drop(t)
    PROVE  UNCHANGED <<Waiting, pairs, raced>>
  <1>1. pc[t] # "idle" /\ UNCHANGED <<pairs, raced>>
    BY SerialAt DEF Check, Grow, Install, ReadArray, ReadSize, Bump, RangeCheck, Take, Shift,
                    ReadSizeAgain, Drop, history, Mid
  <1>2. /\ \A s \in Threads : s # t => pc[s] = "idle"
        /\ Mid(t) /\ size \in {0, 1} /\ pc \in [Threads -> Labels] /\ 0 \in Slots
        /\ got \in [Threads -> Clients \cup {None}]
        /\ elems # None => elems \in [Slots -> Clients \cup {None}]
        /\ size = 0 /\ pc[t] # "clear" => Bare
    BY <1>1, SerialAt
  <1>3. PICK label : Goto(t, label)
    BY <1>2 DEF Check, Grow, Install, ReadArray, ReadSize, Bump, RangeCheck, Take, Shift,
                ReadSizeAgain, Drop, Mid
  <1>4. \A s \in Threads : s # t => pc'[s] = "idle"
    BY <1>2, <1>3 DEF Goto
  <1>5. /\ Waiting = IF pc[t] \in TakingAt THEN got[t]
                     ELSE IF size > 0 /\ elems # None THEN elems[0] ELSE None
        /\ Waiting' = IF pc'[t] \in TakingAt THEN got'[t]
                      ELSE IF size' > 0 /\ elems' # None THEN elems'[0] ELSE None
    BY <1>2, <1>4, WaitingIs, WaitingWillBe
  <1>6. CASE Check(t) \/ Grow(t) \/ ReadArray(t) \/ ReadSize(t)
    <2>1. size' = size /\ elems' = elems /\ pc[t] \notin TakingAt /\ pc'[t] \notin TakingAt
      BY <1>2, <1>6 DEF Check, Grow, ReadArray, ReadSize, Goto, list, TakingAt
    <2> QED BY <1>1, <1>5, <2>1
  <1>7. CASE Install(t)
    <2>1. size = 0 /\ size' = 0 /\ pc[t] \notin TakingAt /\ pc'[t] \notin TakingAt
      BY <1>2, <1>7 DEF Install, Goto, Mid, TakingAt
    <2> QED BY <1>1, <1>5, <2>1
  <1>8. CASE Bump(t)
    <2>1. /\ size = 0 /\ elems' = elems /\ elems # None /\ elems[0] = None
          /\ pc[t] \notin TakingAt /\ pc'[t] \notin TakingAt
      BY <1>2, <1>8 DEF Bump, Goto, Mid, TakingAt, Bare
    <2> QED BY <1>1, <1>5, <2>1
  <1>9. CASE RangeCheck(t)
    <2>1. pc[t] = "remove" /\ size = 1 /\ Goto(t, "take") /\ size' = size /\ elems' = elems
      BY <1>2, <1>9 DEF RangeCheck, Mid, list
    <2>2. pc[t] \notin TakingAt /\ pc'[t] \notin TakingAt
      BY <1>2, <2>1 DEF Goto, TakingAt
    <2> QED BY <1>1, <1>5, <2>1, <2>2
  <1>10. CASE Take(t)
    <2>1. /\ size = 1 /\ elems # None /\ got'[t] = elems[0]
          /\ pc[t] \notin TakingAt /\ pc'[t] \in TakingAt
      BY <1>2, <1>10 DEF Take, Goto, Mid, Waits, TakingAt
    <2> QED BY <1>1, <1>5, <2>1
  <1>11. CASE Shift(t) \/ ReadSizeAgain(t) \/ Drop(t)
    <2>1. got' = got /\ pc[t] \in TakingAt /\ pc'[t] \in TakingAt
      BY <1>2, <1>11 DEF Shift, ReadSizeAgain, Drop, Goto, TakingAt
    <2> QED BY <1>1, <1>5, <2>1
  <1> QED BY <1>6, <1>7, <1>8, <1>9, <1>10, <1>11

LEMMA StepsArePromised ==
    ASSUME MInv, Served, Serial, [Next]_vars
    PROVE  [Promise!Next]_<<Waiting, pairs, raced>>
  <1>1. CASE raced'
    BY <1>1 DEF Promise!Next, Promise!GiveUp
  <1>2. ASSUME ~raced', NEW t \in Threads, NEW c \in Clients, match(t, c)
        PROVE  UNCHANGED <<Waiting, pairs, raced>>
    <2>1. /\ ~raced /\ \A s \in Threads : s # t => pc[s] = "idle" /\ pc'[s] = "idle"
      BY <1>2, SerialMatch
    <2>2. pc[t] = "idle" /\ pc'[t] = "check" /\ UNCHANGED <<size, elems, got, pairs>>
      BY <1>2, ReachType DEF match, Idle, Goto, list
    <2>3. pc[t] \notin TakingAt /\ pc'[t] \notin TakingAt
      BY <2>2 DEF TakingAt
    <2>4. Waiting' = Waiting
      BY <2>1, <2>2, <2>3, WaitingIs, WaitingWillBe
    <2>5. raced = FALSE
      BY <2>1 DEF MInv, TypeOK
    <2>6. raced' = FALSE
      <3>1. raced' = (raced \/ \E s \in Threads : ~Idle(s))
        BY <1>2 DEF match
      <3>2. raced' \in BOOLEAN
        BY <3>1
      <3> QED BY <1>2, <3>2
    <2> QED BY <2>2, <2>4, <2>5, <2>6
  <1>3. ASSUME ~raced, NEW t \in Threads, Store(t)
        PROVE  \E c \in Clients : Promise!Wait(c)
    <2>1. /\ size = 1 /\ size' = 1 /\ elems # None /\ elems[0] = None
          /\ elems' # None /\ elems'[0] = client[t] /\ client[t] \in Clients
      BY <1>3, SerialStore
    <2>2. pc[t] = "store" /\ Done(t) /\ UNCHANGED <<pairs, raced>>
      BY <1>3 DEF Store, history
    <2>3. /\ \A s \in Threads : s # t => pc[s] = "idle"
          /\ pc \in [Threads -> Labels]
      BY <1>3, <2>2, SerialAt
    <2>4. (\A s \in Threads : s # t => pc'[s] = "idle") /\ pc'[t] = "idle"
      BY <2>2, <2>3 DEF Done, Goto
    <2>5. pc[t] \notin TakingAt /\ pc'[t] \notin TakingAt
      BY <2>2, <2>4 DEF TakingAt
    <2>6. Waiting = None /\ Waiting' = client[t]
      BY <2>1, <2>3, <2>4, <2>5, WaitingIs, WaitingWillBe
    <2> QED BY <1>3, <2>1, <2>2, <2>6 DEF Promise!Wait
  <1>4. ASSUME ~raced, NEW t \in Threads, Clear(t)
        PROVE  \E c \in Clients : Promise!Pair(c)
    <2>1. /\ size' = 0 /\ got[t] \in Clients /\ client[t] \in Clients
          /\ pairs' = pairs \cup {<<got[t], client[t]>>}
      BY <1>4, SerialClear
    <2>2. pc[t] = "clear" /\ Done(t) /\ raced' = raced
      BY <1>4 DEF Clear
    <2>3. /\ \A s \in Threads : s # t => pc[s] = "idle"
          /\ pc \in [Threads -> Labels]
      BY <1>4, <2>2, SerialAt
    <2>4. (\A s \in Threads : s # t => pc'[s] = "idle") /\ pc'[t] = "idle"
      BY <2>2, <2>3 DEF Done, Goto
    <2>5. pc[t] \in TakingAt /\ pc'[t] \notin TakingAt
      BY <2>2, <2>4 DEF TakingAt
    <2>6. Waiting = got[t] /\ Waiting' = None
      BY <2>1, <2>3, <2>4, <2>5, WaitingIs, WaitingWillBe
    <2> QED BY <1>4, <2>1, <2>2, <2>6 DEF Promise!Pair
  <1>5. CASE UNCHANGED vars
    BY <1>5 DEF vars, list, locals, history, Waiting, Taking
  <1>6. ASSUME ~raced', NEW t \in Threads, Work(t)
        PROVE  ~raced
    BY <1>6 DEF Work, Check, Grow, Install, ReadArray, ReadSize, Bump, Store, RangeCheck, Take,
                Shift, ReadSizeAgain, Drop, Clear, history
  <1>7. ASSUME ~raced', NEW t \in Threads, Work(t)
        PROVE  [Promise!Next]_<<Waiting, pairs, raced>>
    BY <1>3, <1>4, <1>6, <1>7, ChangesNothing DEF Work, Promise!Next
  <1> QED BY <1>1, <1>2, <1>5, <1>7 DEF Next

\* As long as requests do not overlap, the matchmaker keeps the promise of
\* Pairing: clients are paired two by two in the order they come.
THEOREM PairsInOrder == Spec => SerialPairing
  <1>1. Init => Serial /\ Promise!Init
    <2>1. Init => Promise!Init
      BY DEF Init, Promise!Init, Waiting, Taking
    <2> QED BY <2>1, SerialBegins
  <1>2. MInv /\ Served /\ Serial /\ [Next]_vars => Serial' /\ [Promise!Next]_<<Waiting, pairs, raced>>
    BY SerialKept, StepsArePromised
  <1> QED BY <1>1, <1>2, MatchInvariance, PTL DEF Spec, SerialPairing, Promise!Spec
=============================================================================
