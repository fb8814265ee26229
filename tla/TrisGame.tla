----------------------------- MODULE TrisGame -----------------------------
(***************************************************************************)
(* A session of the game of tris, from the answer MATCHED on: the messages *)
(* that rest.Resources.subscribe publishes and the referee action(), which *)
(* keeps no state: board and timers travel with the requests and messages. *)
(* A publish ends as BrokerClient has it: the message is delivered, it is  *)
(* lost and nobody told, or an exception ends the request.  A request may  *)
(* reach the server twice, or again after it failed.                       *)
(*                                                                         *)
(* The clients are not in this repository; they are modelled by what the   *)
(* messages ask of them: who is "ready" listens to the topic it is told,   *)
(* who has the turn marks a free cell and posts the result.                *)
(***************************************************************************)
EXTENDS Integers, FiniteSets, SequencesExt

CONSTANTS
    MaxTime,     \* bound on both timers together
    MaxTroubles, \* bound on the messages not delivered and the requests delivered again
    NoRequest    \* no copy of a request is to come

ASSUME BoundsAssumption == MaxTime \in Nat /\ MaxTroubles \in Nat

VARIABLES
    sent,       \* how many messages subscribe has published; 5: it has thrown
    ready,      \* players told the topic of the session
    listening,  \* players that listen to it
    last,       \* the last message on the topic
    current,    \* players that have it and have not answered
    copy,       \* a request for action still to come, again or for the first time
    troubles,   \* what has gone wrong so far
    \* history
    faulty,     \* a message was not delivered
    missed      \* a player that was told the topic did not listen to it at its turn

gameVars == <<sent, ready, listening, last, current, copy, troubles, faulty, missed>>

Players == {1, 2}
Three   == 1 .. 3
Cells   == Three \X Three

Nothing == [command |-> "none", nextPlayer |-> 0, winner |-> 0, tris |-> <<>>,
            state |-> [c \in Cells |-> 0], timers |-> [p \in Players |-> 0]]

Setup == [Nothing EXCEPT !.command = "setup"]
Start == [Nothing EXCEPT !.command = "start", !.nextPlayer = 1]

-----------------------------------------------------------------------------
(***************************************************************************)
(* The referee: winner(), full() and the message of action().              *)
(***************************************************************************)
Rows == [k \in Three |-> {k} \X Three]
Cols == [k \in Three |-> Three \X {k}]
Diagonals == <<{<<k, k>> : k \in Three}, {<<k, 4 - k>> : k \in Three}>>

Owns(b, w, line) == \A c \in line : b[c] = w

\* The first index whose line w owns, 0 if there is none.
First(b, w, lines) ==
    LET S == {k \in DOMAIN lines : Owns(b, w, lines[k])}
    IN IF S = {} THEN 0 ELSE CHOOSE k \in S : \A j \in S : k <= j

\* Rows, then columns, then diagonals: the first found is noted at its place.
tris(b, w) ==
    LET r == First(b, w, Rows)
        c == First(b, w, Cols)
    IN IF r # 0 THEN <<r, 0, 0>>
       ELSE IF c # 0 THEN <<0, c, 0>>
       ELSE <<0, 0, First(b, w, Diagonals)>>

winner(b, w) == tris(b, w) # <<0, 0, 0>>

full(b) == \A c \in Cells : b[c] # 0

\* Mutant: the tris is looked for only while the board is not full.
WinnerUnlessFull(b) ==
    IF full(b) THEN 0 ELSE IF winner(b, 1) THEN 1 ELSE IF winner(b, 2) THEN 2 ELSE 0

\* Who has a tris, player 1 asked first.
Winner(b) == IF winner(b, 1) THEN 1 ELSE IF winner(b, 2) THEN 2 ELSE 0

\* On a full board without a tris the faster player wins; -1 if none is.
Faster(t) == IF t[1] < t[2] THEN 1 ELSE IF t[1] > t[2] THEN 2 ELSE -1

\* Mutant: the tie is sent, too.
AnnounceTie(w) == w

\* Winner and tris are part of the message only if somebody won.
Announce(w) == IF w > 0 THEN w ELSE 0

Other(p) == IF p = 1 THEN 2 ELSE 1

\* The message action() publishes.  tris.add(2, 3) INSERTS, so that the list of
\* a game won by time has four elements.
Verdict(p, b, t) ==
    LET w == Winner(b)
        f == IF w = 0 /\ full(b) THEN Faster(t) ELSE w
    IN [state      |-> b,
        timers     |-> t,
        command    |-> IF w > 0 \/ full(b) THEN "finish" ELSE "play",
        nextPlayer |-> Other(p),
        winner     |-> Announce(f),
        tris       |-> IF Announce(f) = 0 THEN <<>>
                       ELSE IF w = 0 THEN InsertAt(<<0, 0, 0>>, 3, 3) ELSE tris(b, w)]

-----------------------------------------------------------------------------
GameInit ==
    /\ sent = 0 /\ ready = {} /\ listening = {}
    /\ last = Nothing /\ current = {} /\ copy = NoRequest
    /\ troubles = 0 /\ faulty = FALSE /\ missed = FALSE

Outcomes == {"delivered", "failed", "exception"}

Counted(how, again) ==
    /\ IF how = "delivered" /\ ~again THEN UNCHANGED troubles
       ELSE troubles < MaxTroubles /\ troubles' = troubles + 1
    /\ faulty' = (faulty \/ how # "delivered")

\* Mutant: publish throws after the message is out.
PublishThrowsLate(message, how, waiting) ==
    /\ IF how # "failed"
       THEN /\ last' = message /\ current' = listening
            /\ missed' = (missed \/ message.nextPlayer \in ready \ listening)
       ELSE current' = waiting /\ UNCHANGED <<last, missed>>

\* publish to the topic of the session: who listens gets it.
Publish(message, how, waiting) ==
    /\ IF how = "delivered"
       THEN /\ last' = message /\ current' = listening
            /\ missed' = (missed \/ message.nextPlayer \in ready \ listening)
       ELSE current' = waiting /\ UNCHANGED <<last, missed>>

\* Mutant: both ids go to the first player's topic.
Ready1(n, how) ==
    /\ ready' = IF how = "delivered" THEN ready \cup {1} ELSE ready
    /\ UNCHANGED <<last, current, missed>>

\* "ready" to the nth player's own topic.
Ready(n, how) ==
    /\ ready' = IF how = "delivered" THEN ready \cup {n} ELSE ready
    /\ UNCHANGED <<last, current, missed>>

\* subscribe: "ready" twice, a second's sleep, "setup" and "start".  No answer
\* of the players is waited for.
subscribe(how) ==
    /\ sent < 4
    /\ sent' = IF how = "exception" THEN 5 ELSE sent + 1
    /\ \/ sent < 2 /\ Ready(sent + 1, how)
       \/ sent = 2 /\ Publish(Setup, how, current) /\ UNCHANGED ready
       \/ sent = 3 /\ Publish(Start, how, current) /\ UNCHANGED ready
    /\ Counted(how, FALSE)
    /\ UNCHANGED <<listening, copy>>

Listen(p) ==
    /\ p \in ready \ listening
    /\ listening' = listening \cup {p}
    /\ UNCHANGED <<sent, ready, last, current, copy, troubles, faulty, missed>>

HasTurn(p) == p \in current /\ last.command \in {"start", "play"} /\ last.nextPlayer = p

\* Timers matter by comparison only: the first move of a player takes its time.
TimesOf(p) ==
    {time \in 0 .. MaxTime : last.timers[1] + last.timers[2] + time <= MaxTime
                             /\ ((\E c \in Cells : last.state[c] = p) => time = 0)}

\* The player marks a cell, taking some time, and posts that.  The request may
\* be delivered a second time later; or the player will try again, as far as
\* it is told that the request failed.
Post(p, c, time, how, again) ==
    /\ HasTurn(p) /\ last.state[c] = 0
    /\ Counted(how, again) /\ (again => how # "failed")
    /\ LET board  == [last.state EXCEPT ![c] = p]
           timers == [last.timers EXCEPT ![p] = @ + time]
       IN /\ Publish(Verdict(p, board, timers), how, current \ {p})
          /\ copy' = IF again THEN [player |-> p, state |-> board, timers |-> timers,
                                    done |-> how = "delivered"]
                     ELSE copy
    /\ UNCHANGED <<sent, ready, listening>>

\* action() again, with the board as it was.
PostAgain(how) ==
    /\ copy # NoRequest /\ copy' = NoRequest
    /\ Publish(Verdict(copy.player, copy.state, copy.timers), how, current)
    /\ Counted(how, FALSE)
    /\ UNCHANGED <<sent, ready, listening>>

\* Nobody will do anything any more.
Over ==
    /\ sent >= 4 /\ ready = listening /\ copy = NoRequest
    /\ \A p \in Players : ~HasTurn(p)

GameNext ==
    \/ \E how \in Outcomes : subscribe(how) \/ PostAgain(how)
    \/ \E p \in Players :
          \/ Listen(p)
          \/ \E c \in Cells, time \in TimesOf(p), how \in Outcomes, again \in BOOLEAN :
                Post(p, c, time, how, again)
    \/ Over /\ UNCHANGED gameVars

GameSpec == GameInit /\ [][GameNext]_gameVars

-----------------------------------------------------------------------------
(***************************************************************************)
(* Properties                                                              *)
(***************************************************************************)

Boards == [Cells -> {0} \cup Players]
Times  == [Players -> 0 .. MaxTime]

\* The value of every variable has its type.
GameTypeOK ==
    /\ sent \in 0 .. 5 /\ listening \subseteq ready /\ ready \subseteq Players
    /\ last.command \in {"none", "setup", "start", "play", "finish"}
    /\ last.nextPlayer \in {0} \cup Players /\ last.winner \in {0} \cup Players
    /\ last.tris \in Seq(0 .. 3) /\ last.state \in Boards /\ last.timers \in Times
    /\ current \subseteq listening
    /\ copy = NoRequest \/ copy \in [player : Players, state : Boards, timers : Times, done : BOOLEAN]
    /\ troubles \in 0 .. MaxTroubles /\ faulty \in BOOLEAN /\ missed \in BOOLEAN

\* Three cells in a row: the second lies midway between the two others.
InARow == {t \in Cells \X Cells \X Cells :
              t[1] # t[3] /\ \A i \in {1, 2} : t[1][i] + t[3][i] = 2 * t[2][i]}

\* The lines of the game as seen on the board, whatever way the referee finds
\* them.
Lines == {{t[1], t[2], t[3]} : t \in InARow}

HasLine(p) == \E line \in Lines : \A c \in line : last.state[c] = p

\* The winning line that is announced is one that the winner has: exactly one
\* of its row, its column and its diagonal is given.
LineIsThere ==
    last.winner # 0 /\ (HasLine(1) \/ HasLine(2)) =>
        LET t == last.tris IN
        /\ Len(t) = 3 /\ Cardinality({i \in 1 .. 3 : t[i] # 0}) = 1
        /\ t[1] # 0 => Owns(last.state, last.winner, Rows[t[1]])
        /\ t[2] # 0 => Owns(last.state, last.winner, Cols[t[2]])
        /\ t[3] # 0 => Owns(last.state, last.winner, Diagonals[t[3]])

\* The referee looks for a tris of player 1 before one of player 2 and for
\* neither in the moves before: it is right because in a session both never
\* have one.  The game is finished as soon as somebody has a tris or the board
\* is full, the winner is who has the tris or else who was faster, and the line
\* that is announced is there: whatever requests come twice or late.
RightVerdict ==
    last.command \in {"play", "finish"} =>
        /\ LineIsThere
        /\ last.command = "finish" <=> HasLine(1) \/ HasLine(2) \/ full(last.state)
        /\ ~(HasLine(1) /\ HasLine(2))
        /\ \A p \in Players : last.command = "finish" =>
              (last.winner = p <=>
                 \/ HasLine(p)
                 \/ ~HasLine(1) /\ ~HasLine(2) /\ last.timers[p] < last.timers[3 - p])

\* A message takes marks back, lets a finished game go on or gives the turn
\* twice only if it answers a request that had been answered before: trying
\* again after an exception is safe.
Forward ==
    \/ last'.command \in {"setup", "start"}
    \/ /\ last.command # "finish" /\ last'.nextPlayer # last.nextPlayer
       /\ \E c \in Cells : last.state[c] = 0 /\
             last'.state = [last.state EXCEPT ![c] = last.nextPlayer]
    \/ copy # NoRequest /\ copy.done /\ PostAgain("delivered")

OnlyForward == [][last' # last => Forward]_gameVars

\* A session ends with "finish" unless a message was not delivered or a player
\* began to listen too late for its first turn: nothing else stops it.
StuckExplained == Over => last.command = "finish" \/ faulty \/ missed
=============================================================================
