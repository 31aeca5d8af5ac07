-------------------------- MODULE MCSessionCollector --------------------------
(***************************************************************************)
(* An instance of SessionCollector for TLC.                                 *)
(***************************************************************************)
EXTENDS SessionCollector

Line(kind, key, print) == [kind |-> kind, key |-> key, print |-> print, valid |-> TRUE, long |-> FALSE]

Meta == Line("session_meta", 0, 0)
Usage == Line("usage", 1, 1)
Command == Line("command", 1, 1)
LongCommand == [Command EXCEPT !.long = TRUE]

Written == {Usage, Command, LongCommand}
CommandOnly == <<"command">>

\* Files 1 and 3 are of one session.
Sids == <<"s", "t", "s">>

Rollout(lines) == [lines |-> lines, tail |-> Nil]

At(i, offset, size) ==
  [inode |-> i, offset |-> offset, size |-> size, skip |-> FALSE, complete |-> offset = size]

UsageOf(s) == [kind |-> "usage", key |-> 1, print |-> 1, sid |-> s]

Texts == <<Rollout(<<Meta, Command, Usage>>), Rollout(<<Meta, Usage>>), Rollout(<<>>)>>

\* A version without command cursors has read the first rollout; the second is new.
Upgraded == [NewTables EXCEPT !.files[1] = At(1, 6, 6), !.seen = {UsageOf("s")}]

\* Both were read, but no commands of the first one yet; then each was renamed, the
\* first to what was the path of the second.
Renamed ==
  [NewTables EXCEPT !.files[1] = At(1, 6, 6), !.files[2] = At(2, 4, 4),
                    !.cursors = [f \in Features |-> <<At(1, 0, 6), At(2, 4, 4), Nil>>],
                    !.seen = {UsageOf("s"), UsageOf("t")}]

Homes ==
  {[disk |-> <<1, 2, Nil>>, db |-> Upgraded, text |-> Texts, shown |-> <<0, 0, 0>>],
   [disk |-> <<Nil, 1, 2>>, db |-> Renamed, text |-> Texts, shown |-> <<3, 2, 0>>]}

\* Where the third path plays a part, a single change, or failure, is explored.
ThirdPath == disk[3] # Nil \/ \E d \in {db, saved} : d.files[3] # Nil \/ d.cursors[Stages[1]][3] # Nil

Small == ThirdPath => changes + mishaps <= 1
=============================================================================
