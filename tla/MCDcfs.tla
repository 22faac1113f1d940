------------------------------- MODULE MCDcfs -------------------------------
\* Instances of Dcfs for TLC.
EXTENDS Dcfs

CONSTANTS a, b

\* Two files with one opener each or one file with two, and one open too many.
Guarded == [overlap |-> FALSE, dup |-> FALSE, fail |-> FALSE,
            calls |-> {"getattr", "create", "open"} \cup FileCalls,
            names |-> {a, b}, opens |-> 2, writes |-> 2, descs |-> 1]
Failing == [Guarded EXCEPT !.fail = TRUE, !.names = {a}, !.opens = 3,
                           !.calls = DirectoryCalls \cup FileCalls]
Duplicating == [Guarded EXCEPT !.dup = TRUE, !.names = {a}, !.writes = 1,
                               !.descs = 2]

\* Two openers of one file, and one opener while the file is looked up.
Reopening == [Guarded EXCEPT !.overlap = TRUE, !.names = {a}, !.writes = 1,
                             !.calls = {"create", "open", "write", "flush"}]
LookingUp == [Reopening EXCEPT
                !.opens = 1,
                !.calls = {"getattr", "readdir", "create", "write", "flush"}]

AnyUsage == {Guarded, Failing, Duplicating, Reopening, LookingUp}
OnlyGuarded == {Guarded}
OnlyDuplicating == {Duplicating}
OnlyReopening == {Reopening}

=============================================================================
