---------------------------- MODULE MCUsersLifecycle ----------------------------
(* Instances of UsersLifecycle for TLC.                                    *)
EXTENDS UsersLifecycle

\* Files of an editor: none; comments, blank lines and a name given twice, first
\* as an administrator; a name with an escaped colon and escape; the default name
\* as a regular user; a line that is too long for the buffer, and one that just
\* fits it; a line without a colon, without a role, without a password.
EditedFiles ==
    {NoFile,
     <<"@", "a", ":", "p", "\n", "!", "x", "\n", "\n", " ", "#", "a", ":", "q">>,
     <<"#", "a", ":", "q", "\n", "@", "\\", ":", "\\", "\\", ":", "\\", "p", "\n">>,
     <<"#", "d", ":", "q">>,
     <<"@", "a", ":", "p", "\n", "!", "x", "x", "x", "x", "x", "x", "x", "x", "\n">>,
     <<"@", "a", ":", "p", "\n", "!", "x", "x", "x", "x", "x", "x", "x", "\n">>,
     <<"@", "a", ":", "p", "\n", "@", "b">>,
     <<"a", ":", "p">>,
     <<"@", "a", ":", "p", "\n", "@", "b", ":">>}

Characters ==
    {"\\", ":", "\n", " ", "@", "#", "!", "a", "b", "d", "p", "q", "x", "z"}

PlainFiles == {NoFile, <<"@", "a", ":", "p">>}

Names == {<<"a">>, <<":">>, <<"\\">>, <<"d">>, <<>>}

SimplePasswords == {<<"p", "q">>, <<":">>}

EscapedPasswords == {<<"p">>, <<"\\", "p">>}

PrintableNames == {<<"a">>, <<":">>}

NoArguments == <<>>

RegularArgument == [u \in {<<"a">>} |-> [password |-> <<"z">>, role |-> "Regular"]]

Default == <<"d">>

=============================================================================
