---------------------------- MODULE MCSureCodec ----------------------------
\* A plain name and one of which every character is escaped; files with and
\* without a hash, links to a name that is escaped and to none.
EXTENDS SureCodec

MCSymbols == STRING

MCNames == {<<"a">>, <<" ", "=", "]", "[", "\n">>}

Dir(name, children, files) ==
    [name |-> name, atts |-> [kind |-> "dir"], children |-> children, files |-> files]

MCFiles ==
    [name : {<<"a">>}, atts : {[kind |-> "file", sha1 |-> << >>],
                              [kind |-> "file", sha1 |-> <<"00ff">>],
                              [kind |-> "lnk", targ |-> << >>],
                              [kind |-> "lnk", targ |-> <<"=", "x", " ">>]}]

\* Trees of one and of two levels.
MCLeaves == {Dir(n, << >>, f) : n \in MCNames, f \in BoundedSeq(MCFiles, 1)}
MCTrees  == MCLeaves \cup
    {Dir(<<"a">>, c, f) : c \in BoundedSeq({d \in MCLeaves : d.files = << >>}, 2),
                          f \in BoundedSeq(MCFiles, 1)}

\* Their lines, lines that are cut off, and lines that no one writes, some of
\* which are read.
MCLines == UNION {Range(Encode(t)) : t \in MCTrees}
    \cup {<< >>, <<"x">>, <<"d", "a">>, <<"f", "a", " ", "[">>, <<"f", "=">>,
          <<"f", "a", " ", "[", "]">>,
          <<"f", "a", " ", "[", "kind", " ", "file", " ", "sha1", " ", "x", " ", "]">>,
          <<"f", "[", " ", "[", "targ", " ", "x", " ", "size", " ", "0", " ", "kind", " ",
            "lnk", " ", "targ", " ", "=", "20", " ", "]">>}
=============================================================================
