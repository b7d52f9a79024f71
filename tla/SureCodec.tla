----------------------------- MODULE SureCodec -----------------------------
(***************************************************************************)
(* Surefiles: Tree.Encode (sure/encode.go) writes a tree as lines, which   *)
(* the weave keeps, and PushDecoder (sure/decode.go) makes the tree again  *)
(* from lines that come one at a time (Store.ReadDelta).                   *)
(*                                                                         *)
(* A line is a sequence of symbols: a character that needs an escape, the  *)
(* two digits that stand for one, or a word of other characters.  Of the   *)
(* attributes there are those that are not always written or that are      *)
(* escaped: the kind, the hash of a file, the target of a link.            *)
(***************************************************************************)
EXTENDS Integers, Sequences, SequencesExt

CONSTANTS Symbols,   \* what text is made of
          Trees,     \* trees that are encoded
          Lines,     \* lines that may come
          MaxLines,  \* most lines that are pushed
          Digests    \* the words that are hexadecimal numbers

VARIABLES
    add,       \* the method that takes the next line, or how the last one ended
    tree,      \* the directories that are open, the root first
    result,    \* a sequence of the finished tree, or empty
    pushed     \* the lines so far

vars == <<add, tree, result, pushed>>

-----------------------------------------------------------------------------
(***************************************************************************)
(* Symbols                                                                 *)
(***************************************************************************)

Space == " "

\* The characters that are escaped, with their codes.
Special == {Space, "=", "[", "]", "\n"}

Hex == [c \in Special |->
            CASE c = Space -> "20" [] c = "=" -> "3d" [] c = "[" -> "5b"
              [] c = "]" -> "5d" [] c = "\n" -> "0a"]

\* The other symbols that are in every surefile.
Words == {"asure-2.0", "-", "----", "d", "f", "u", "kind", "sha1", "targ", "dir",
          "file", "lnk"}

-----------------------------------------------------------------------------
(***************************************************************************)
(* Trees                                                                   *)
(***************************************************************************)

Atts == [kind : {"dir"}]
            \cup [kind : {"file"}, sha1 : {<< >>} \cup {<<h>> : h \in Digests}]
            \cup [kind : {"lnk"}, targ : Seq(Symbols)]

FileType == [name : Seq(Symbols), atts : Atts]

\* Trees with at most n directories one inside the other.
TreesTo[n \in Nat] ==
    IF n = 0 THEN {}
    ELSE [name : Seq(Symbols), atts : Atts, children : Seq(TreesTo[n - 1]),
          files : Seq(FileType)]

\* An encoding has more lines than its tree is deep.
ASSUME CodecAssumption ==
    /\ MaxLines \in Nat /\ Trees \subseteq TreesTo[MaxLines]
    /\ Lines \subseteq Seq(Symbols)
    /\ Special \cup Range(Hex) \cup Words \cup Digests \subseteq Symbols
    /\ Digests \cap Special = {}

-----------------------------------------------------------------------------
(***************************************************************************)
(* Encoding                                                                *)
(***************************************************************************)

escapeString(text) ==
    FlattenSeq([i \in 1..Len(text) |->
        IF text[i] \in Special THEN <<"=", Hex[text[i]]>> ELSE <<text[i]>>])

Pair(key, value) == <<key, Space>> \o value \o <<Space>>

\* The hash is left out when there is none.
encodeAtts(atts) ==
    Pair("kind", <<atts.kind>>) \o
    CASE atts.kind = "file" /\ atts.sha1 # << >> -> Pair("sha1", atts.sha1)
      [] atts.kind = "lnk" -> Pair("targ", escapeString(atts.targ))
      [] OTHER -> << >>

Header == <<<<"asure-2.0">>, <<"-", "----">>>>

outNode(op, node) ==
    <<op>> \o escapeString(node.name) \o <<Space, "[">> \o encodeAtts(node.atts) \o <<"]">>

\* The lines of a tree, for trees with at most n directories inside each other.
outWalk[n \in Nat] ==
    [t \in TreesTo[n] |->
        <<outNode("d", t)>>
            \o FlattenSeq([i \in 1..Len(t.children) |-> outWalk[n - 1][t.children[i]]])
            \o <<<<"-">>>>
            \o [i \in 1..Len(t.files) |-> outNode("f", t.files[i])]
            \o <<<<"u">>>>]

Encode(t) == Header \o outWalk[MaxLines][t]

-----------------------------------------------------------------------------
(***************************************************************************)
(* Decoding a line.  A position of 0 is an error.                          *)
(***************************************************************************)

Unhex(h) == CHOOSE c \in Special : Hex[c] = h

\* The position of the space that ends the word at position i.
EndOfWord(line, i) == Min({j \in i..Len(line) : line[j] = Space} \cup {Len(line) + 1})

\* The word from position i to the one before end, with its escapes resolved.
Unescaped(line, i, end) ==
    LET chars[j \in i..end + 1] ==
            IF j >= end THEN << >>
            ELSE IF line[j] = "=" THEN <<Unhex(line[j + 1])>> \o chars[j + 2]
            ELSE <<line[j]>> \o chars[j + 1]
    IN  chars[i]

\* No code follows.
BadEscape(line, j) ==
    line[j] = "=" /\ (j = Len(line) \/ line[j + 1] \notin Range(Hex))

\* Fault: the escapes stay in the word.
scanRaw(line, i) ==
    [text |-> SubSeq(line, i, EndOfWord(line, i) - 1), next |-> EndOfWord(line, i) + 1]

\* The word at position i, and the position after the space that ends it.
scanName(line, i) ==
    LET end == EndOfWord(line, i)
    IN  IF \E j \in i..end - 1 : BadEscape(line, j) THEN [text |-> << >>, next |-> 0]
        ELSE [text |-> Unescaped(line, i, end), next |-> end + 1]

NoPairs(ok) == [ok |-> ok, all |-> << >>]

\* The pairs from a position to the closing bracket, of which a later one
\* replaces an earlier one with its key.
scanPairs(line, start) ==
    LET pairs[i \in 1..Len(line) + 2] ==
            IF i > Len(line) THEN NoPairs(FALSE)
            ELSE IF line[i] = "]" THEN NoPairs(TRUE)
            ELSE LET key   == scanName(line, i)
                     value == scanName(line, key.next)
                     rest  == pairs[value.next].all
                 IN  IF key.next = 0 \/ value.next = 0 THEN NoPairs(FALSE)
                     ELSE IF ~ pairs[value.next].ok THEN NoPairs(FALSE)
                     ELSE [ok  |-> TRUE,
                           all |-> [k \in DOMAIN rest \cup {key.text} |->
                                       IF k \in DOMAIN rest THEN rest[k] ELSE value.text]]
    IN  pairs[start]

NoAtts == [kind |-> "none"]

\* Fault: a kind that is not known is accepted.
decodeAnyKind(all) ==
    LET get(key) == IF <<key>> \in DOMAIN all THEN all[<<key>>] ELSE << >>
    IN  CASE get("kind") = <<"file">> -> [kind |-> "file", sha1 |-> get("sha1")]
          [] get("kind") = <<"lnk">>  -> [kind |-> "lnk", targ |-> get("targ")]
          [] OTHER -> [kind |-> get("kind")]

\* A missing attribute stays at its zero value; of a hash the hexadecimal
\* digits are read that it begins with.
decodeAtts(all) ==
    LET get(key) == IF <<key>> \in DOMAIN all THEN all[<<key>>] ELSE << >>
        hash     == get("sha1")
        noHash   == <<"sha1">> \notin DOMAIN all
        isHash   == hash # << >> /\ hash[1] \in Digests
    IN  CASE get("kind") = <<"dir">> -> [kind |-> "dir"]
          [] get("kind") = <<"file">> /\ noHash -> [kind |-> "file", sha1 |-> << >>]
          [] get("kind") = <<"file">> /\ isHash -> [kind |-> "file", sha1 |-> <<hash[1]>>]
          [] get("kind") = <<"lnk">> -> [kind |-> "lnk", targ |-> get("targ")]
          [] OTHER -> NoAtts

parseNameAtts(line) ==
    LET name  == scanName(line, 2)
        here  == name.next \in 1..Len(line) /\ line[name.next] = "["
        pairs == scanPairs(line, name.next + 1)
    IN  [name |-> name.text,
         atts |-> IF here /\ pairs.ok THEN decodeAtts(pairs.all) ELSE NoAtts]

-----------------------------------------------------------------------------
(***************************************************************************)
(* PushDecoder: the methods that take a line.  The action of each is a     *)
(* line that it accepts; any other line is an error (Reject).              *)
(***************************************************************************)

Node == [line \in Lines |-> parseNameAtts(line)]

Parent == Front(tree)

\* The last open directory with a child or a file more.
WithChild(t, c) == [t EXCEPT !.children = Append(@, c)]
WithFile(t, f)  == [t EXCEPT !.files = Append(@, f)]

needAsure(line) ==
    /\ add = "needAsure" /\ line = Header[1]
    /\ add' = "needHyphens"
    /\ UNCHANGED <<tree, result>>

needHyphens(line) ==
    /\ add = "needHyphens" /\ line = Header[2]
    /\ add' = "addDirs"
    /\ UNCHANGED <<tree, result>>

Opens(line) == line # << >> /\ line[1] = "d" /\ Node[line].atts # NoAtts

addDir(line) ==
    /\ add = "addDirs" /\ Opens(line)
    /\ tree' = Append(tree, [name |-> Node[line].name, atts |-> Node[line].atts,
                             children |-> << >>, files |-> << >>])
    /\ UNCHANGED <<add, result>>

\* Only the first character counts.
EndsDirs(line) == line # << >> /\ line[1] = "-"

endDirs(line) ==
    /\ add = "addDirs" /\ EndsDirs(line)
    /\ add' = "addFiles"
    /\ UNCHANGED <<tree, result>>

IsFile(line) == line # << >> /\ line[1] = "f" /\ Node[line].atts # NoAtts

addFile(line) ==
    /\ add = "addFiles" /\ IsFile(line) /\ tree # << >>
    /\ tree' = Append(Parent, WithFile(Last(tree), Node[line]))
    /\ UNCHANGED <<add, result>>

IsUp(line) == line # << >> /\ line[1] = "u"

\* Fault: the finished directory becomes the first child.
upFirst(line) ==
    /\ add = "addFiles" /\ IsUp(line) /\ tree # << >>
    /\ IF Len(tree) = 1
       THEN add' = "nothing" /\ tree' = << >> /\ result' = tree
       ELSE /\ add' = "addDirs" /\ UNCHANGED result
            /\ tree' = Append(Front(Parent),
                   [Last(Parent) EXCEPT !.children = <<Last(tree)>> \o @])

\* The directory is finished: the result, or a child of the one around it.
up(line) ==
    /\ add = "addFiles" /\ IsUp(line) /\ tree # << >>
    /\ IF Len(tree) = 1
       THEN add' = "nothing" /\ tree' = << >> /\ result' = tree
       ELSE /\ add' = "addDirs" /\ UNCHANGED result
            /\ tree' = Append(Front(Parent), WithChild(Last(Parent), Last(tree)))

\* A file or an end where no directory is open: an index out of range.
Panic(line) ==
    /\ add = "addFiles" /\ line # << >> /\ line[1] \in {"f", "u"} /\ tree = << >>
    /\ add' = "panic"
    /\ UNCHANGED <<tree, result>>

\* An error: Store.ReadDelta pushes no more.
Reject(line) ==
    /\ add' = "failed"
    /\ \/ add = "needAsure"   /\ line # Header[1]
       \/ add = "needHyphens" /\ line # Header[2]
       \/ add = "addDirs"     /\ ~ Opens(line) /\ ~ EndsDirs(line)
       \/ add = "addFiles"    /\ ~ IsUp(line)
                              /\ ~ (line # << >> /\ line[1] = "f" /\ tree = << >>)
                              /\ ~ IsFile(line)
       \/ add = "nothing"
    /\ UNCHANGED <<tree, result>>

Push(line) ==
    /\ Len(pushed) < MaxLines
    /\ pushed' = Append(pushed, line)
    /\ \/ needAsure(line) \/ needHyphens(line) \/ addDir(line) \/ endDirs(line)
       \/ addFile(line) \/ up(line) \/ Panic(line) \/ Reject(line)

\* Fault: it is enough that no directory is open.
CompleteUnfinished == add # "failed" /\ tree = << >>

\* Store.ReadDelta gives a tree: no line was an error, and PushDecoder.Tree has
\* one.
Complete == add # "failed" /\ result # << >> /\ tree = << >>

Init == add = "needAsure" /\ tree = << >> /\ result = << >> /\ pushed = << >>

Next == \E line \in Lines : Push(line)

Spec == Init /\ [][Next]_vars

-----------------------------------------------------------------------------
(***************************************************************************)
(* Type invariant                                                          *)
(***************************************************************************)

\* Every variable has its type.
TypeOK ==
    /\ add \in {"needAsure", "needHyphens", "addDirs", "addFiles", "nothing",
                "failed", "panic"}
    /\ tree \in Seq(TreesTo[MaxLines])
    /\ result = << >> \/ (Len(result) = 1 /\ result \in Seq(TreesTo[MaxLines]))
    /\ Len(pushed) <= MaxLines

-----------------------------------------------------------------------------
(***************************************************************************)
(* Safety                                                                  *)
(***************************************************************************)

Encodings == {[tree |-> t, lines |-> Encode(t)] : t \in Trees}

\* What Encode has written is read as the tree that was written, whatever is in
\* its names, with and without the attributes that may be missing.
ReadsBack ==
    \A e \in Encodings : pushed = e.lines => Complete /\ result = <<e.tree>>

\* "Returns an error if a full surefile wasn't pushed to it" (decode.go): the
\* start of a surefile is no tree, at whatever line it ends; and its lines are
\* no error by themselves.
OnlyWhole ==
    \A e \in Encodings : IsStrictPrefix(pushed, e.lines) =>
                             ~ Complete /\ add \notin {"failed", "panic"}

\* What a line says: what comes after a "-" or a "u" is not looked at, and a
\* node is what parseNameAtts makes of it.
SameSense(line, other) ==
    \/ line = other
    \/ /\ line # << >> /\ other # << >> /\ line[1] = other[1]
       /\ line[1] \in {"d", "f"} => parseNameAtts(line) = parseNameAtts(other)

\* Whatever lines were pushed, a tree that comes of them has an encoding that
\* says the same, line by line: no line is left out or read twice, and no node
\* is put into another directory.
NothingElse ==
    Complete =>
        LET e == Encode(result[1])
        IN  /\ Len(e) = Len(pushed)
            /\ \A i \in 1..Len(e) : SameSense(e[i], pushed[i])
=============================================================================
