------------------------------ MODULE Packfile ------------------------------
(***************************************************************************)
(* The RPF2 archive of a resource's client files (baston-zone packfile.rs):*)
(* flatten turns the tree of paths into a table of entries by popping one  *)
(* directory at a time, build_rpf lays the data out behind it.  A path is  *)
(* a sequence of names; names are numbers, in the order of their strings.  *)
(***************************************************************************)
EXTENDS Naturals, FiniteSets, SequencesExt

CONSTANTS PackPaths,    \* paths a manifest may list
          PackLength,   \* number of bytes of a path's file
          MaxPacked     \* files in one archive

VARIABLES packed,       \* the paths given to build_rpf
          toc,          \* flatten's `entries'
          stack,        \* its stack of (entry index, directory)
          archive       \* where each file's data went, once written

packVars == <<packed, toc, stack, archive>>
ALIGNMENT == 2048
TocEntry == [dir |-> TRUE, path |-> <<>>, first_child |-> 0, child_count |-> 0]

PackInit ==
    /\ packed \in {s \in SUBSET PackPaths : Cardinality(s) <= MaxPacked}
    /\ toc = <<TocEntry>> /\ stack = <<[index |-> 1, path |-> <<>>]>> /\ archive = <<>>

----------------------------------------------------------------------------
(* DirNode: the files and the directories directly under a path.            *)

FilesUnder(d) == {p \in packed : Len(p) = Len(d) + 1 /\ IsPrefix(d, p)}
DirsUnder(d) == {SubSeq(p, 1, Len(d) + 1) : p \in {q \in packed : Len(q) > Len(d) + 1 /\ IsPrefix(d, q)}}

\* sort_by name, which is stable: a directory comes before a file of its name.
Children(d) ==
    LET all == {[TocEntry EXCEPT !.path = p] : p \in DirsUnder(d)}
                   \cup {[TocEntry EXCEPT !.dir = FALSE, !.path = p] : p \in FilesUnder(d)} IN
    SetToSortSeq(all, LAMBDA a, b : Last(a.path) < Last(b.path) \/ (Last(a.path) = Last(b.path) /\ a.dir /\ ~b.dir))

\* The directories among the new entries, to be popped in order.
SubDirsFirst(base, children) ==
    SelectSeq([i \in 1..Len(children) |-> [index |-> base + i, path |-> children[i].path]],
              LAMBDA s : \E i \in 1..Len(children) : children[i].dir /\ s.index = base + i)
SubDirsOff(base, children) == Reverse(SubDirsFirst(base + 1, children))
SubDirs(base, children) == Reverse(SubDirsFirst(base, children))

FirstChildLast(base) == base
FirstChild(base) == base + 1

\* One iteration of flatten's loop.
flatten ==
    LET top == Last(stack)
        children == Children(top.path) IN
    /\ stack # <<>>
    /\ toc' = [toc EXCEPT ![top.index].first_child = FirstChild(Len(toc)),
                          ![top.index].child_count = Len(children)] \o children
    /\ stack' = Front(stack) \o SubDirs(Len(toc), children)
    /\ UNCHANGED <<packed, archive>>

----------------------------------------------------------------------------
pad_to_none(n) == n
pad_to(n) == ((n + ALIGNMENT - 1) \div ALIGNMENT) * ALIGNMENT

\* Header, records of 16 bytes, then the names (two bytes and a zero each).
TocSize == pad_to(pad_to(20) + 16 * Len(toc) + 2 + 3 * (Len(toc) - 1))

\* The data follows in the order of the table, each file padded.
build_rpf ==
    /\ stack = <<>> /\ archive = <<>>
    /\ archive' = LET place(done, e) ==
                          IF e.dir THEN [done EXCEPT !.out = Append(@, [offset |-> 0, length |-> 0])]
                          ELSE [out |-> Append(done.out, [offset |-> done.at, length |-> PackLength[e.path]]),
                                at |-> pad_to(done.at + PackLength[e.path])] IN
                  FoldLeft(place, [out |-> <<>>, at |-> TocSize], toc).out
    /\ UNCHANGED <<packed, toc, stack>>

PackNext == flatten \/ build_rpf

----------------------------------------------------------------------------
\* The stack holds directories that are already in the table.
PackTypeOK ==
    /\ packed \subseteq PackPaths
    /\ \A i \in 1..Len(stack) :
        /\ stack[i].index \in 1..Len(toc)
        /\ toc[stack[i].index].dir /\ toc[stack[i].index].path = stack[i].path
    /\ Len(archive) \in {0, Len(toc)}

\* FXServer's order: a directory's children as one block, then the blocks of
\* its subdirectories, each with everything below it, in the order of their names.
RECURSIVE Blocks(_)
Blocks(d) ==
    LET children == Children(d) IN
    FoldLeft(LAMBDA done, e : IF e.dir THEN done \o Blocks(e.path) ELSE done,
             [i \in 1..Len(children) |-> children[i].path], children)
\* The finished table lists the entries in the order of the recursive writer it
\* is a port of, although it is built with a stack and without recursion.
PreOrder ==
    stack = <<>> => [i \in 1..Len(toc) |-> toc[i].path] = <<<<>>>> \o Blocks(<<>>)

\* A client's lookup: from the root, the first child with the next name.
RECURSIVE Find(_, _)
Find(i, path) ==
    IF path = <<>> THEN i
    ELSE LET block == toc[i].first_child .. (toc[i].first_child + toc[i].child_count - 1)
             named == {j \in block : j <= Len(toc) /\ toc[j].path # <<>> /\ Last(toc[j].path) = Head(path)} IN
         IF named = {} THEN 0 ELSE Find(CHOOSE j \in named : \A k \in named : j <= k, Tail(path))
\* Every packed file is found from the root through the child blocks, unless a
\* directory has its name, and nothing of the table lies outside a block.
Resolvable ==
    stack = <<>> =>
        /\ \A p \in packed : (\E q \in packed : Len(q) > Len(p) /\ IsPrefix(p, q)) \/ (Find(1, p) # 0 /\ toc[Find(1, p)].path = p)
        /\ Len(toc) = 1 + FoldLeft(LAMBDA n, e : n + e.child_count, 0, toc)

\* The data of every file lies behind the table, starts on a multiple of 2048
\* and overlaps no other file's.
DataDisjoint ==
    \A i \in 1..Len(archive) : ~toc[i].dir =>
        /\ archive[i].offset % ALIGNMENT = 0 /\ archive[i].offset >= 2048 + 16 * Len(toc)
        /\ \A j \in 1..Len(archive) : j > i /\ ~toc[j].dir => archive[j].offset >= archive[i].offset + archive[i].length
\* An archive resolves every path to its own bytes: entries in order, blocks of
\* children where their directory says, data behind the table and disjoint.
ArchiveSound ==
    /\ PackTypeOK /\ PreOrder /\ Resolvable /\ DataDisjoint
=============================================================================
