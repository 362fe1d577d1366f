----------------------------- MODULE MCLibrary -----------------------------
(* Two objects, blocks of two items and up to four items, so that a string *)
(* needs up to three blocks with its terminator; a stream with lines of    *)
(* two things; sectors of 20 bytes, of which two entries take one or two.  *)
(* The containers, the streams and the builder share no state: a behaviour *)
(* exercises one of them.                                                  *)
EXTENDS Containers, Streams, Paths, Builder

CONSTANTS s, t, given, zero, junk

TwoNames == {s, t}
TwoItems == {Slash, "a"}
TextSet == {<<>>, <<"a">>, <<"a", Slash, "a">>}
AllLevels == 0 .. 2
NumeralSet == {0, 7, 10, 1000, -45, 3735, -65536, MaxInt, MinInt}
SixteenthSet == {0, 1, 2, 8, 24, 163, -24, -32}
SizeSet == {0, 1023, 1024, 1048575, 1048576, 1048576 + 52000, 1048576 + 99 * 10486,
            5767168, 1073741823, 1073741824, MaxInt, -4096}

\* a.b, aa.b, a.a.b and a, empty or of one or two sectors, up to two of them
\* in the root and in a directory, which may have another one in it.
HostFile(filename, n) == [filename |-> filename, dir |-> FALSE, items |-> [k \in 1 .. n |-> k]]
HostDirectory(listing) == [filename |-> <<97>>, dir |-> TRUE, items |-> listing]
UpToTwo(nodes) == {<<>>} \cup {<<n>> : n \in nodes} \cup {<<n, m>> : n, m \in nodes}
Filenames == {<<97, Dot, 98>>, <<97, 97, Dot, 98>>, <<97, Dot, 97, Dot, 98>>, <<97>>}
FewFiles == {HostFile(<<97, Dot, 98>>, 21), HostFile(<<97, Dot, 97, Dot, 98>>, 0), HostFile(DSStore, 1)}
Inner == FewFiles \cup {HostDirectory(<<>>)} \cup {HostDirectory(<<n>>) : n \in FewFiles}
Listings ==
  UpToTwo({HostFile(filename, n) : filename \in Filenames, n \in {0, 1, 20, 21}}
            \cup {HostDirectory(listing) : listing \in UpToTwo(Inner)})

VARIABLES exercised, host

LibraryInit ==
  /\ Init /\ StreamInit
  /\ \/ exercised = "streams" /\ host = <<>>
     \/ exercised = "containers" /\ host = <<>> /\ ~stream.debug
     \/ exercised = "builder" /\ host \in Listings /\ ~stream.debug

LibraryNext ==
  /\ \/ exercised = "containers" /\ Next /\ UNCHANGED outs
     \/ exercised = "streams" /\ StreamNext /\ UNCHANGED avars
  /\ UNCHANGED <<exercised, host>>

LibrarySpec == LibraryInit /\ [][LibraryNext]_<<avars, outs, exercised, host>>

\* Every path that a program can put together in a string.
PathsResolve == \A o \in Objects : Value(o) # <<>> => Resolves(Value(o))

\* The kernel mounts what the builder has built, and finds the host's tree in
\* it, though the one writes sizes, indexes and the ends of names and the
\* other walks them: every file under its name and with its bytes, no sector
\* in two of them, and exactly these and the first ones taken.
ImagesMount == exercised = "builder" /\ Buildable(host) => Mounts(host)

\* The last call is seen by the action property alone, and nobody reads the
\* items behind the last.  (The comparison makes TLC compute what it leaves
\* out here before it stores the state.)
View ==
  <<[o \in Objects |-> <<Value(o), store.arrays[o].physical_size, store.arrays[o].data = Null>>],
    Cardinality(DOMAIN store.memory), store.outside, overwritten, halted, outs, exercised, host,
    avars = avars>>
=============================================================================
