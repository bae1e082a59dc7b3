------------------------------ MODULE MCUnits ------------------------------
(***************************************************************************)
(* The units of the gateway that stand on their own, on small instances:   *)
(* one is chosen with an input of it, and only those that keep a state     *)
(* move.                                                                   *)
(***************************************************************************)
EXTENDS DataItem, DataTree, ConfigFile, LibSrt, SrtChunks, MpegTs, BuffRegistry

CONSTANTS LongFrom, MaxEnd,                             \* Amf
          Rates, Signals, MaxSamples, MaxAhead          \* G726

VARIABLES unit, input, enc, dec, sent, signal, taken, past

F == INSTANCE FlvMux      \* with Amf and CodecCommon
L7 == INSTANCE G711
G7 == INSTANCE G726
J == INSTANCE DataTree WITH Cells <- 1..14

g726Vars == <<enc, dec, sent, signal, taken, past>>
vars == <<unit, input, g726Vars, itemVars, treeVars, fileVars, srtVars, chunkVars, tsVars, shmVars>>

Idle(u) ==
    /\ u # "g726" => enc = 0 /\ dec = 0 /\ sent = 0 /\ signal = 0 /\ taken = 0 /\ past = 0
    /\ u # "item" => item = 0 /\ mem = 0 /\ ref = 0
    /\ u # "tree" => heap = 0 /\ held = 0 /\ copied = 0
    /\ u # "config" => ConfigInit
    /\ u # "libsrt" => srt = 0 /\ lib = 0 /\ waits = 0
    /\ u # "chunks" => chunk = 0 /\ conn = 0 /\ due = 0 /\ fed = 0
    /\ u # "mpegts" => TsInit
    /\ u # "shm" => ShmInit
-----------------------------------------------------------------------------
MCUsers == Permutations(Users)

MCSignals == {<<32767, -30000>>, <<700, 700, -9>>, <<0>>, <<20000, 0, -20000, 0>>,
              <<30000, 30000, 30000, 30000, -30000, -30000, -30000, -30000>>}
MCStrings == {<<1>>, <<2, 1>>, <<1, 2, 1>>}

AmfValues(names) ==
    {F!Prop(n, F!AMF_NUMBER, <<1, 2, 3, 4, 5, 6, 7, 8>>) : n \in names}
    \cup {F!Prop(n, F!AMF_BOOLEAN, b) : n \in names, b \in {<<0>>, <<1>>}}
    \cup {F!Prop(n, F!AMF_STRING, s) : n \in names, s \in {<<>>, <<0, 0, 9>>, <<65, 65, 65, 65, 65>>}}

Pairs(S, U) == {<<>>} \cup {<<p>> : p \in S} \cup {<<p, q>> : p \in S, q \in U}

Flat(n, a, b) ==
    {F!Obj(n, t, v) : t \in {F!AMF_OBJECT, F!AMF_ECMA_ARRAY}, v \in Pairs(AmfValues({a}), AmfValues({b}))}
    \cup {F!Obj(n, F!AMF_STRICT_ARRAY, v) : v \in Pairs(AmfValues({<<>>}), AmfValues({<<>>}))}

Small(n) == {p \in Flat(n, <<97>>, <<98, 98>>) : Len(p.props) = 1}

AmfInputs == Flat(<<>>, <<97>>, <<98, 98>>)
    \cup {F!Obj(<<>>, t, <<p, q>>) : t \in {F!AMF_OBJECT, F!AMF_ECMA_ARRAY},
                                      p \in Small(<<99>>), q \in AmfValues({<<100>>})}

(* JSON objects of atoms, objects and arrays of objects, two levels deep.  *)
Leaf == {<<"object", <<>>>>} \cup {<<"object", <<<<n, <<"atom", a>>>>>>>> : n \in Names, a \in Atoms}
Lists == {<<"array", [k \in 1..Len(l) |-> <<0, l[k]>>]>> : l \in Pairs(Leaf, Leaf)}
Vals == Leaf \cup Lists \cup {<<"atom", a>> : a \in Atoms}
JsonInputs == {<<"object", <<<<1, v>>, <<2, w>>>>>> : v \in Vals, w \in Vals}

(* Byte streams: all short ones, and sequences of NAL units behind start   *)
(* codes of three and of four bytes.                                       *)
NalPieces == {c \o u : c \in {<<0, 0, 1>>, <<0, 0, 0, 1>>},
                       u \in {<<7, 1, 2, 3>>, <<8, 9>>, <<5, 0, 7>>, <<1, 7, 7>>, <<6>>}}
Streams == NalPieces \cup {p \o q : p \in NalPieces, q \in NalPieces}
    \cup {p \o q \o r : p \in NalPieces, q \in NalPieces, r \in NalPieces}
AnyBytes == [1..12 -> {0, 1}] \cup UNION {[1..n -> {0, 1, 5, 7}] : n \in 0..5}

AudioRates == {F!Rated[k] : k \in 1..Len(F!Rated)} \cup {1, 44000, 96001, 131073, 16777215}
AudioData == {[k \in 1..n |-> k % 256] : n \in {0, 1, 8, 1017, 1018}}
Times == {0, 1, 16777215, 16777216, 2147483647}
-----------------------------------------------------------------------------
Init ==
    \/ unit = "amf" /\ input \in AmfInputs \X (0..MaxEnd) /\ Idle(unit)
    \/ unit = "g711" /\ input \in (0..255) \X (0..255) /\ Idle(unit)
    \/ unit = "json" /\ input \in JsonInputs /\ Idle(unit)
    \/ unit = "codec" /\ input \in (AnyBytes \cup Streams) \X (0..3) /\ Idle(unit)
    \/ unit = "video" /\ input \in Streams \X {<<0, 0, 0, 0>>, <<0, 0, 1, 5>>} \X {3, 16777216} /\ Idle(unit)
    \/ unit = "audio" /\ input \in (0..15) \X AudioRates \X AudioData \X Times /\ Idle(unit)
    \/ unit = "g726" /\ input = 0 /\ G7!Init /\ Idle(unit)
    \/ unit = "item" /\ input = 0 /\ ItemInit /\ Idle(unit)
    \/ unit = "tree" /\ input = 0 /\ TreeInit /\ Idle(unit)
    \/ unit = "config" /\ input = 0 /\ ConfigInit /\ Idle(unit)
    \/ unit = "libsrt" /\ input = 0 /\ SrtInit /\ Idle(unit)
    \/ unit = "chunks" /\ input = 0 /\ ChunksInit /\ Idle(unit)
    \/ unit = "mpegts" /\ input = 0 /\ TsInit /\ Idle(unit)
    \/ unit = "shm" /\ input = 0 /\ ShmInit /\ Idle(unit)

Next ==
    /\ UNCHANGED <<unit, input>>
    /\ \/ unit = "g726" /\ G7!Next /\ UNCHANGED <<itemVars, treeVars, fileVars, srtVars, chunkVars, tsVars, shmVars>>
       \/ unit = "item" /\ ItemNext /\ UNCHANGED <<g726Vars, treeVars, fileVars, srtVars, chunkVars, tsVars, shmVars>>
       \/ unit = "tree" /\ TreeNext /\ UNCHANGED <<g726Vars, itemVars, fileVars, srtVars, chunkVars, tsVars, shmVars>>
       \/ unit = "config" /\ ConfigNext /\ UNCHANGED <<g726Vars, itemVars, treeVars, srtVars, chunkVars, tsVars, shmVars>>
       \/ unit = "libsrt" /\ SrtNext /\ UNCHANGED <<g726Vars, itemVars, treeVars, fileVars, chunkVars, tsVars, shmVars>>
       \/ unit = "chunks" /\ ChunksNext /\ UNCHANGED <<g726Vars, itemVars, treeVars, fileVars, srtVars, tsVars, shmVars>>
       \/ unit = "mpegts" /\ TsNext /\ UNCHANGED <<g726Vars, itemVars, treeVars, fileVars, srtVars, chunkVars, shmVars>>
       \/ unit = "shm" /\ ShmNext /\ UNCHANGED <<g726Vars, itemVars, treeVars, fileVars, srtVars, chunkVars, tsVars>>

Spec == Init /\ [][Next]_vars
-----------------------------------------------------------------------------
(***************************************************************************)
(* amf.c: a value encoded with room enough is decoded as it was, and one   *)
(* cut short by the end of the buffer is still a value, with the last      *)
(* properties missing.                                                     *)
(***************************************************************************)
AmfKept ==
    unit = "amf" => F!AmfComesBack(input[1], input[2]) /\ F!AmfCutIsWhole(input[1], input[2])

(***************************************************************************)
(* g711.c and g726.c: a code survives decoding and encoding, and going     *)
(* from one law to the other keeps order and distance; a decoder adapts as *)
(* its encoder did, whatever the bytes, and its predictor stays stable.    *)
(***************************************************************************)
CodecsAgree ==
    /\ unit = "g711" => L7!CodeSurvives(input[1]) /\ L7!Transcodes(input[1], input[2])
    /\ unit = "g726" => G7!InStep /\ G7!Stable

Mapped == INSTANCE DataItemSpec
            WITH Values <- Strings \cup {<<p>> : p \in Pointers},
                 values <- IF unit = "item" THEN ValuesOf
                           ELSE [user |-> <<1>>, default |-> None, autoselect |-> None]

(***************************************************************************)
(* mgw-data.c: the three values of an item are independent, whatever moves *)
(* in its memory.                                                          *)
(***************************************************************************)
ItemImplements == Mapped!Spec

(***************************************************************************)
(* mgw-data.c: a getter is shown user, default and autoselect in order; an *)
(* item stays inside its memory; references are counted exactly; items are *)
(* sorted by name, each name once; copies are equal and deep, and JSON     *)
(* comes back.                                                             *)
(***************************************************************************)
SettingsSound ==
    /\ unit = "item" => ShownInOrder /\ ItemSound
    /\ unit = "tree" => TreeRefsExact /\ ItemsSorted /\ CopyIsDeep
    /\ unit = "json" => J!JsonComesBack(input)

(***************************************************************************)
(* codec-common.c, flv-mux.c and rtmp-stream.c: the fast search and the    *)
(* walk over the NAL units find what a naive search finds, the AVC record  *)
(* holds the parameter sets, and video, audio and metadata reach the       *)
(* player as they were, with headers that say what they hold.              *)
(***************************************************************************)
MediaArrives ==
    /\ unit = "codec" => F!UnitsAreFound(input[1], input[2]) /\ F!RecordReads(input[1], input[2])
    /\ unit = "video" => F!VideoArrives(input[1], input[2], input[3])
    /\ unit = "audio" => /\ F!AudioHeadersRead(input[1], input[2], input[3])
                         /\ F!AudioArrives(input[2], input[1] % 8, input[3], input[4])
                         /\ F!MetaArrives(input[1])

(***************************************************************************)
(* mgw-libsrt.c and srt-stream.c: what was opened is closed on every path, *)
(* every address is tried before an open gives up, and an interrupted call *)
(* waits no second time; messages are whole transport packets, and the     *)
(* bytes of the stream leave in their turn.                                *)
(***************************************************************************)
SrtSound ==
    /\ unit = "libsrt" => HoldsItsOwn /\ TriesThemAll /\ StopsWaiting
    /\ unit = "chunks" => MessagesAreWhole /\ BytesInTurn
==============================================================================
