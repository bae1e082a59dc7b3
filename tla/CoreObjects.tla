---------------------------- MODULE CoreObjects ----------------------------
(***************************************************************************)
(* The tree of objects of mgw-core (mgw.c, mgw-device.c, mgw-stream.c):    *)
(* the core has devices, a device has streams, a stream has a source and   *)
(* two lists of outputs, those it started and those that wait for a source *)
(* (the whitelist).  Lists have their newest entry first, and a name finds *)
(* the first that has it; how the lists are linked, and the references,    *)
(* are in Contexts.                                                        *)
(*                                                                         *)
(* Calls come one after another.  Two ends of a call are kept apart from   *)
(* an answer: it may never return (hung), and it may run into an assertion *)
(* or into memory that is no list (broken).                                *)
(***************************************************************************)
EXTENDS Naturals, Sequences, SequencesExt

CONSTANTS
    Sns,            \* serial numbers of devices
    StreamNames,    \* names of streams
    OutputNames,    \* names of outputs
    MaxDevices,     \* bound: how many devices there are
    MaxStreams,     \* bound: how many streams a device, or the core, has
    Config          \* private_data: what mgw_reset_all builds

\* What a configuration says of a stream and of a device.
StreamEntries == [name : StreamNames, source : BOOLEAN, outputs : Seq(OutputNames)]
DeviceEntries == [sn : Sns, streams : Seq(StreamEntries)]

ASSUME CoreAssumption ==
    /\ MaxDevices \in Nat /\ MaxStreams \in Nat
    /\ Config \in [devices : Seq(DeviceEntries), privates : Seq(StreamEntries)]
    /\ Len(Config.devices) <= MaxDevices

VARIABLES
    core,       \* "none", "up" or "down"
    devices,    \* mgw->data.devices_list
    privates,   \* mgw->data.priv_streams_list
    fate        \* "runs", "hung" or "broken"

coreVars == <<core, devices, privates, fate>>

(***************************************************************************)
(* source is "none", one that is not running ("idle"), one that is, or a   *)
(* private one, which nobody starts because packets are given to it.  An   *)
(* output is a name and whether a start was tried, which is what signals   *)
(* the event that its destruction waits for.                               *)
(***************************************************************************)
Sources == {"none", "idle", "started", "private"}
Outcomes == {"unmade", "idle", "started", "private"}

Stream(name) == [name |-> name, source |-> "none", actived |-> FALSE,
                 outputs |-> <<>>, whitelist |-> <<>>]

Output(name, tried) == [name |-> name, tried |-> tried]

Device(sn, streams) == [sn |-> sn, streams |-> streams]

CoreInit == core = "none" /\ devices = <<>> /\ privates = <<>> /\ fate = "runs"

Running == core = "up" /\ fate = "runs"

(***************************************************************************)
(* get_context_by_name: the place of the first entry with the name, or 0.  *)
(***************************************************************************)
Place(list, name, field) ==
    SelectInSeq(list, LAMBDA e : e[field] = name)

----------------------------------------------------------------------------
(***************************************************************************)
(* mgw_stream_add_output on stream s.  The output is not made when its     *)
(* protocol is unknown and destroyed again when it cannot be started.  It  *)
(* is put in a list by whether there is a source, and started by whether   *)
(* the stream is active as well.                                           *)
(***************************************************************************)
HasOutput_Started(s, name) == Place(s.outputs, name, "name") # 0

HasOutput(s, name) ==
    Place(s.outputs, name, "name") # 0 \/ Place(s.whitelist, name, "name") # 0

AddOutput(s, name, made, starts) ==
    IF HasOutput(s, name) \/ ~made THEN s
    ELSE IF s.source = "none" THEN [s EXCEPT !.whitelist = <<Output(name, FALSE)>> \o @]
    ELSE IF s.actived /\ ~starts THEN s
    ELSE [s EXCEPT !.outputs = <<Output(name, s.actived)>> \o @]

AddOutputs(s, names) ==
    LET added[k \in 0 .. Len(names)] ==
            IF k = 0 THEN s ELSE AddOutput(added[k - 1], names[k], TRUE, TRUE)
    IN  added[Len(names)]

(***************************************************************************)
(* mgw_stream_add_source.  A source that does not start stays, and the     *)
(* stream inactive.  The outputs of the whitelist are started, each is     *)
(* inserted into a list whose head is taken by value, which an assertion   *)
(* forbids when it is empty, and which no list survives when it is not.    *)
(***************************************************************************)
AddSource_Unchecked(s, outcome) ==
    IF s.source # "none" THEN s
    ELSE IF outcome = "idle" THEN [s EXCEPT !.source = "idle"]
    ELSE [s EXCEPT !.source = outcome, !.actived = TRUE, !.whitelist = <<>>]

AddSource(s, outcome) ==
    IF s.source # "none" \/ outcome = "unmade" THEN s
    ELSE IF outcome = "idle" THEN [s EXCEPT !.source = "idle"]
    ELSE [s EXCEPT !.source = outcome, !.actived = TRUE, !.whitelist = <<>>]

Breaks(s, outcome) ==
    s.source = "none" /\ outcome \in {"started", "private"} /\ s.whitelist # <<>>

(***************************************************************************)
(* mgw_stream_release_source.                                              *)
(***************************************************************************)
ReleaseSource_Active(s) == [s EXCEPT !.source = "none"]

ReleaseSource(s) == [s EXCEPT !.source = "none", !.actived = FALSE]

(***************************************************************************)
(* mgw_stream_release_output_by_name looks only in the list of started     *)
(* outputs.  An output nobody tried to start never finishes its            *)
(* destruction.                                                            *)
(***************************************************************************)
ReleaseOutput(s, name) ==
    LET i == Place(s.outputs, name, "name")
    IN  IF i = 0 THEN s ELSE [s EXCEPT !.outputs = RemoveAt(@, i)]

Untried(list) == \E i \in DOMAIN list : ~list[i].tried

(***************************************************************************)
(* mgw_stream_destroy releases the source and both lists.                  *)
(***************************************************************************)
Hangs(s) == Untried(s.outputs) \/ Untried(s.whitelist)

HangsAny(streams) == \E i \in DOMAIN streams : Hangs(streams[i])

----------------------------------------------------------------------------
(***************************************************************************)
(* mgw_startup.  It refuses a second call, and nothing makes it possible   *)
(* again after mgw_shutdown, which leaves the pointer as it is.            *)
(***************************************************************************)
Startup ==
    /\ core = "none" /\ fate = "runs"
    /\ core' = "up"
    /\ UNCHANGED <<devices, privates, fate>>

(***************************************************************************)
(* mgw_reset_all: every device of the configuration is created with the    *)
(* streams of its entry.  The loop over them takes the entry by the number *)
(* of the device, not by its own: with streams enough it makes the same    *)
(* one as often as there are streams, and mgw_reset_streams refuses the    *)
(* rest when there is no such entry.                                       *)
(***************************************************************************)
Built(entry, outcome) ==
    LET fed == IF entry.source THEN AddSource(Stream(entry.name), outcome) ELSE Stream(entry.name)
    IN  AddOutputs(fed, entry.outputs)

ResetStreams(entries, i, outcome) ==
    IF i \in DOMAIN entries THEN [j \in DOMAIN entries |-> Built(entries[i], outcome)] ELSE <<>>

ResetAll(outcome) ==
    /\ Running /\ devices = <<>> /\ privates = <<>>
    /\ devices' = Reverse([i \in DOMAIN Config.devices |->
                              Device(Config.devices[i].sn,
                                     ResetStreams(Config.devices[i].streams, i, outcome))])
    /\ privates' = Reverse([i \in DOMAIN Config.privates |-> Built(Config.privates[i], outcome)])
    /\ UNCHANGED <<core, fate>>

(***************************************************************************)
(* mgw_device_create: it asks nobody whether the serial number is taken.   *)
(***************************************************************************)
DeviceCreate(sn) ==
    /\ Running /\ Len(devices) < MaxDevices
    /\ devices' = <<Device(sn, <<>>)>> \o devices
    /\ UNCHANGED <<core, privates, fate>>

(***************************************************************************)
(* mgw_device_add_stream with a source, whose failure ends the call with   *)
(* the stream left where it is, or with outputs.                           *)
(***************************************************************************)
DeviceAddStream(sn, name, source, outcome, outputs) ==
    LET d == Place(devices, sn, "sn")
        fed == IF source THEN AddSource(Stream(name), outcome) ELSE Stream(name)
        full == IF source /\ ~fed.actived THEN fed ELSE AddOutputs(fed, outputs)
    IN  /\ Running /\ d # 0 /\ Len(devices[d].streams) < MaxStreams
        /\ devices' = [devices EXCEPT ![d].streams = <<full>> \o @]
        /\ UNCHANGED <<core, privates, fate>>

(***************************************************************************)
(* A call on the stream that a serial number and a name lead to: the       *)
(* stream as it is, and the step that leaves it as the call does.          *)
(***************************************************************************)
StreamAt(sn, name) ==
    LET d == Place(devices, sn, "sn") IN devices[d].streams[Place(devices[d].streams, name, "name")]

StreamBecomes(sn, name, stream) ==
    LET d == Place(devices, sn, "sn")
        i == Place(devices[d].streams, name, "name")
    IN  /\ Running /\ d # 0 /\ i # 0
        /\ devices' = [devices EXCEPT ![d].streams[i] = stream]
        /\ UNCHANGED <<core, privates>>

StreamAddSource(sn, name, outcome) ==
    /\ StreamBecomes(sn, name, AddSource(StreamAt(sn, name), outcome))
    /\ fate' = IF Breaks(StreamAt(sn, name), outcome) THEN "broken" ELSE fate

StreamReleaseSource(sn, name) ==
    /\ StreamBecomes(sn, name, ReleaseSource(StreamAt(sn, name)))
    /\ StreamAt(sn, name).source # "none"
    /\ UNCHANGED fate

DeviceAddOutputToStream(sn, name, output, made, starts) ==
    /\ StreamBecomes(sn, name, AddOutput(StreamAt(sn, name), output, made, starts))
    /\ UNCHANGED fate

DeviceReleaseOutputFromStream(sn, name, output) ==
    /\ StreamBecomes(sn, name, ReleaseOutput(StreamAt(sn, name), output))
    /\ LET outputs == StreamAt(sn, name).outputs
           i == Place(outputs, output, "name")
       IN  fate' = IF i # 0 /\ ~outputs[i].tried THEN "hung" ELSE fate

(***************************************************************************)
(* mgw_device_release_stream, mgw_device_release and mgw_shutdown.  What   *)
(* hangs is not unlinked, and neither is what would come after it.         *)
(***************************************************************************)
DeviceReleaseStream(sn, name) ==
    LET d == Place(devices, sn, "sn")
        i == Place(devices[d].streams, name, "name")
    IN  /\ Running /\ d # 0 /\ i # 0
        /\ IF Hangs(devices[d].streams[i])
           THEN fate' = "hung" /\ UNCHANGED devices
           ELSE devices' = [devices EXCEPT ![d].streams = RemoveAt(@, i)] /\ UNCHANGED fate
        /\ UNCHANGED <<core, privates>>

DeviceRelease(sn) ==
    LET d == Place(devices, sn, "sn")
    IN  /\ Running /\ d # 0
        /\ IF HangsAny(devices[d].streams)
           THEN fate' = "hung" /\ UNCHANGED devices
           ELSE devices' = RemoveAt(devices, d) /\ UNCHANGED fate
        /\ UNCHANGED <<core, privates>>

Shutdown ==
    /\ Running
    /\ IF HangsAny(privates) \/ \E d \in DOMAIN devices : HangsAny(devices[d].streams)
       THEN fate' = "hung" /\ UNCHANGED <<core, devices, privates>>
       ELSE core' = "down" /\ devices' = <<>> /\ privates' = <<>> /\ UNCHANGED fate

CoreNext ==
    \/ Startup \/ Shutdown
    \/ \E outcome \in Outcomes : ResetAll(outcome)
    \/ \E sn \in Sns :
          \/ DeviceCreate(sn) \/ DeviceRelease(sn)
          \/ \E name \in StreamNames :
                \/ \E source \in BOOLEAN, outcome \in Outcomes, output \in OutputNames :
                      DeviceAddStream(sn, name, source, outcome, <<output>>)
                \/ \E outcome \in Outcomes : StreamAddSource(sn, name, outcome)
                \/ StreamReleaseSource(sn, name) \/ DeviceReleaseStream(sn, name)
                \/ \E output \in OutputNames :
                      \/ \E made, starts \in BOOLEAN :
                            DeviceAddOutputToStream(sn, name, output, made, starts)
                      \/ DeviceReleaseOutputFromStream(sn, name, output)

CoreSpec == CoreInit /\ [][CoreNext]_coreVars

----------------------------------------------------------------------------
AllStreams ==
    {privates[i] : i \in DOMAIN privates} \cup
    UNION {{devices[d].streams[i] : i \in DOMAIN devices[d].streams} : d \in DOMAIN devices}

IsOutputList(list) ==
    \A i \in DOMAIN list : list[i].name \in OutputNames /\ list[i].tried \in BOOLEAN

CoreTypeOK ==
    /\ core \in {"none", "up", "down"} /\ fate \in {"runs", "hung", "broken"}
    /\ Len(devices) <= MaxDevices
    /\ \A d \in DOMAIN devices : devices[d].sn \in Sns
    /\ \A s \in AllStreams : /\ s.name \in StreamNames /\ s.source \in Sources
                             /\ s.actived \in BOOLEAN
                             /\ IsOutputList(s.outputs) /\ IsOutputList(s.whitelist)

(***************************************************************************)
(* No stream has two outputs of one name, however it came to its outputs,  *)
(* waiting or started, before a source or after its loss: the name is the  *)
(* handle by which an output is released (mgw_stream_add_output).          *)
(***************************************************************************)
OutputsAreNamedOnce ==
    \A s \in AllStreams :
        LET names == [i \in 1 .. Len(s.outputs) + Len(s.whitelist) |->
                         (s.outputs \o s.whitelist)[i].name]
        IN  IsInjective(names)

(***************************************************************************)
(* An active stream has a source, and an output that was started was       *)
(* started in the list of started ones: what add_output tests before it    *)
(* starts one (mgw_stream_add_source, _release_source, _add_output).       *)
(***************************************************************************)
ActiveIsFed ==
    \A s \in AllStreams : /\ s.actived => s.source \in {"started", "private"}
                          /\ \A i \in DOMAIN s.whitelist : ~s.whitelist[i].tried

(***************************************************************************)
(* However a stream came to its source and its outputs, names tell its     *)
(* outputs apart and it runs only when it is fed.                          *)
(***************************************************************************)
StreamsAreSound == CoreTypeOK /\ OutputsAreNamedOnce /\ ActiveIsFed
=============================================================================
