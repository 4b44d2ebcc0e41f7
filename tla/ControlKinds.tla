------------------------------ MODULE ControlKinds ------------------------------
(***************************************************************************)
(* The messages of the control protocols as data: for every field of every  *)
(* message its kind, as strEncode writes and resDecode reads it.  A field   *)
(* is required unless its kind is wrapped in Optional (left out when there  *)
(* is no value) or Default (what the reader assumes when it is missing).    *)
(* "values" are the ones the model tries, the typical one first.            *)
(***************************************************************************)
EXTENDS ControlDetails, SequencesExt, FiniteSetsExt, TLC

CONSTANT MaxBatch       \* records of one batch, 64 in the code

ASSUME BatchAssumption == MaxBatch \in Nat \ {0}

MaxText == 1024
MaxMonitorText == 2048  \* of the observations a monitor gets
NoLimit == 100000
MaxBytes == 65535       \* MAX_MONITOR_BYTE_COUNT

-----------------------------------------------------------------------------
(* Scalars.                                                                *)

Tried(values) == [typical |-> values[1], values |-> ToSet(values)]
Text(least, most, values) == [is |-> "text", least |-> least, most |-> most] @@ Tried(values)
Name == Text(1, MaxText, <<7, 0, MaxText, MaxText + 1>>)
Words == Text(0, MaxText, <<7, 0, MaxText + 1>>)
MonitorName == Text(1, MaxMonitorText, <<7, 0, MaxText + 1, MaxMonitorText, MaxMonitorText + 1>>)
ErrorCode == Text(0, MaxText, <<0, 7, MaxText + 1>>)
Some == Text(1, NoLimit, <<7, 0>>)
Free == Text(0, NoLimit, <<7, 0>>)
NoCode == Text(0, NoLimit, <<0, 7>>)
Identifier == Text(1, 256, <<7, 0, 257>>)

Number(values) == [is |-> "number"] @@ Tried(values)
Count == Number(<<3, 0>>)
Total == Number(<<0, 3>>)
First == Number(<<1, 0, 2>>)
Flag == [is |-> "flag"] @@ Tried(<<TRUE, FALSE>>)
NotFlag == [is |-> "flag"] @@ Tried(<<FALSE, TRUE>>)
Hex(bytes, values) == [is |-> "hex", bytes |-> bytes] @@ Tried(values)
Chain == Hex(8, <<5, 0>>)
Block == Hex(BlockSize, <<1, 2>>)
Datagram == [is |-> "bytes"] @@ Tried(<<3, 0, 65507>>)
Enum(table, typical) ==
    [is |-> "name", table |-> table, typical |-> typical, values |-> DOMAIN table]

-----------------------------------------------------------------------------
(* Compounds.                                                              *)

Optional(kind) == [is |-> "optional", of |-> kind]
Default(kind, value) == [is |-> "default", of |-> kind, value |-> value]
MonitorWords ==
    Default(Text(0, MaxMonitorText, <<7, 0, MaxText + 1, MaxMonitorText, MaxMonitorText + 1>>), 0)

List(kind, least, most, sizes) ==
    [is |-> "list", of |-> kind, least |-> least, most |-> most, sizes |-> sizes, loose |-> FALSE]
\* The reader iterates without asking for an array: null is an empty list.
LooseList(kind) == [List(kind, 0, NoLimit, {2}) EXCEPT !.loose = TRUE]
Numbers(values) == List(Number(values), 0, NoLimit, {2})
Batch(kind, least) == List(kind, least, MaxBatch, {MaxBatch, MaxBatch + 1})

Object(rule, fields) ==
    [is |-> "object", rule |-> rule, fields |-> fields, never |-> {}, others |-> <<<<>>>>]
Other(object, override) == [object EXCEPT !.others = Append(@, override)]
Never(object, names) == [object EXCEPT !.never = names]
Variant(tag, typical, alternatives) ==
    [is |-> "variant", tag |-> tag, typical |-> typical, alternatives |-> alternatives]

Secrets == {"chainSeed", "originalSha256", "improvedTesla"}

\* A detail's constructor by the name of its rule.
Fits(rule, v) ==
    CASE rule = "any" -> TRUE
      [] rule = "improved" -> ImprovedFits(v)        [] rule = "round" -> RoundFits(v)
      [] rule = "chain" -> ChainFits(v)              [] rule = "context" -> ContextFits(v)
      [] rule = "text" -> TextFits(v)                [] rule = "begin" -> UploadBeginFits(v)
      [] rule = "end" -> UploadEndFits(v)            [] rule = "ack" -> AcknowledgementFits(v)
      [] rule = "start" -> StartFits(v)              [] rule = "scheduled" -> ScheduledFits(v)
      [] rule = "fileSender" -> FileSenderFits(v)    [] rule = "fileReceiver" -> FileReceiverFits(v)
      [] rule = "result" -> ResultFits(v)            [] rule = "loss" -> LossFits(v)
      [] rule = "disconnect" -> DisconnectFits(v)    [] rule = "delay" -> DelayFits(v)
      [] rule = "mapping" -> MappingFits(v)          [] rule = "groupFields" -> GroupFieldsFit(v)
      [] rule = "packet" -> PacketFits(v)            [] rule = "failure" -> FailureFits(v)
      [] rule = "group" -> GroupFits(v)              [] rule = "dos" -> DosFits(v)
      [] rule = "snapshot" -> SnapshotFits(v)        [] rule = "nativeSample" -> NativeSampleFits(v)
      [] rule = "improvedSample" -> ImprovedSampleFits(v)
      [] rule = "sample" -> SampleFits(v)            [] rule = "energy" -> EnergyFits(v)
      [] rule = "cost" -> CostFits(v)                [] rule = "archive" -> ArchiveFits(v)
      [] rule = "configuration" -> ArchivedConfigurationFits(v)
      [] rule = "archivedReceiver" -> ArchivedReceiverFits(v)
      [] rule = "attackContext" -> AttackContextFits(v)
      [] rule = "tamper" -> TamperFits(v)            [] rule = "replay" -> ReplayFits(v)
      [] rule = "dosPlan" -> DosPlanFits(v)          [] rule = "planAck" -> PlanAcknowledgementFits(v)
      [] rule = "attackReady" -> AttackReadyFits(v)  [] rule = "attackStart" -> AttackStartFits(v)
      [] rule = "attackStop" -> AttackStopFits(v)    [] rule = "presence" -> PresenceFits(v)

-----------------------------------------------------------------------------
(* The enumerations and their names on the wire.                           *)

ClientRoles == [Manager |-> "MANAGER", Monitor |-> "MONITOR"]
Algorithms == [Sha256 |-> "SHA256", Sm3 |-> "SM3", Sha3_256 |-> "SHA3_256"]
ConfigTargets == [Sender |-> "SENDER", Receiver |-> "RECEIVER", TextPayload |-> "TEXT_PAYLOAD",
                  FilePayload |-> "FILE_PAYLOAD"]
PayloadModes == [Text |-> "TEXT", File |-> "FILE"]
RoundCommands == [Start |-> "START", Pause |-> "PAUSE", Resume |-> "RESUME", Stop |-> "STOP"]
ResultRoles == [Sender |-> "SENDER", Receiver |-> "RECEIVER"]
ResultStatuses ==
    [Completed |-> "COMPLETED", AuthenticationFailed |-> "AUTHENTICATION_FAILED",
     VerificationTimeout |-> "VERIFICATION_TIMEOUT",
     InvalidSchedulingOverrun |-> "INVALID_SCHEDULING_OVERRUN", Stopped |-> "STOPPED",
     ProtocolIncomplete |-> "PROTOCOL_INCOMPLETE", TimeUnsynchronized |-> "TIME_UNSYNCHRONIZED"]
Directions == [Tx |-> "TX", Rx |-> "RX"]
SourceTypes == [NormalSender |-> "NORMAL_SENDER", AttackInjection |-> "ATTACK_INJECTION",
                UnknownSource |-> "UNKNOWN_SOURCE"]
PacketStatuses == [Generated |-> "GENERATED", Pending |-> "PENDING", Passed |-> "PASS",
                   Failed |-> "FAIL"]
FailureTypes ==
    [MacFailed |-> "MAC_FAILED", TamperedVariant |-> "TAMPERED_VARIANT",
     FastGroupFailed |-> "FAST_GROUP_FAILED", GroupTauFailed |-> "GROUP_TAU_FAILED",
     DetectionThresholdExceeded |-> "DETECTION_THRESHOLD_EXCEEDED",
     ReplayDuplicate |-> "REPLAY_DUPLICATE", ReplayLate |-> "REPLAY_LATE",
     ReplayExpiredChain |-> "REPLAY_EXPIRED_CHAIN", MissingPacket |-> "MISSING_PACKET",
     IncompleteGroupTags |-> "INCOMPLETE_GROUP_TAGS",
     UnverifiableMissingBaseline |-> "UNVERIFIABLE_MISSING_BASELINE",
     UnknownContext |-> "UNKNOWN_CONTEXT", ProtocolError |-> "PROTOCOL_ERROR",
     InvalidSchedulingOverrun |-> "INVALID_SCHEDULING_OVERRUN",
     AbnormalRecordLimitReached |-> "ABNORMAL_RECORD_LIMIT_REACHED"]
Severities == [Information |-> "INFO", Warning |-> "WARNING", Error |-> "ERROR"]
GroupPaths == [FastGroupPass |-> "FAST_GROUP_PASS", KsRsFallback |-> "KS_RS_FALLBACK",
               IncompleteGroupTags |-> "INCOMPLETE_GROUP_TAGS"]
CounterStatuses == [Supported |-> "SUPPORTED", NotSupported |-> "NOT_SUPPORTED",
                    PermissionDenied |-> "PERMISSION_DENIED", ReadFailed |-> "READ_FAILED"]
MetricPaths == [NativePacketVerify |-> "NATIVE_PACKET_VERIFY", FastGroupPass |-> "FAST_GROUP_PASS",
                KsRsFallback |-> "KS_RS_FALLBACK", IncompleteGroupTags |-> "INCOMPLETE_GROUP_TAGS"]
Modes == [Native |-> "NATIVE", Improved |-> "IMPROVED"]
MappingActions == [Install |-> "INSTALL", Clear |-> "CLEAR"]
AttackStates ==
    [Idle |-> "IDLE", ContextReady |-> "CONTEXT_READY", PlanPending |-> "PLAN_PENDING",
     Ready |-> "READY", Scheduled |-> "SCHEDULED", Running |-> "RUNNING",
     Completed |-> "COMPLETED", Stopped |-> "STOPPED", Failed |-> "FAILED"]
AttackAlgorithms == [Sha256 |-> "SHA-256", Sm3 |-> "SM3", Sha3_256 |-> "SHA3-256"]
DosTargets == [Internal |-> "TESLA_INTERNAL_MULTICAST"]
NodeRoles == [PcBroadcast |-> "PC_BROADCAST", Uav |-> "UAV", Attacker |-> "ATTACKER"]

-----------------------------------------------------------------------------
(* Parts of the node messages.                                             *)

RoundFields ==
    [cryptoAlgorithm |-> Enum(Algorithms, "Sm3"), totalPacketCount |-> Count,
     packetsPerInterval |-> Count, disclosureDelay |-> Count, intervalMs |-> Count,
     startTimestampMs |-> Count, chainLength |-> Number(<<4, 1, 2>>),
     payloadMode |-> Default(Enum(PayloadModes, "Text"), "Text")]
\* Only an improved round has improved values, and it must have them.
RoundKind ==
    LET improved == Object("improved", [groupSize |-> Count, detectionThreshold |-> First])
    IN  Variant("authMode", "NATIVE",
            [NATIVE   |-> Never(Object("round", RoundFields), {"improvedTesla"}),
             IMPROVED |-> Object("round", [improvedTesla |-> improved] @@ RoundFields)])

\* A receiver is told how much to expect, never the file's hash.
ReceiverPayloadKind ==
    Variant("type", "TEXT",
        [TEXT |-> Object("any", [repeatCount |-> Count]),
         FILE |-> Never(Object("any", [originalByteCount |-> Number(<<3 * BlockSize, 0>>)]),
                        {"originalSha256"})])

ResultDetailsKind ==
    LET received == [originalByteCount |-> Count, recoveredByteCount |-> Count,
                     recoveredSha256 |-> Optional(Block)]
    IN  Variant("type", "TEXT",
            [TEXT          |-> Object("any", [recoveredText |-> Default(Words, 0)]),
             FILE_SENDER   |-> Object("fileSender", [originalByteCount |-> Count]),
             FILE_RECEIVER |-> Object("fileReceiver", received)])

PacketPayloadKind ==
    LET improved == Object("groupFields", [samdTau |-> LooseList(Block), fastGroupTag |-> Optional(Block)])
        mode == Variant("type", "NATIVE", [NATIVE |-> Object("any", [packetMac |-> Block]),
                                           IMPROVED |-> improved])
    IN  Variant("type", "DATA",
            [DISCLOSE |-> Object("any", [disclosedKey |-> Block]),
             DATA     |-> Object("any", [message |-> Block, disclosedKey |-> Optional(Block),
                                         modeDetails |-> mode])])

PacketKind ==
    LET tail == [packetIndex |-> 0, payloadDetails |-> [type |-> "DISCLOSE", disclosedKey |-> 1]]
    IN  Other(Object("packet",
            [eventId |-> Count, timestampMs |-> Count, roundId |-> MonitorName,
             senderId |-> MonitorName, senderIp |-> MonitorWords,
             actualSourceIp |-> MonitorWords, peer |-> MonitorName,
             direction |-> Enum(Directions, "Rx"), sourceType |-> Enum(SourceTypes, "NormalSender"),
             chainId |-> Chain, intervalIndex |-> Count, packetIndex |-> Count,
             packetsPerInterval |-> Count, disclosureDelay |-> Count,
             cryptoAlgorithm |-> Enum(Algorithms, "Sm3"), authMode |-> Enum(Modes, "Native"),
             status |-> Enum(PacketStatuses, "Pending"), candidateHash |-> MonitorName,
             duplicateCount |-> Count, reason |-> MonitorWords,
             payloadDetails |-> PacketPayloadKind, rawDatagram |-> Datagram]), tail)

FailureKind ==
    Object("failure",
        [eventId |-> Count, packetEventId |-> Default(Count, 0), timestampMs |-> Count,
         severity |-> Enum(Severities, "Error"), failureType |-> Enum(FailureTypes, "MacFailed"),
         roundId |-> MonitorWords, senderId |-> MonitorWords,
         senderIp |-> MonitorWords, actualSourceIp |-> MonitorWords,
         chainId |-> Default(Chain, 0), intervalIndex |-> Default(Count, 0),
         packetIndex |-> Default(Count, 0), groupIndex |-> Optional(Count),
         candidateHash |-> MonitorWords, reason |-> MonitorName,
         receivedTagDigest |-> MonitorWords, calculatedTagDigest |-> MonitorWords,
         locatedPacketIndexes |-> Default(Numbers(<<2>>), <<>>), duplicateCount |-> Default(Count, 1)])

-----------------------------------------------------------------------------
(* Metric records.                                                         *)

HardwareKind ==
    Object("any", [status |-> Enum(CounterStatuses, "Supported"), cpuCycles |-> Default(Count, 0),
                   cacheReferences |-> Default(Count, 0), cacheMisses |-> Default(Count, 0)])

MetricIdentity == [timestampMs |-> Count, roundId |-> Some, senderId |-> Some, chainId |-> Chain]

SampleKind ==
    LET native   == [intervalIndex |-> Count, packetIndex |-> Count]
        improved == [groupIndex |-> Count, firstPacketIndex |-> Number(<<1, 0>>),
                     lastPacketIndex |-> Count, verificationPath |-> Enum(MetricPaths, "FastGroupPass")]
    IN  Object("sample",
            [eventId |-> Count, packetCount |-> Count, durationNs |-> Total, hardware |-> HardwareKind,
             details |-> Variant("type", "NATIVE", [NATIVE   |-> Object("nativeSample", native),
                                                    IMPROVED |-> Object("improvedSample", improved)])]
            @@ MetricIdentity)

EnergyKind ==
    LET improved == [fastGroupCount |-> Total, fallbackGroupCount |-> Total,
                     incompleteGroupCount |-> Total]
    IN  Object("energy",
            [packetCount |-> Count, verifyTimeNs |-> Total, receivedAuthBytes |-> Total,
             estimatedEnergyMicroJoule |-> Total, normalComparisonEligible |-> Flag,
             details |-> Variant("type", "NATIVE",
                            [NATIVE   |-> Object("any", [verifiedPacketCount |-> Count]),
                             IMPROVED |-> Object("any", improved)])]
            @@ MetricIdentity)

ArchiveConfigurationKind ==
    Other(Object("configuration",
        [mode |-> Enum(Modes, "Native"), cryptoAlgorithm |-> Some, payloadHash |-> Free,
         packetCount |-> Count, packetsPerInterval |-> Count, intervalMs |-> Count,
         disclosureDelay |-> Count, groupSize |-> Total, detectionThreshold |-> Total]),
        [mode |-> "Improved", groupSize |-> 3, detectionThreshold |-> 1])

ArchiveDetailsKind ==
    LET sender   == [sentPackets |-> Count, configuredFault |-> Some, configuredFaultValue |-> Free,
                     randomSeed |-> Total, fileSize |-> Total]
        receiver == [receivedPackets |-> Count, authenticatedPackets |-> Count,
                     failedPackets |-> Total, missingPackets |-> Total, fallbackGroupCount |-> Total,
                     verifyTimeNs |-> Total, receivedAuthBytes |-> Total,
                     estimatedEnergyMicroJoule |-> Total, fileSize |-> Count,
                     recoveredFileSize |-> Number(<<3, 0, 4>>), recoveredFileHash |-> Free]
    IN  Variant("type", "RECEIVER", [SENDER   |-> Object("any", sender),
                                     RECEIVER |-> Object("archivedReceiver", receiver)])

ArchiveKind ==
    Other(Object("archive",
        [timestampMs |-> Count, experimentId |-> Some, runId |-> Some, gitCommit |-> Some,
         nodeId |-> Some, senderId |-> Some, chainId |-> Chain,
         configuration |-> ArchiveConfigurationKind, roundStatus |-> Some, validSample |-> Flag,
         invalidReason |-> NoCode, details |-> ArchiveDetailsKind]),
        [validSample |-> FALSE, invalidReason |-> 7])

CostKind ==
    LET bytes    == [messageBytes |-> Total, keyBytes |-> Total]
        native   == [macBytes |-> Total] @@ bytes
        improved == [tauBytes |-> Total, fastGroupTagBytes |-> Total] @@ bytes
    IN  Object("cost",
            [details |-> Variant("type", "NATIVE", [NATIVE   |-> Object("any", native),
                                                    IMPROVED |-> Object("any", improved)])]
            @@ MetricIdentity)

RecordKind ==
    Variant("recordType", "VERIFICATION_SAMPLE",
        [VERIFICATION_SAMPLE |-> SampleKind, ESTIMATED_ENERGY_SUMMARY |-> EnergyKind,
         ROUND_ARCHIVE_SUMMARY |-> ArchiveKind, COMMUNICATION_COST_SUMMARY |-> CostKind])

-----------------------------------------------------------------------------
(* The node protocol.                                                      *)

RequestKind == Object("any", [requestId |-> Name])
StatusKind == Object("any", [requestId |-> Name, nodeName |-> Name, senderRunning |-> Flag,
                             receiverRunning |-> Flag, timestampMs |-> Count])
SenderConfigKind ==
    Object("chain", [requestId |-> Name, senderId |-> Name, chainId |-> Chain, chainSeed |-> Block,
                     commitmentKey |-> Block, round |-> RoundKind])

ContextsKind ==
    LET context == Object("context",
            [senderId |-> Name, senderIp |-> Name, chainId |-> Chain, commitmentKey |-> Block,
             round |-> RoundKind, payloadDetails |-> ReceiverPayloadKind])
        file    == [payloadDetails |-> [type |-> "FILE", originalByteCount |-> 3 * BlockSize - 1],
                    round |-> [authMode |-> "NATIVE", cryptoAlgorithm |-> "Sm3",
                               totalPacketCount |-> 3, packetsPerInterval |-> 3,
                               disclosureDelay |-> 3, intervalMs |-> 3, startTimestampMs |-> 3,
                               chainLength |-> 4, payloadMode |-> "File"]]
    IN  Object("any", [requestId |-> Name,
                       contexts |-> List(Never(Other(context, file), {"chainSeed"}), 1, NoLimit, {2})])

TextPayloadKind ==
    Object("text", [requestId |-> Name, chainId |-> Chain,
                    text |-> Text(1, BlockSize, <<7, 0, BlockSize, BlockSize + 1>>)])
UploadBeginKind ==
    Object("begin", [requestId |-> Name, chainId |-> Chain, originalByteCount |-> Count])
UploadEndKind ==
    Object("end", [requestId |-> Name, chainId |-> Chain, chunkCount |-> Count,
                   transferredByteCount |-> Count])
ConfigAckKind ==
    Other(Object("ack", [requestId |-> Name, target |-> Enum(ConfigTargets, "Sender"),
                         accepted |-> Flag, errorCode |-> ErrorCode, message |-> Name]),
          [accepted |-> FALSE, errorCode |-> 7])

FaultKind ==
    LET common == [requestId |-> Name, roundId |-> Name, targetSenderId |-> Name, chainId |-> Chain]
    IN  Variant("faultType", "PACKET_LOSS",
            [PACKET_LOSS |-> Object("loss",
                 [lossRatePercent |-> Number(<<30, 0, 100, 101>>), randomSeed |-> Count,
                  protectedGroupSize |-> Count] @@ common),
             LOGICAL_DISCONNECT |-> Object("disconnect",
                 [startPacketIndex |-> Count, durationMs |-> Count, protectedGroupSize |-> Count]
                 @@ common),
             FIXED_DELAY |-> Object("delay", [delayMs |-> Number(<<0, 10000, 10001>>)] @@ common)])

\* Texts of one length are the same text: 8 is the target's address.
MappingKind ==
    Object("mapping",
        [requestId |-> Name, roundId |-> Name, action |-> Enum(MappingActions, "Clear"),
         targetSenderId |-> Name, targetSenderIp |-> Text(1, MaxText, <<8, 0, 9>>),
         attackSourceIp |-> Text(1, MaxText, <<9, 0, 8>>), chainId |-> Chain,
         expiresAtMs |-> Total])
ExperimentAckKind ==
    Other(Object("ack", [requestId |-> Name, roundId |-> Name, accepted |-> Flag,
                         errorCode |-> NoCode, message |-> Name]),
          [accepted |-> FALSE, errorCode |-> 7])

\* A stop is not scheduled.
StopKind == Object("any", [requestId |-> Name, roundId |-> Name])
ScheduledKind(rule) ==
    Object(rule, [executionTimestampMs |-> Count, logicalIntervalIndex |-> First] @@ StopKind.fields)

RoundAckKind ==
    Other(Object("ack", [requestId |-> Name, roundId |-> Name,
                         command |-> Enum(RoundCommands, "Start"), accepted |-> Flag,
                         errorCode |-> ErrorCode, message |-> Name]),
          [accepted |-> FALSE, errorCode |-> 7])

ResultKind ==
    Other(Object("result",
        [roundId |-> Name, senderId |-> Name, chainId |-> Chain,
         role |-> Enum(ResultRoles, "Receiver"), status |-> Enum(ResultStatuses, "Completed"),
         expectedPacketCount |-> Number(<<3, 0, 2>>), receivedPacketCount |-> Number(<<2, 0, 3, 4>>),
         authenticatedPacketCount |-> Number(<<1, 0, 2, 3>>), failedPacketCount |-> Number(<<0, 2, 3>>),
         missingPacketCount |-> Number(<<1, 3, 4>>), payloadDetails |-> ResultDetailsKind,
         message |-> Name]),
        [role |-> "Sender"])

GroupKind ==
    LET step == Object("any", [stepIndex |-> Count, operation |-> MonitorName,
                               newGoodPacketIndexes |-> Default(Numbers(<<2>>), <<>>),
                               remainingCandidateIndexes |-> Default(Numbers(<<2>>), <<>>)])
    IN  Object("group",
            [eventId |-> Count, timestampMs |-> Count, roundId |-> MonitorName,
             senderId |-> MonitorName, chainId |-> Chain, groupIndex |-> Count,
             firstPacketIndex |-> First, lastPacketIndex |-> First, detectionThreshold |-> Count,
             verificationPath |-> Enum(GroupPaths, "KsRsFallback"), fastGroupTagMatched |-> NotFlag,
             detectionThresholdExceeded |-> NotFlag,
             locatedPacketIndexes |-> Default(Numbers(<<2>>), <<>>),
             locationSteps |-> LooseList(step)])

DosKind ==
    Object("dos", [timestampMs |-> Count, windowMs |-> Count, invalidPacketCount |-> Total,
                   rateLimitedDropCount |-> Total, legitimatePacketCount |-> Total,
                   receiveQueueOverflowCount |-> Total])
MetricEventKind == Object("any", [records |-> Batch(RecordKind, 1)])
AbnormalSnapshotKind ==
    Object("snapshot", [requestId |-> MonitorName, sequence |-> First, finalBatch |-> Flag,
                        packetEvents |-> Batch(PacketKind, 0), failureEvents |-> Batch(FailureKind, 0)])
MetricSnapshotKind ==
    Object("snapshot", [requestId |-> Some, sequence |-> First, finalBatch |-> Flag,
                        records |-> Batch(RecordKind, 0)])
ErrorKind ==
    Object("any", [requestId |-> Default(Words, 0), errorCode |-> Name, message |-> Name])

NodeMessages ==
    [CLIENT_HELLO |-> Object("any", [role |-> Enum(ClientRoles, "Manager")]),
     PING |-> RequestKind, PONG |-> RequestKind, STATUS_REQUEST |-> RequestKind,
     STATUS_RESPONSE |-> StatusKind, SENDER_AUTH_CONFIG |-> SenderConfigKind,
     RECEIVER_AUTH_CONTEXTS |-> ContextsKind, TEXT_PAYLOAD |-> TextPayloadKind,
     FILE_UPLOAD_BEGIN |-> UploadBeginKind, FILE_UPLOAD_END |-> UploadEndKind,
     AUTH_CONFIG_ACK |-> ConfigAckKind, FAULT_INJECTION_CONFIG |-> FaultKind,
     ATTACK_SOURCE_MAPPING |-> MappingKind, EXPERIMENT_CONTROL_ACK |-> ExperimentAckKind,
     ROUND_START |-> ScheduledKind("start"), ROUND_PAUSE |-> ScheduledKind("scheduled"),
     ROUND_RESUME |-> ScheduledKind("scheduled"), ROUND_STOP |-> StopKind,
     ROUND_COMMAND_ACK |-> RoundAckKind, ROUND_RESULT |-> ResultKind,
     PACKET_OBSERVATION_EVENT |-> PacketKind, PACKET_FAILURE_EVENT |-> FailureKind,
     IMPROVED_GROUP_OBSERVATION_EVENT |-> GroupKind, DOS_SUMMARY_EVENT |-> DosKind,
     METRIC_EVENT |-> MetricEventKind, ABNORMAL_EVENT_SNAPSHOT_REQUEST |-> RequestKind,
     ABNORMAL_EVENT_SNAPSHOT |-> AbnormalSnapshotKind, METRIC_SNAPSHOT_REQUEST |-> RequestKind,
     METRIC_SNAPSHOT |-> MetricSnapshotKind, ERROR |-> ErrorKind]

-----------------------------------------------------------------------------
(* The attack protocol: chains are plain numbers.                          *)

AttackStatusKind ==
    Object("any", [requestId |-> Some, nodeName |-> Some, multicastListening |-> Flag,
                   executionState |-> Enum(AttackStates, "Idle"), timestampMs |-> Count])

AttackContextKind ==
    Other(Object("attackContext",
        [requestId |-> Some, roundId |-> Some, targetSenderId |-> Some, targetSenderIp |-> Some,
         chainId |-> Count, cryptoAlgorithm |-> Enum(AttackAlgorithms, "Sm3"),
         authenticationMode |-> Enum(Modes, "Native"), dataPacketCount |-> Count,
         packetsPerInterval |-> Count, intervalMs |-> Count, disclosureDelay |-> Count,
         startTimestampMs |-> Total, groupSize |-> Total, detectionThreshold |-> Number(<<0, 3, 4>>),
         tauCount |-> Total]),
        [authenticationMode |-> "Improved", groupSize |-> 3, detectionThreshold |-> 1,
         tauCount |-> 5])

\* Only the attacks that capture packets need the target's sender and chain.
PlanKind ==
    LET common == [attackId |-> Count, roundId |-> Some, targetSenderId |-> Default(Free, 0),
                   chainId |-> Default(Count, 0)]
        repeated == [packetIndexes |-> Numbers(<<2, 0>>), repeatCount |-> Number(<<1, 0, 2, 1000, 1001>>)]
    IN  Variant("attackType", "TAMPER",
            [TAMPER |-> Object("tamper", [messageByteOffset |-> Number(<<0, 31, 32>>),
                                          xorMask |-> Count] @@ repeated @@ common),
             REPLAY |-> Object("replay", [replayDelayMs |-> Count, repeatGapMs |-> Count]
                                         @@ repeated @@ common),
             DOS    |-> Object("dosPlan",
                            [targetMulticast |-> Enum(DosTargets, "Internal"),
                             ratePps |-> Number(<<1, 0, 20000, 20001>>),
                             durationMs |-> Number(<<1, 0, 60000, 60001>>),
                             packetBytes |-> Number(<<1, 0, 1472, 1473>>)] @@ common)])

PlanAckKind ==
    Other(Object("planAck", [attackId |-> Count, roundId |-> Some, accepted |-> Flag,
                             errorCode |-> Default(NoCode, 0), message |-> Some]),
          [accepted |-> FALSE, errorCode |-> 7])
AttackReadyKind == Object("attackReady", [attackId |-> Count, roundId |-> Some, timestampMs |-> Count])
AttackCommandKind(rule) ==
    Object(rule, [attackId |-> Count, roundId |-> Some, executionTimestampMs |-> Default(Count, 0)])

ExecutionKind ==
    LET common == [attackId |-> Count, roundId |-> Some, executionState |-> Enum(AttackStates, "Running"),
                   sendErrors |-> Total, timestampMs |-> Count, message |-> Some]
    IN  Variant("attackType", "TAMPER",
            [TAMPER |-> Object("attackReady", [capturedPackets |-> Total, injectedPackets |-> Total,
                                               lastInjectionDelayUs |-> Total] @@ common),
             REPLAY |-> Object("attackReady", [capturedPackets |-> Total, replayedPackets |-> Total]
                                              @@ common),
             DOS    |-> Object("attackReady", [sentPackets |-> Total, sentBytes |-> Total,
                                               actualPps |-> Total] @@ common)])
AttackErrorKind ==
    Object("any", [requestId |-> Default(Free, 0), errorCode |-> Some, message |-> Some])

AttackMessages ==
    LET request == Object("any", [requestId |-> Some])
    IN  [ATTACK_CLIENT_HELLO |-> Object("any", [clientName |-> Some]),
         ATTACK_PING |-> request, ATTACK_PONG |-> request, ATTACK_STATUS_REQUEST |-> request,
         ATTACK_STATUS_RESPONSE |-> AttackStatusKind, ATTACK_ROUND_CONTEXT |-> AttackContextKind,
         ATTACK_PLAN |-> PlanKind, ATTACK_PLAN_ACCEPTED |-> PlanAckKind,
         ATTACK_READY |-> AttackReadyKind, ROUND_START |-> AttackCommandKind("attackStart"),
         ATTACK_STOP |-> AttackCommandKind("attackStop"),
         ATTACK_EMERGENCY_STOP |-> AttackCommandKind("attackStop"),
         ATTACK_STATUS |-> ExecutionKind, ATTACK_ERROR |-> AttackErrorKind]

-----------------------------------------------------------------------------
(* The discovery protocol.                                                 *)

PresenceKind ==
    Object("presence",
        [requestId |-> Text(0, 256, <<0, 7, 257>>), nodeName |-> Identifier,
         nodeRole |-> Enum(NodeRoles, "Uav"), managementPort |-> Number(<<9000, 0, 65535, 65536>>),
         senderRunning |-> Flag, receiverRunning |-> Flag, timestampMs |-> Count])
DiscoveryMessages ==
    [DISCOVER_REQUEST |-> Object("any", [requestId |-> Identifier]),
     NODE_ANNOUNCEMENT |-> PresenceKind, HEARTBEAT |-> PresenceKind]

Protocols ==
    [node      |-> Variant("type", "PING", NodeMessages),
     attack    |-> Variant("type", "ATTACK_PING", AttackMessages),
     discovery |-> Variant("type", "HEARTBEAT", DiscoveryMessages)]
=============================================================================
