----------------------------- MODULE ControlDetails -----------------------------
(***************************************************************************)
(* What the constructors of the control-message details accept.  A message  *)
(* that breaks its rule cannot be built: the sender's constructor throws,   *)
(* and so does the reader's, which turns the message into a decode error.   *)
(* A text is its number of bytes, a chain its number (0 is no chain).       *)
(***************************************************************************)
EXTENDS Integers, Sequences

BlockSize == 32                 \* BINARY_BLOCK_SIZE
Positive(values) == \A k \in 1 .. Len(values) : values[k] > 0
BlocksFor(bytes) == (bytes + BlockSize - 1) \div BlockSize

-----------------------------------------------------------------------------
(* AuthenticationControl.cpp                                               *)

ImprovedFits(improved) == Positive(<<improved.groupSize, improved.detectionThreshold>>)

RoundFits(round) ==
    /\ Positive(<<round.totalPacketCount, round.packetsPerInterval, round.disclosureDelay,
                  round.intervalMs>>)
    /\ round.chainLength >= 2

ChainFits(details) == details.chainId > 0

\* A text is repeated in every packet; a file needs one packet for each block.
ContextFits(context) ==
    /\ context.chainId > 0
    /\ LET payload == context.payloadDetails
           packets == context.round.totalPacketCount
       IN  IF payload.type = "TEXT"
           THEN /\ context.round.payloadMode = "Text"
                /\ payload.repeatCount > 0 /\ payload.repeatCount = packets
           ELSE /\ context.round.payloadMode = "File"
                /\ payload.originalByteCount > 0
                /\ BlocksFor(payload.originalByteCount) = packets

\* The lengths of a text payload are those of one block.
TextFits(payload) == payload.chainId > 0
UploadBeginFits(upload) == Positive(<<upload.chainId, upload.originalByteCount>>)
UploadEndFits(upload) ==
    Positive(<<upload.chainId, upload.chunkCount, upload.transferredByteCount>>)

\* Every acknowledgement has an error code exactly when it refuses.
AcknowledgementFits(acknowledgement) ==
    acknowledgement.accepted <=> acknowledgement.errorCode = 0

StartFits(command) ==
    command.executionTimestampMs > 0 /\ command.logicalIntervalIndex = 1
ScheduledFits(command) == Positive(<<command.executionTimestampMs, command.logicalIntervalIndex>>)

FileSenderFits(details) == details.originalByteCount > 0
FileReceiverFits(details) ==
    /\ details.originalByteCount > 0
    /\ details.recoveredByteCount > 0 <=> "recoveredSha256" \in DOMAIN details

CountsFit(expected, received, authenticated, failed, missing) ==
    /\ expected > 0
    /\ received <= expected /\ authenticated <= received
    /\ failed <= received /\ missing <= expected

ResultFits(result) ==
    /\ result.chainId > 0
    /\ CountsFit(result.expectedPacketCount, result.receivedPacketCount,
                 result.authenticatedPacketCount, result.failedPacketCount,
                 result.missingPacketCount)
    /\ result.role = "Sender" => result.payloadDetails.type # "FILE_RECEIVER"
    /\ result.role = "Receiver" => result.payloadDetails.type # "FILE_SENDER"

-----------------------------------------------------------------------------
(* ExperimentControl.cpp: rates are per cent.                              *)

LossFits(fault) ==
    /\ fault.chainId > 0 /\ fault.lossRatePercent \in 0 .. 100
    /\ Positive(<<fault.randomSeed, fault.protectedGroupSize>>)
DisconnectFits(fault) ==
    Positive(<<fault.chainId, fault.startPacketIndex, fault.durationMs, fault.protectedGroupSize>>)
DelayFits(fault) == fault.chainId > 0 /\ fault.delayMs <= 10000

MappingFits(mapping) ==
    /\ mapping.targetSenderIp # mapping.attackSourceIp /\ mapping.chainId > 0
    /\ mapping.action = "Install" => mapping.expiresAtMs > 0

-----------------------------------------------------------------------------
(* MonitorControl.cpp and MetricControl.cpp                                *)

\* The tags of a group are on one packet, the fast tag with them.
GroupFieldsFit(mode) == (mode.samdTau # <<>>) <=> "fastGroupTag" \in DOMAIN mode

PacketFits(packet) ==
    /\ Positive(<<packet.eventId, packet.timestampMs, packet.chainId, packet.intervalIndex,
                  packet.packetsPerInterval, packet.disclosureDelay, packet.duplicateCount,
                  packet.rawDatagram>>)
    /\ packet.payloadDetails.type = "DATA" <=> packet.packetIndex # 0

FailureFits(failure) ==
    Positive(<<failure.eventId, failure.timestampMs, failure.duplicateCount>>)

GroupFits(group) ==
    /\ Positive(<<group.eventId, group.timestampMs, group.chainId, group.groupIndex,
                  group.firstPacketIndex, group.detectionThreshold>>)
    /\ group.firstPacketIndex <= group.lastPacketIndex
    /\ group.verificationPath = "FastGroupPass" =>
           group.locatedPacketIndexes = <<>> /\ group.locationSteps = <<>>

DosFits(summary) == Positive(<<summary.timestampMs, summary.windowMs>>)
SnapshotFits(snapshot) == snapshot.sequence > 0

-----------------------------------------------------------------------------
(* AuthenticationMetrics.cpp                                               *)

NativeSampleFits(details) == Positive(<<details.intervalIndex, details.packetIndex>>)
ImprovedSampleFits(details) ==
    /\ Positive(<<details.groupIndex, details.firstPacketIndex>>)
    /\ details.firstPacketIndex <= details.lastPacketIndex
    /\ details.verificationPath # "NativePacketVerify"
SampleFits(sample) == Positive(<<sample.packetCount, sample.eventId, sample.timestampMs>>)
EnergyFits(summary) == Positive(<<summary.packetCount, summary.timestampMs>>)
CostFits(summary) == summary.timestampMs > 0

ArchivedConfigurationFits(configuration) ==
    /\ Positive(<<configuration.packetCount, configuration.packetsPerInterval,
                  configuration.intervalMs, configuration.disclosureDelay>>)
    /\ LET group == {configuration.groupSize, configuration.detectionThreshold}
       IN  IF configuration.mode = "Native" THEN group = {0} ELSE 0 \notin group
ArchivedReceiverFits(details) == details.recoveredFileSize <= details.fileSize
ArchiveFits(summary) ==
    /\ summary.timestampMs > 0
    /\ summary.validSample <=> summary.invalidReason = 0

-----------------------------------------------------------------------------
(* AttackControl.cpp                                                       *)

AttackContextFits(context) ==
    /\ Positive(<<context.chainId, context.dataPacketCount, context.packetsPerInterval,
                  context.intervalMs, context.disclosureDelay>>)
    /\ IF context.authenticationMode = "Native"
       THEN {context.groupSize, context.detectionThreshold, context.tauCount} = {0}
       ELSE /\ Positive(<<context.groupSize, context.detectionThreshold, context.tauCount>>)
            /\ context.detectionThreshold <= context.groupSize

IndexesFit(indexes) ==
    /\ indexes # <<>> /\ Positive(indexes)
    /\ \A j, k \in 1 .. Len(indexes) : indexes[j] = indexes[k] => j = k
CaptureFits(plan) ==
    /\ Positive(<<plan.attackId, plan.targetSenderId, plan.chainId>>)
    /\ IndexesFit(plan.packetIndexes) /\ plan.repeatCount \in 1 .. 1000
TamperFits(plan) == CaptureFits(plan) /\ plan.messageByteOffset < 32 /\ plan.xorMask > 0
ReplayFits(plan) ==
    /\ CaptureFits(plan) /\ plan.replayDelayMs > 0
    /\ plan.repeatCount > 1 => plan.repeatGapMs > 0
DosPlanFits(plan) ==
    /\ plan.attackId > 0 /\ plan.ratePps \in 1 .. 20000
    /\ plan.durationMs \in 1 .. 60000 /\ plan.packetBytes \in 1 .. 1472

PlanAcknowledgementFits(details) == details.attackId > 0 /\ AcknowledgementFits(details)
AttackReadyFits(details) == Positive(<<details.attackId, details.timestampMs>>)
AttackStartFits(command) == Positive(<<command.attackId, command.executionTimestampMs>>)
AttackStopFits(command) == command.attackId > 0

-----------------------------------------------------------------------------
(* NodeDiscoveryMessage.cpp                                                *)

PresenceFits(presence) == presence.managementPort \in 1 .. 65535
=============================================================================
