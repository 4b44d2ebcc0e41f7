------------------------------ MODULE FileUpload ------------------------------
(***************************************************************************)
(* FileUploadSession, the upload of one manager connection, as operators   *)
(* on its record; ManagementServer and PcNode keep one per connection.     *)
(* Sizes are counted in units of which a full chunk (64 KiB) has           *)
(* ChunkSize.  A unit is named by its position in the file it comes from.  *)
(***************************************************************************)
EXTENDS Integers, Sequences

CONSTANTS
    ChunkSize,    \* MAXIMUM_CHUNK_SIZE
    MaxFileSize   \* FileWorkload::MAXIMUM_FILE_SIZE

ASSUME UploadParameters == ChunkSize \in Nat \ {0} /\ MaxFileSize \in Nat \ {0}

NoUpload == [active |-> FALSE, request |-> 0, chain |-> 0, size |-> 0, next |-> 1,
             bytes |-> <<>>]

BeginValid(upload, chain, size) ==
    ~upload.active /\ chain # 0 /\ size \in 1 .. MaxFileSize

Begun(request, chain, size) ==
    [active |-> TRUE, request |-> request, chain |-> chain, size |-> size, next |-> 1,
     bytes |-> <<>>]

Lesser(a, b) == IF a < b THEN a ELSE b

\* Every chunk but the last is full, and they come once and in order.
AppendValid(upload, chain, index, length) ==
    /\ upload.active /\ chain = upload.chain /\ index = upload.next
    /\ length = Lesser(ChunkSize, upload.size - Len(upload.bytes))

\* The units a sender puts into its chunk of that index.
ChunkUnits(chain, index, length) ==
    [k \in 1 .. length |-> <<chain, (index - 1) * ChunkSize + k>>]

Appended(upload, chain, index, length) ==
    [upload EXCEPT !.bytes = @ \o ChunkUnits(chain, index, length), !.next = @ + 1]

CompleteValid(upload, request, chain, chunks, total) ==
    /\ upload.active /\ request = upload.request /\ chain = upload.chain
    /\ chunks = upload.next - 1
    /\ total = Len(upload.bytes) /\ total = upload.size

\* The file of that chain and size, as its sender has it.
WholeFile(chain, size) == [k \in 1 .. size |-> <<chain, k>>]
=============================================================================
