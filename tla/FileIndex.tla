------------------------------ MODULE FileIndex ------------------------------
(***************************************************************************)
(* uw_cse333/hw/hw3: the layout that fileindexwriter.cc gives an index in  *)
(* a file, and the readers that find their way through it.                 *)
(*                                                                         *)
(* A file is its records by their offsets, in the sizes of filelayout.h.   *)
(* WriteX(f, ..., offset) is what X makes of the stream f; ret in it is    *)
(* what X returns, the number of bytes or 0 when it gives up.  A call of   *)
(* fseek or fwrite may fail; then nothing of its record is written.        *)
(***************************************************************************)
EXTENDS MemIndex

CONSTANT Length(_)      \* of a name

\* The sizes of the structs of filelayout.h, which are packed.
IndexFileHeader == 16
BucketListHeader == 4
bucket_rec == 8
element_position_rec == 4
doctable_element_header == 10
worddocset_header == 6
docid_element_header == 12
docid_element_position == 4

-----------------------------------------------------------------------------
(* stdio: a stream is a file and a position; its call number bad fails, if *)
(* it gets there, and no other (bound).                                    *)

Stream(recs, st_size, bad) ==
    [recs |-> recs, st_size |-> st_size, pos |-> 0, calls |-> 0, bad |-> bad,
     ok |-> TRUE, ret |-> 0]

HasFailed(f) == f.bad \in 1 .. f.calls

\* A record replaces what it overlaps, which earlier failures left behind.
Overwrite(recs, o, r) ==
    (o :> r) @@ [p \in {q \in DOMAIN recs : q + recs[q].size <= o \/ q >= o + r.size} |-> recs[p]]

\* ok: no call has failed since the writer was called that is at work.
fwrite(f, r) ==
    CASE ~f.ok -> f
      [] f.ok /\ f.calls + 1 = f.bad -> [f EXCEPT !.calls = @ + 1, !.ok = FALSE, !.ret = 0]
      [] OTHER -> [f EXCEPT !.recs = Overwrite(@, f.pos, r), !.pos = @ + r.size,
                            !.st_size = Max({@, f.pos + r.size}), !.calls = @ + 1,
                            !.ret = @ + r.size]

\* fseek to offset, and fwrite the records until a call fails.
WriteRecords(f, offset, records) ==
    FoldLeft(fwrite, [f EXCEPT !.pos = offset, !.ok = TRUE, !.ret = 0], records)

Returns(f, n) == [f EXCEPT !.ok = TRUE, !.ret = n]
-----------------------------------------------------------------------------
(* fileindexwriter.cc *)

WriteDocidDocnameFn(f, offset, kv) ==
    WriteRecords(f, offset,
        <<[docid |-> kv.key, size |-> doctable_element_header],
          [docname |-> kv.value, size |-> Length(kv.value)]>>)

WriteDocPositionListFn(f, offset, kv) ==
    LET positions == Contents(kv.value)
    IN  WriteRecords(f, offset,
            <<[docid |-> kv.key, num_positions |-> Len(positions), size |-> docid_element_header]>>
            \o [i \in DOMAIN positions |->
                    [position |-> positions[i], size |-> docid_element_position]])

\* The end of a turn of the loop of WriteBucket: fn has returned el.  Nobody asks
\* whether it failed: its 0 is a length, and the next element goes where this one
\* should have been.
WriteElement(w, el) ==
    [f |-> Returns(el, el.ret), pos |-> w.pos + element_position_rec, next |-> w.next + el.ret]

\* The positions of the elements of a chain and, behind them, the elements.  After
\* a position that failed nothing follows.
WriteBucket(f, L, offset, fn(_, _, _)) ==
    LET Position(w) ==
            WriteRecords(w.f, w.pos, <<[element_position |-> w.next, size |-> element_position_rec]>>)
        Behind(w, kv, pos) ==
            IF pos.ok THEN WriteElement(w, fn(pos, w.next, kv)) ELSE [w EXCEPT !.f = pos]
        Element(w, kv) == IF w.f.ok THEN Behind(w, kv, Position(w)) ELSE w
        Bucketlen(w) == Returns(w.f, IF w.f.ok THEN w.next - offset ELSE 0)
    IN  Bucketlen(FoldLeft(Element,
                           [f |-> Returns(f, 0), pos |-> offset,
                            next |-> offset + element_position_rec * L.num_elements],
                           Contents(L)))

WriteBucketRecord(f, L, br_offset, b_offset) ==
    WriteRecords(f, br_offset,
        <<[chain_len |-> L.num_elements, bucket_position |-> b_offset, size |-> bucket_rec]>>)

WriteBucketListHeader(f, ht, offset) ==
    WriteRecords(f, offset, <<[num_buckets |-> ht.num_buckets, size |-> BucketListHeader]>>)

\* A turn of the loop of WriteHashTable: the record has returned res, and bucket is
\* written.  Nobody asks here either: after a record that failed the next one takes
\* its place, and after a bucket the next bucket.
WriteChain(w, res, bucket) ==
    [f |-> bucket, pos |-> w.pos + res, next |-> w.next + bucket.ret]

\* One record per bucket, and the buckets that are not empty.
WriteHashTable(f, ht, offset, fn(_, _, _)) ==
    LET Behind(w, L, record) ==
            WriteChain(w, record.ret, IF L.num_elements = 0 THEN Returns(record, 0)
                                      ELSE WriteBucket(record, L, w.next, fn))
        Bucket(w, L) == Behind(w, L, WriteBucketRecord(w.f, L, w.pos, w.next))
        first == offset + BucketListHeader
        Size(w) == Returns(w.f, w.next - offset)
        Buckets(header) ==
            IF ~header.ok THEN header
            ELSE Size(FoldLeft(Bucket, [f |-> header, pos |-> first,
                                           next |-> first + bucket_rec * ht.num_buckets],
                                  [i \in 1 .. ht.num_buckets |-> ht.buckets[i - 1]]))
    IN  Buckets(WriteBucketListHeader(f, ht, offset))

\* The header and the word, in front of the documents, which took docIDs.ret bytes
\* or failed: that is not asked.
WriteWord(docIDs, offset, word) ==
    WriteRecords(docIDs, offset,
        <<[docIDs_len |-> docIDs.ret, size |-> worddocset_header],
          [word |-> word, size |-> Length(word)]>>)

WriteWordDocSetFn_NoLength(f, offset, kv) ==
    LET word == kv.value.word
        Sized(written, len) == Returns(written, IF written.ok THEN worddocset_header + len ELSE 0)
        Before(docIDs) == Sized(WriteWord(docIDs, offset, word), docIDs.ret)
    IN  Before(WriteHashTable(f, kv.value.docIDs, offset + worddocset_header + Length(word),
                              WriteDocPositionListFn))

WriteWordDocSetFn(f, offset, kv) ==
    LET word == kv.value.word
        Sized(written, len) == Returns(written, IF written.ok THEN written.ret + len ELSE 0)
        Before(docIDs) == Sized(WriteWord(docIDs, offset, word), docIDs.ret)
    IN  Before(WriteHashTable(f, kv.value.docIDs, offset + worddocset_header + Length(word),
                              WriteDocPositionListFn))

WriteDocTable(f, dt, offset) == WriteHashTable(f, dt.docid_to_docname, offset, WriteDocidDocnameFn)
WriteMemIndex(f, mi, offset) == WriteHashTable(f, mi, offset, WriteWordDocSetFn)

\* The checksum stands for all that it is taken over.
Checksum(recs) == [o \in DOMAIN recs \ {0} |-> recs[o]]

WriteHeader(recs, doct_size, memidx_size) ==
    0 :> [magic_number |-> TRUE, checksum |-> Checksum(recs), doctable_size |-> doct_size,
          index_size |-> memidx_size, size |-> IndexFileHeader]
-----------------------------------------------------------------------------
(* The readers; f is the records of a file, offset that of their table. *)

LookupElementPositions(f, offset, hashKey) ==
    LET b == hashKey % f[offset].num_buckets
        b_rec == f[offset + BucketListHeader + bucket_rec * b]
    IN  [i \in 1 .. b_rec.chain_len |->
            f[b_rec.bucket_position + element_position_rec * (i - 1)].element_position]

\* DocTableReader::LookupDocID
LookupDocName(f, offset, docid) ==
    LET elements == LookupElementPositions(f, offset, docid)
    IN  f[elements[SelectInSeq(elements, LAMBDA o : f[o].docid = docid)]
          + doctable_element_header].docname

\* The offset of the table of documents of a word, or NULL.
LookupWord(f, offset, word) ==
    LET elements == LookupElementPositions(f, offset, FNVHash64(word))
        i == SelectInSeq(elements, LAMBDA o : f[o + worddocset_header].word = word)
    IN  IF i = 0 THEN NULL ELSE elements[i] + worddocset_header + Length(word)

\* DocIDTableReader::LookupDocID: the positions of a word in a document.
LookupDocID(f, offset, docid) ==
    LET elements == LookupElementPositions(f, offset, docid)
        i == SelectInSeq(elements, LAMBDA o : f[o].docid = docid)
        first == elements[i] + docid_element_header
    IN  IF i = 0 THEN <<>>
        ELSE [p \in 1 .. f[elements[i]].num_positions |->
                f[first + docid_element_position * (p - 1)].position]

GetDocIDList(f, offset) ==
    UNION {LET b_rec == f[offset + BucketListHeader + bucket_rec * b]
           IN  {f[f[b_rec.bucket_position + element_position_rec * (j - 1)].element_position] :
                    j \in 1 .. b_rec.chain_len} :
           b \in 0 .. f[offset].num_buckets - 1}

\* FileIndexReader: whether the constructor goes on, given the size of the file.
FileIndexReader(f, st_size, validate) ==
    /\ 0 \in DOMAIN f
    /\ f[0].magic_number
    /\ st_size = IndexFileHeader + f[0].doctable_size + f[0].index_size
    /\ validate => f[0].checksum = Checksum(f)
-----------------------------------------------------------------------------
(* QueryProcessor.cc: the ranks that one index gives its documents. *)

RankWord_AnyDoc(f, query, j, ranks) ==
    LET doctable == IndexFileHeader
        docIDs == LookupWord(f, IndexFileHeader + f[0].doctable_size, query[j])
        Docs == GetDocIDList(f, docIDs)
        Found == {LookupDocName(f, doctable, d.docid) : d \in Docs}
        Header(docname) == CHOOSE d \in Docs : LookupDocName(f, doctable, d.docid) = docname
    IN  [docname \in Found |->
            (IF docname \in DOMAIN ranks THEN ranks[docname] ELSE 0) + Header(docname).num_positions]

RankWord(f, query, j, ranks) ==
    LET doctable == IndexFileHeader
        docIDs == LookupWord(f, IndexFileHeader + f[0].doctable_size, query[j])
        Docs == {d \in GetDocIDList(f, docIDs) :
                    \/ j = 1
                    \/ d.num_positions > 0 /\ LookupDocName(f, doctable, d.docid) \in DOMAIN ranks}
        Found == {LookupDocName(f, doctable, d.docid) : d \in Docs}
        Header(docname) == CHOOSE d \in Docs : LookupDocName(f, doctable, d.docid) = docname
    IN  [docname \in Found |->
            (IF docname \in DOMAIN ranks THEN ranks[docname] ELSE 0) + Header(docname).num_positions]

RECURSIVE RankFrom(_, _, _, _)
RankFrom(f, query, j, ranks) ==
    CASE j > Len(query) -> ranks
      [] j <= Len(query) /\ LookupWord(f, IndexFileHeader + f[0].doctable_size, query[j]) = NULL -> <<>>
      [] OTHER -> RankFrom(f, query, j + 1, RankWord(f, query, j, ranks))

ProcessQuery(f, query) == RankFrom(f, query, 1, <<>>)
=============================================================================
