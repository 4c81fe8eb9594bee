---------------------------- MODULE SearchEngine ----------------------------
(***************************************************************************)
(* buildfileindex of uw_cse333/hw/hw3: crawl the files, index them and     *)
(* write the index to a file, which filesearchshell opens later.  A call   *)
(* of stdio may fail, and the process, or the machine, may stop at any     *)
(* moment.                                                                 *)
(*                                                                         *)
(* A write goes to the buffer of stdio, from there to the kernel when the  *)
(* next fseek or fclose flushes the buffer, or before, and from there to   *)
(* the disk with fsync, or before.                                         *)
(***************************************************************************)
EXTENDS FileIndex

CONSTANTS
    DocNames,       \* the names of the files, in the order of the crawl
    Contained,      \* what a file may contain
    Word,           \* the words that queries are made of
    MaxQuery,       \* bound: the words of a query
    MaxFailing      \* bound: the files in an index whose writing may fail

ASSUME EngineAssumption ==
    Len(DocNames) > 0 /\ MaxQuery \in Nat \ {0} /\ MaxFailing \in Nat

VARIABLES
    files,          \* the files read so far
    dt, index,      \* the table of documents and the index in memory
    pc,             \* where buildfileindex is
    sizes,          \* the sizes of the two tables in the file, as returned
    stream,         \* the file as the process has written it: records and size
    kernel,         \* the file as the kernel has it
    disk,           \* and as the disk has it
    missed          \* history: a call has failed and WriteIndex did not learn of it

vars == <<files, dt, index, pc, sizes, stream, kernel, disk, missed>>
memory == <<files, dt, index>>

Empty == [recs |-> <<>>, st_size |-> 0]

Last0(S) == IF S = {} THEN 0 ELSE Max(S)
End(recs) == Last0({o + recs[o].size : o \in DOMAIN recs})

Init ==
    /\ files = <<>>
    /\ dt = AllocateDocTable
    /\ index = AllocateMemIndex
    /\ pc = "HandleDir"
    /\ sizes = [doctable |-> 0, index |-> 0]
    /\ stream = Empty
    /\ kernel = Empty
    /\ disk = Empty
    /\ missed = FALSE
-----------------------------------------------------------------------------
\* HandleDir finds the next file.
Crawl(contained) ==
    /\ pc = "HandleDir" /\ Len(files) < Len(DocNames)
    /\ LET file == [name |-> DocNames[Len(files) + 1]] @@ contained
           handled == HandleFile(dt, index, file)
       IN  /\ files' = Append(files, file)
           /\ dt' = handled.dt
           /\ index' = handled.index
    /\ UNCHANGED <<pc, sizes, stream, kernel, disk, missed>>

\* The crawl is over: WriteIndex opens the file, which makes it empty, or fails to.
WriteIndex ==
    /\ pc = "HandleDir"
    /\ \/ pc' = "WriteDocTable" /\ kernel' = Empty
       \/ pc' = "failed" /\ UNCHANGED kernel
    /\ UNCHANGED <<memory, sizes, stream, disk, missed>>

\* WriteIndex learns of a failure: it removes the file and returns 0.
Unlink ==
    /\ pc' = "failed"
    /\ stream' = Empty /\ kernel' = Empty /\ disk' = Empty
    /\ UNCHANGED <<memory, sizes, missed>>

\* The call that fails, of the calls that there are when none does; 0: none.
Failing(calls) == IF Len(files) <= MaxFailing /\ ~missed THEN 0 .. calls ELSE {0}

\* WriteIndex goes on with the stream f.
Continue(f, next) ==
    /\ pc' = next
    /\ stream' = [recs |-> f.recs, st_size |-> f.st_size]
    /\ missed' = (missed \/ HasFailed(f))

AfterDocTable(f) ==
    \/ f.ret = 0 /\ Unlink
    \/ /\ f.ret # 0
       /\ Continue(f, "WriteMemIndex")
       /\ sizes' = [sizes EXCEPT !.doctable = f.ret]
       /\ UNCHANGED <<memory, kernel, disk>>

WriteDocTableStep ==
    /\ pc = "WriteDocTable"
    /\ LET Write(bad) == WriteDocTable(Stream(<<>>, 0, bad), dt, IndexFileHeader)
       IN  \E bad \in Failing(Write(0).calls) : AfterDocTable(Write(bad))

AfterMemIndex(f) ==
    \/ f.ret = 0 /\ Unlink
    \/ /\ f.ret # 0
       /\ Continue(f, "WriteHeader")
       /\ sizes' = [sizes EXCEPT !.index = f.ret]
       /\ kernel' = stream
       /\ UNCHANGED <<memory, disk>>

WriteMemIndexStep ==
    /\ pc = "WriteMemIndex"
    /\ LET Write(bad) == WriteMemIndex(Stream(stream.recs, stream.st_size, bad), index,
                                       IndexFileHeader + sizes.doctable)
       IN  \E bad \in Failing(Write(0).calls) : AfterMemIndex(Write(bad))

\* fseek flushes the tables and fread reads them back, which fails where they end
\* early; the header is buffered.  Any of the calls may fail, too.
WriteHeaderStep ==
    /\ pc = "WriteHeader"
    /\ \/ Unlink
       \/ /\ stream.st_size >= IndexFileHeader + sizes.doctable + sizes.index
          /\ kernel' = stream
          /\ stream' = [stream EXCEPT !.recs = WriteHeader(@, sizes.doctable, sizes.index) @@ @]
          /\ pc' = "fsync"
          /\ UNCHANGED <<memory, sizes, disk, missed>>

Fsync_Flushed ==
    /\ pc = "fsync"
    /\ IF stream # kernel
       THEN /\ kernel' = stream
            /\ UNCHANGED <<pc, disk>>
       ELSE /\ disk' = kernel
            /\ pc' = "fclose"
            /\ UNCHANGED kernel
    /\ UNCHANGED <<memory, sizes, stream, missed>>

\* Of what the kernel has: the buffer was not flushed.
Fsync ==
    /\ pc = "fsync"
    /\ disk' = kernel
    /\ pc' = "fclose"
    /\ UNCHANGED <<memory, sizes, stream, kernel, missed>>

\* fclose flushes the header, or fails to, which nobody asks; WriteIndex returns
\* the size of the file.
Fclose ==
    /\ pc = "fclose"
    /\ \/ kernel' = stream /\ UNCHANGED missed
       \/ UNCHANGED kernel /\ missed' = TRUE
    /\ pc' = "written"
    /\ stream' = Empty
    /\ UNCHANGED <<memory, sizes, disk>>
-----------------------------------------------------------------------------
(* Faults *)

Writing == {"WriteDocTable", "WriteMemIndex", "WriteHeader", "fsync", "fclose"}

Below(recs, cut) == [o \in {p \in DOMAIN recs : p < cut} |-> recs[o]]
Cuts(recs) == DOMAIN recs \cup {End(recs)}

\* The process stops: what it has written below the cut has left its buffer.
ProcessStops ==
    /\ pc \in Writing
    /\ \E cut \in Cuts(stream.recs) :
        LET left == {o \in DOMAIN stream.recs : o < cut \/ o \in DOMAIN kernel.recs}
            recs == [o \in left |-> stream.recs[o]]
        IN  kernel' = [recs |-> recs, st_size |-> Max({kernel.st_size, End(recs)})]
    /\ stream' = Empty
    /\ pc' = "stopped"
    /\ UNCHANGED <<memory, sizes, disk, missed>>

\* The machine stops: of what is not on the disk some may be, the header and
\* the size of the file independently of the rest.
MachineStops ==
    /\ pc \in Writing \cup {"written"}
    /\ \E cut \in Cuts(kernel.recs), header \in SUBSET ({0} \cap DOMAIN kernel.recs) :
        LET new == [o \in (DOMAIN Below(kernel.recs, cut) \ {0}) \cup header |-> kernel.recs[o]]
            recs == new @@ disk.recs
        IN  \E st_size \in {Max({disk.st_size, End(recs)}), kernel.st_size} :
                disk' = [recs |-> recs, st_size |-> st_size]
    /\ kernel' = disk'
    /\ stream' = Empty
    /\ pc' = "stopped"
    /\ UNCHANGED <<memory, sizes, missed>>

Next ==
    \/ \E contained \in Contained : Crawl(contained)
    \/ WriteIndex \/ WriteDocTableStep \/ WriteMemIndexStep \/ WriteHeaderStep
    \/ Fsync \/ Fclose
    \/ ProcessStops \/ MachineStops

Spec == Init /\ [][Next]_vars
-----------------------------------------------------------------------------
(* What the answers should be. *)

Query == UNION {[1 .. n -> Word] : n \in 1 .. MaxQuery}

\* What the parser makes of the files that it indexes.
Doc(i) == Delimited(files[i])
Positions(i, word) == {p \in DOMAIN Doc(i) : Doc(i)[p] = word}

Matches(query) ==
    {i \in DOMAIN files : \A j \in DOMAIN query : Positions(i, query[j]) # {}}

\* The matching documents, by name, and their ranks.
Expected(query) ==
    LET Rank(i) == FoldFunction(+, 0, [j \in DOMAIN query |-> Cardinality(Positions(i, query[j]))])
    IN  [name \in {files[i].name : i \in Matches(query)} |->
            Rank(CHOOSE i \in DOMAIN files : files[i].name = name)]

Descending(s) == \A i, j \in DOMAIN s : i < j => s[i].rank >= s[j].rank

\* The answer of MIProcessQuery is exactly the expected one, best first.
IsExact(answer, query) ==
    LET s == Contents(answer.list)
    IN  IF Matches(query) = {} THEN answer.status = "NULL"
        ELSE /\ answer.status = "list"
             /\ Descending(s)
             /\ Len(s) = Cardinality(Matches(query))
             /\ {<<DTLookupDocID(dt, s[i].docid), s[i].rank>> : i \in DOMAIN s} =
                    {<<name, Expected(query)[name]>> : name \in DOMAIN Expected(query)}
-----------------------------------------------------------------------------
\* MIProcessQuery finds exactly the documents with all words of the query, ranks
\* them by the number of occurrences and returns the best first.  Queries that
\* have lost all documents before their last word are left to EmptyAnswer.
MemQueryIsExact == pc = "HandleDir" =>
    \A query \in Query :
        (Len(query) <= 2 \/ Matches(Front(query)) # {})
            => IsExact(MIProcessQuery(index, query), query)

\* The comment before the end of MIProcessQuery: "If there are no documents left
\* in our query result list, free retlist and return NULL".
EmptyAnswer ==
    \A query \in Query :
        Matches(query) = {} => MIProcessQuery(index, query).status = "NULL"

Covered(recs, o) == o .. o + recs[o].size - 1

\* The records of an index file that was written without a failure fill it from
\* its first byte to its last: none overlaps another and there is no gap, so that
\* every offset that WriteHashTable computes ahead is where the record then is.
FileIsTiled ==
    pc = "written" /\ ~missed =>
        LET recs == kernel.recs
        IN  /\ UNION {Covered(recs, o) : o \in DOMAIN recs} = 0 .. kernel.st_size - 1
            /\ \A o, p \in DOMAIN recs : o # p => Covered(recs, o) \cap Covered(recs, p) = {}
            /\ kernel.st_size = IndexFileHeader + sizes.doctable + sizes.index

\* QueryProcessor finds in a file that was written without a failure the same
\* documents, with the same ranks, as the words that the parser delimits in the
\* crawled files make, and the positions of every word.
FileQueryIsExact ==
    pc = "written" /\ ~missed =>
        /\ FileIndexReader(kernel.recs, kernel.st_size, TRUE)
        /\ \A query \in Query : ProcessQuery(kernel.recs, query) = Expected(query)
        /\ \A word \in Word, i \in DOMAIN files :
            LET docIDs == LookupWord(kernel.recs, IndexFileHeader + sizes.doctable, word)
                docid == DTLookupDocumentName(dt, files[i].name)
            IN  Positions(i, word) # {} =>
                    ToSet(LookupDocID(kernel.recs, docIDs, docid)) = Positions(i, word)

\* The file that WriteIndex makes when no call fails.
Whole ==
    LET Header(f, doctable) == WriteHeader(f.recs, doctable, f.ret) @@ f.recs
        Index(f) == Header(WriteMemIndex(f, index, IndexFileHeader + f.ret), f.ret)
    IN  Index(WriteDocTable(Stream(<<>>, 0, 0), dt, IndexFileHeader))

\* Wherever the process or the machine stopped and whatever failed before: a file
\* that FileIndexReader opens without checking its checksum has the right one, so
\* that its tables are those that the header was made for (the comment of
\* WriteHeader: "if we crash part way through writing an index file, it won't
\* contain a valid MAGIC_NUMBER"); and they are all of the index, unless a call
\* failed unnoticed.
OpenedIsWhole ==
    FileIndexReader(kernel.recs, kernel.st_size, FALSE) =>
        /\ FileIndexReader(kernel.recs, kernel.st_size, TRUE)
        /\ ~missed => kernel.recs = Whole

\* What the tables of a file hold; a hole reads as the record of an empty bucket.
Data(recs) ==
    {<<o, recs[o]>> : o \in {p \in DOMAIN recs \ {0} :
                                "chain_len" \in DOMAIN recs[p] => recs[p].chain_len # 0}}

\* The comment of WriteIndex in fileindexwriter.h: it returns "the resulting size
\* of the index file, in bytes, or 0 on error".  So a file for which it returned
\* a size, and that FileIndexReader finds to be valid, holds all of the index.
WrittenIsWhole ==
    pc = "written" /\ FileIndexReader(kernel.recs, kernel.st_size, TRUE)
        => Data(Whole) \subseteq Data(kernel.recs)
=============================================================================
