------------------------------ MODULE MemIndex ------------------------------
(***************************************************************************)
(* uw_cse333/hw/hw2: the parser of a file (fileparser.c), the table of     *)
(* documents (doctable.c), the inverted index with its queries             *)
(* (memindex.c), and HandleFile of filecrawler.c, which feeds them.        *)
(*                                                                         *)
(* A file is the sequence of its words, and whether a character that is    *)
(* not a letter follows the last one.  The position of a word is its       *)
(* number in the file.  All tables are HashTables.                         *)
(***************************************************************************)
EXTENDS HashTable, SequencesExt

CONSTANTS
    Name,               \* words and names of documents
    FNVHash64(_),       \* their hash
    WordHTBuckets,      \* the initial sizes of the tables, 64 in BuildWordHT,
    DocTableBuckets,    \*   1024 in AllocateDocTable,
    IndexBuckets,       \*   128 in AllocateMemIndex
    DocIDsBuckets       \*   and 32 in MIAddPostingList

\* The code takes equal hashes for equal names.
ASSUME HashAssumption ==
    \A a, b \in Name : FNVHash64(a) \in Nat /\ (FNVHash64(a) = FNVHash64(b) => a = b)
-----------------------------------------------------------------------------
(* fileparser.c *)

AddToHashtable(tab, word, pos) ==
    LET key == FNVHash64(word)
        wp == IF Has(tab, key) THEN LookupHashTable(tab, key)
              ELSE [word |-> word, positions |-> AllocateLinkedList]
        added == KeyValue(key, [wp EXCEPT !.positions = AppendLinkedList(@, pos)])
    IN  IF Has(tab, key)
        THEN InsertInChain(tab, added)          \* through the pointer to wp
        ELSE InsertHashTable(tab, added)

\* A word is added when the character behind it is met: the last word of a file
\* that ends with a letter is not.
Delimited(file) == IF file.closed THEN file.words ELSE Front(file.words)

BuildWordHT(file) ==
    LET words == Delimited(file)
        Add(tab, pos) == AddToHashtable(tab, words[pos], pos)
    IN  FoldLeft(Add, AllocateHashTable(WordHTBuckets), [i \in DOMAIN words |-> i])
-----------------------------------------------------------------------------
(* doctable.c *)

AllocateDocTable ==
    [docid_to_docname |-> AllocateHashTable(DocTableBuckets),
     docname_to_docid |-> AllocateHashTable(DocTableBuckets), max_id |-> 0]

DTLookupDocumentName(dt, docname) ==
    IF Has(dt.docname_to_docid, FNVHash64(docname))
    THEN LookupHashTable(dt.docname_to_docid, FNVHash64(docname)) ELSE 0

DTLookupDocID(dt, docid) == LookupHashTable(dt.docid_to_docname, docid)

DTRegisterDocumentName(dt, docname) ==
    LET docid == dt.max_id + 1
    IN  IF DTLookupDocumentName(dt, docname) # 0 THEN dt
        ELSE [docid_to_docname |-> InsertHashTable(dt.docid_to_docname, KeyValue(docid, docname)),
              docname_to_docid |-> InsertHashTable(dt.docname_to_docid,
                                                   KeyValue(FNVHash64(docname), docid)),
              max_id |-> docid]
-----------------------------------------------------------------------------
(* memindex.c: building the index *)

AllocateMemIndex == AllocateHashTable(IndexBuckets)

MIAddPostingList(index, word, docid, positions) ==
    LET key == FNVHash64(word)
        wds == IF Has(index, key) THEN LookupHashTable(index, key)
               ELSE [word |-> word, docIDs |-> AllocateHashTable(DocIDsBuckets)]
        added == KeyValue(key, [wds EXCEPT !.docIDs =
                                    InsertHashTable(@, KeyValue(docid, positions))])
    IN  IF Has(index, key)
        THEN InsertInChain(index, added)        \* through the pointer to wds
        ELSE InsertHashTable(index, added)

\* Its loop empties the word table with HTIteratorDelete.
RECURSIVE AddAll(_, _, _, _)
AddAll(index, tab, it, docid) ==
    IF tab.num_elements = 0 THEN index
    ELSE LET wp == HTIteratorGet(tab, it).value
             rest == HTIteratorDelete(tab, it)
         IN  AddAll(MIAddPostingList(index, wp.word, docid, wp.positions),
                    rest.table, rest.iter, docid)

\* The table of documents and the index after HandleFile.
HandleFile(dt, index, file) ==
    LET tab == BuildWordHT(file)
        newdt == DTRegisterDocumentName(dt, file.name)
        docid == DTLookupDocumentName(newdt, file.name)
    IN  IF tab.num_elements = 0 THEN [dt |-> dt, index |-> index]
        ELSE [dt |-> newdt, index |-> AddAll(index, tab, HashTableMakeIterator(tab), docid)]
-----------------------------------------------------------------------------
(* memindex.c: MIProcessQuery.  The answer is a list, NULL, or no answer at *)
(* all when a Verify333 fails.                                              *)

Answer(list) == [status |-> "list", list |-> list]
NoAnswer == [status |-> "NULL", list |-> AllocateLinkedList]
Abort == [status |-> "abort", list |-> AllocateLinkedList]

RECURSIVE FirstWord(_, _, _)
FirstWord(docIDs, it, retlist) ==
    IF HTIteratorPastEnd(it) THEN retlist
    ELSE LET kv == HTIteratorGet(docIDs, it)
         IN  FirstWord(docIDs, HTIteratorNext(docIDs, it),
                       PushLinkedList(retlist, [docid |-> kv.key, rank |-> kv.value.num_elements]))

\* The loop over the ne results that there were: llit is the iterator.
RECURSIVE FurtherWord(_, _, _, _)
FurtherWord(docIDs, retlist, llit, ne) ==
    IF ne = 0 THEN retlist
    ELSE LET rs == Payload(retlist, llit)
             shorter == LLIteratorDelete(retlist, llit)
             more == LookupHashTable(docIDs, rs.docid).num_elements
         IN  IF Has(docIDs, rs.docid)
             THEN FurtherWord(docIDs, SetPayload(retlist, llit, [rs EXCEPT !.rank = @ + more]),
                              LLIteratorNext(retlist, llit), ne - 1)
             ELSE FurtherWord(docIDs, shorter.list, shorter.node, ne - 1)

RECURSIVE FurtherWords(_, _, _)
FurtherWords(index, retlist, query) ==
    IF query = <<>> THEN IF retlist.num_elements = 0 THEN NoAnswer ELSE Answer(retlist)
    ELSE LET key == FNVHash64(Head(query))
         IN  CASE ~Has(index, key) -> NoAnswer
               [] Has(index, key) /\ retlist.num_elements = 0 -> Abort  \* LLIteratorFree(NULL)
               [] OTHER ->
                    FurtherWords(index,
                                 FurtherWord(LookupHashTable(index, key).docIDs, retlist,
                                             LLMakeIterator(retlist, 0), retlist.num_elements),
                                 Tail(query))

ByRank(list) == [sr \in {Payload(list, n) : n \in DOMAIN list.node} |-> sr.rank]

MIProcessQuery(index, query) ==
    LET key == FNVHash64(Head(query))
        docIDs == LookupHashTable(index, key).docIDs
        answer == FurtherWords(index,
                               FirstWord(docIDs, HashTableMakeIterator(docIDs), AllocateLinkedList),
                               Tail(query))
    IN  CASE ~Has(index, key) -> NoAnswer
          [] Has(index, key) /\ answer.status = "list" ->
                Answer(SortLinkedList(answer.list, FALSE, ByRank(answer.list)))
          [] OTHER -> answer
=============================================================================
