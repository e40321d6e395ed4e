------------------------------- MODULE WordList -------------------------------
(***************************************************************************)
(* The word sets spell-sync computes with.  Two spellings are the same     *)
(* word when they fold to the same key.  A file is iterated as a Python    *)
(* set, so where the first spelling wins any spelling may be the first:    *)
(* an operator returns the set of the results the code can produce.        *)
(***************************************************************************)
EXTENDS Naturals

CONSTANTS
    Word, Key,         \* normalized words; what they fold to
    casefold,          \* str.casefold
    NDicts,            \* number of application dictionaries
    filter,            \* the words a dictionary takes (win-ru, win-en)
    NoFile, NoText     \* marks of a path with no file, of a file that is no text

Dicts == 1..NDicts     \* in the order of discovery

ASSUME WordAssumption ==
    /\ NDicts \in Nat /\ casefold \in [Word -> Key]
    /\ filter \in [Dicts -> SUBSET Word]
    /\ NoFile \notin Word /\ NoText \notin Word /\ NoFile # NoText

\* What a path holds: a set of words, nothing, or what cannot be decoded.
Missing == {NoFile}
Garbled == {NoText}
Content == (SUBSET Word) \cup {Missing, Garbled}

Readable(c) == c # Garbled

\* Mutant of WordsOf: the mark of a path that holds no words is taken for one.
WordsOfAnything(c) == c

WordsOf(c) == IF c \in {Missing, Garbled} THEN {} ELSE c

Keys(S)      == {casefold[w] : w \in S}
OnePerKey(S) == \A v, w \in S : casefold[v] = casefold[w] => v = w

\* merge_case_duplicates: one spelling of each word.
Dedups(S) == {T \in SUBSET S : OnePerKey(T) /\ Keys(T) = Keys(S)}

\* The words of incoming that have does not hold in any spelling.
Unknown(have, incoming) == {w \in incoming : casefold[w] \notin Keys(have)}

\* added_words_casefold, and the words add appends.
Added(have, incoming) == Dedups(Unknown(have, incoming))

\* Mutant of Collected: a new word may have the spelling of any dictionary, and a
\* word of the list too.
CollectedAnySpelling(words, source) ==
    Dedups(words \cup UNION {source[d] : d \in DOMAIN source})

\* The merge of a collect preview: the list keeps its spelling, a new word has
\* that of the first dictionary that holds it.
Collected(words, source) ==
    LET all == words \cup UNION {source[d] : d \in DOMAIN source}
        FirstSource(w) == \E d \in DOMAIN source :
            /\ w \in source[d]
            /\ \A e \in DOMAIN source : e < d => casefold[w] \notin Keys(source[e])
    IN  {T \in Dedups(all) :
           \A w \in T : w \in words \/ (FirstSource(w) /\ casefold[w] \notin Keys(words))}

\* subtract_extra_words_from_sources: everything but the rejected words.
Subtract(words, rejected) == Unknown(rejected, words)

\* Dictionary.target_words: what an update gives dictionary d.
Target(d, words) == words \cap filter[d]
=============================================================================
