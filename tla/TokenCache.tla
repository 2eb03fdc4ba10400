----------------------------- MODULE TokenCache -----------------------------
(***************************************************************************)
(* The files in which sfttrainer keeps the number of tokens of every sample *)
(* of a data set (finetune.py), shared by all the Ray tasks that count:     *)
(* get_tokens_per_sample_in_dataset, one file operation at a time.          *)
(*                                                                         *)
(* A version of the data set stands for its content and for its md5 digest, *)
(* which is part of the name of its cache file; Tokens[v] is what the       *)
(* tokenizer makes of it.  A file that is open for writing is Torn: it was  *)
(* truncated, and what a reader finds is no JSON.  A task that counts runs  *)
(* in a process of its own, as Ray's tasks with GPUs do, so that the cached *)
(* file name (functools.cache) is never that of an earlier content.         *)
(***************************************************************************)
EXTENDS Naturals, Sequences

CONSTANTS
  Counters,          \* tasks that count tokens
  Versions,          \* contents of the data set
  Original,          \* the content to begin with
  Tokens,            \* tokens per sample of a content
  WriteAttempts,     \* attempts to write a cache file: 5
  MaxReplacements,   \* bound: how often the data set is replaced
  Absent, Torn, Nothing

ASSUME TokensAssumption ==
  /\ Original \in Versions /\ Tokens \in [Versions -> Seq(Nat) \ {<<>>}]
  /\ {Absent, Torn} \cap {Tokens[v] : v \in Versions} = {} /\ Absent # Torn
  /\ WriteAttempts \in Nat \ {0} /\ MaxReplacements \in Nat

VARIABLES
  dataset,           \* the content of the data set
  files,             \* files[v]: what the cache file for the content v holds
  counter,           \* what each task is doing
  replacements,
  replaced           \* history: the data set was replaced between the moment a
                     \* task named its cache file and the one it was tokenized

tokenVars == <<dataset, files, counter, replacements, replaced>>

Idle == [stage |-> "idle", file |-> Nothing, tokens |-> <<>>, attempts |-> 0]
CounterStages == {"idle", "look", "load", "tokenize", "open", "write", "verify", "counted"}

TokenTypeOK ==
  /\ dataset \in Versions
  /\ files \in [Versions -> {Absent, Torn} \cup {Tokens[v] : v \in Versions}]
  /\ counter \in [Counters -> [stage : CounterStages, file : Versions \cup {Nothing},
                               tokens : {<<>>} \cup {Tokens[v] : v \in Versions},
                               attempts : 0..WriteAttempts]]
  /\ replacements \in 0..MaxReplacements
  /\ replaced \in BOOLEAN

TokenInit ==
  /\ dataset = Original
  /\ files = [v \in Versions |-> Absent]
  /\ counter = [c \in Counters |-> Idle]
  /\ replacements = 0
  /\ replaced = FALSE

\* The content whose digest names the file that is read and written.
\* Mutant: a name without a digest.
NoDigest(content) == CHOOSE v \in Versions : TRUE
CacheFile(content) == content

\* The name of the cache file, and whether there is one
Look(c) ==
  /\ counter[c].stage = "look"
  /\ LET file == CacheFile(dataset) IN
       counter' = [counter EXCEPT
         ![c].file = file,
         ![c].stage = IF files[file] = Absent THEN "tokenize" ELSE "load"]
  /\ UNCHANGED <<dataset, files, replacements, replaced>>

\* Without a list in the file, or if it cannot be read, the tokens are computed.
Load(c) ==
  /\ counter[c].stage = "load"
  /\ \E found \in {files[counter[c].file], Torn} :
       counter' = [counter EXCEPT
         ![c].stage = IF found = Torn THEN "tokenize" ELSE "counted",
         ![c].tokens = IF found = Torn THEN <<>> ELSE found]
  /\ UNCHANGED <<dataset, files, replacements, replaced>>

Tokenize(c) ==
  /\ counter[c].stage = "tokenize"
  /\ counter' = [counter EXCEPT ![c].stage = "open", ![c].tokens = Tokens[dataset]]
  /\ UNCHANGED <<dataset, files, replacements, replaced>>

\* open(cache_file, "w") truncates, and the list is there when it is closed.
Open(c) ==
  /\ counter[c].stage = "open"
  /\ files' = [files EXCEPT ![counter[c].file] = Torn]
  /\ counter' = [counter EXCEPT ![c].stage = "write", ![c].attempts = @ + 1]
  /\ UNCHANGED <<dataset, replacements, replaced>>

Write(c) ==
  /\ counter[c].stage = "write"
  /\ files' = [files EXCEPT ![counter[c].file] = counter[c].tokens]
  /\ counter' = [counter EXCEPT ![c].stage = "verify"]
  /\ UNCHANGED <<dataset, replacements, replaced>>

\* The file is read back: another list is overwritten, and what is no JSON,
\* for another task writes, ends the attempts.
Verify(c) ==
  /\ counter[c].stage = "verify"
  /\ LET again == /\ files[counter[c].file] \notin {Torn, counter[c].tokens}
                  /\ counter[c].attempts < WriteAttempts
     IN  counter' = [counter EXCEPT ![c].stage = IF again THEN "open" ELSE "counted"]
  /\ UNCHANGED <<dataset, files, replacements, replaced>>

\* Any error of writing the file and of reading it back ends the attempts,
\* after which the file is as it was before the operation that failed.
CachingFails(c) ==
  /\ counter[c].stage \in {"open", "write", "verify"}
  /\ counter' = [counter EXCEPT ![c].stage = "counted"]
  /\ UNCHANGED <<dataset, files, replacements, replaced>>

Count(c) ==
  \/ Look(c) \/ Load(c) \/ Tokenize(c)
  \/ Open(c) \/ Write(c) \/ Verify(c) \/ CachingFails(c)

\* The owner of the data set replaces it.
UpdateDataset ==
  /\ replacements < MaxReplacements /\ replacements' = replacements + 1
  /\ dataset' \in Versions \ {dataset}
  /\ replaced' =
       (replaced \/ \E c \in Counters : counter[c].stage \in {"load", "tokenize"})
  /\ UNCHANGED <<files, counter>>
=============================================================================
