--------------------------- MODULE PropertyEditor ---------------------------
(***************************************************************************)
(* The start of a Confluent container (start_server.sh of 01-zookeeper to  *)
(* 04-rest): the properties file of the server is edited by                *)
(* docker-edit-properties (PropertyEditor.java) from the variables of the  *)
(* environment, then the server is started on it, whether or not the       *)
(* editor threw an exception.  The containers run with --restart=always,   *)
(* so the start is repeated, after a crash at any point, on the file that  *)
(* the previous start has left.                                            *)
(*                                                                         *)
(* The name of a variable is a sequence of pieces: prefixes that the       *)
(* patterns look for, letters, "_" and ".".                                *)
(***************************************************************************)
EXTENDS Integers, Sequences

CONSTANTS
  Containers,        \* the command lines, and the variables each environment may hold
  Values,            \* the values of the variables
  Base,              \* the properties file of the image
  MaxCrashes         \* bound: deaths of the container

ASSUME EditorAssumption ==
  /\ \A c \in Containers : c.includePatterns # << >> /\ c.preserveCase \in BOOLEAN
  /\ MaxCrashes \in Nat

VARIABLES
  container,    \* the container that is started
  env,          \* the environment, given with "docker run"
  file,         \* targetFile
  status,       \* where the start is
  properties,   \* the Properties object
  entries,      \* entries of the environment not yet looked at
  results,      \* what findOverriddenValues has found
  deaths,       \* number of crashes so far
  threw,        \* has the editor of this start thrown an exception?
  torn          \* history: was the writing of the file ever cut short?

editor == <<container, env, file, status, properties, entries, results, deaths, threw, torn>>

\* --include '<prefix>(.*)', a sequence of [prefix, groups]; --exclude '^<pieces>', a
\* set of sequences of pieces; --preserve-case
includePatterns == container.includePatterns
excludePatterns == container.excludePatterns
preserveCase == container.preserveCase

NoProperties == [p \in {} |-> "none"]

\* Properties.putAll: f with the entries of g, which replace those of the same name
Put(f, g) == [p \in DOMAIN f \cup DOMAIN g |-> IF p \in DOMAIN g THEN g[p] ELSE f[p]]

\* String.replace('_', '.') and, piece by piece, String.toLowerCase()
Replaced(x) ==
  CASE x = "_" -> "." [] x = "RP_" -> "RP." [] x = "KAFKA_REST_" -> "KAFKA.REST."
    [] x = "ZK_" -> "ZK." [] x = "zk_" -> "zk." [] OTHER -> x
Lower(x) ==
  CASE x = "B" -> "b" [] x = "RP." -> "rp." [] x = "KAFKA.REST." -> "kafka.rest."
    [] x = "ZK." -> "zk." [] OTHER -> x

\* Matcher.find(): the prefix anywhere in the name
Found(name) ==
  {n \in 1..Len(includePatterns) : \E k \in DOMAIN name : name[k] = includePatterns[n].prefix}
\* The pattern whose matcher is kept: the first one that is found
Matcher(name) == CHOOSE n \in Found(name) : \A k \in Found(name) : n <= k

\* A pattern that starts with "^" finds its pieces at the start of the name only
StartsWith(name, x) == Len(x) <= Len(name) /\ SubSeq(name, 1, Len(x)) = x
excludedKey(name) == \E x \in excludePatterns : StartsWith(name, x)

\* group(1): what follows the first occurrence of the prefix
Group1(name) ==
  LET prefix == includePatterns[Matcher(name)].prefix
      at     == CHOOSE n \in DOMAIN name :
                  name[n] = prefix /\ \A k \in 1..(n - 1) : name[k] # prefix
  IN  SubSeq(name, at + 1, Len(name))

propertyName(name) ==
  [n \in DOMAIN Group1(name) |->
     LET x == Replaced(Group1(name)[n]) IN IF preserveCase THEN x ELSE Lower(x)]

InitEditor ==
  /\ container \in Containers
  /\ \E S \in SUBSET container.names : env \in [S -> Values]
  /\ file = Base
  /\ status = "down"
  /\ properties = NoProperties
  /\ entries = {}
  /\ results = NoProperties
  /\ deaths = 0
  /\ threw = FALSE /\ torn = FALSE

\* What of f may be in a file whose writing is cut short: some lines, and a part
\* of one more, with its name or without
CutName == <<"cut">>
Lines(f, S) == [p \in S |-> f[p]]
Pieces(f) ==
  UNION {{Lines(f, S)} \cup
         {Put(Lines(f, S), [q \in {p} |-> "cut"]) : p \in DOMAIN f \cup {CutName}} :
           S \in SUBSET DOMAIN f}

\* run() reads the file, which may fail, and the environment
load(err) ==
  /\ status = "down"
  /\ status' = IF err THEN "edited" ELSE "find"
  /\ threw' = err
  /\ properties' = IF err THEN NoProperties ELSE file
  /\ entries' = IF err THEN {} ELSE DOMAIN env
  /\ results' = NoProperties
  /\ UNCHANGED <<container, env, file, deaths, torn>>
-----------------------------------------------------------------------------
(* findOverriddenValues: one entry of the map System.getenv(), in any order;*)
(* an include pattern without its group is an IllegalStateException         *)
findOverriddenValues ==
  /\ status = "find"
  /\ \E name \in entries :
       /\ entries' = entries \ {name}
       /\ IF Found(name) = {} \/ excludedKey(name)
          THEN UNCHANGED <<status, results, threw>>
          ELSE IF includePatterns[Matcher(name)].groups # 1
               THEN status' = "edited" /\ threw' = TRUE /\ UNCHANGED results
               ELSE /\ results' = Put(results, [p \in {propertyName(name)} |-> env[name]])
                    /\ UNCHANGED <<status, threw>>
  /\ UNCHANGED <<container, env, file, properties, deaths, torn>>

\* Variant: the values of the file win over those of the environment
putAll_kept ==
  /\ status = "find"
  /\ entries = {}
  /\ status' = IF results = NoProperties THEN "edited" ELSE "open"
  /\ properties' = Put(results, properties)
  /\ UNCHANGED <<container, env, file, entries, results, deaths, threw, torn>>

putAll ==
  /\ status = "find"
  /\ entries = {}
  /\ status' = IF results = NoProperties THEN "edited" ELSE "open"
  /\ properties' = Put(properties, results)
  /\ UNCHANGED <<container, env, file, entries, results, deaths, threw, torn>>

\* new FileOutputStream empties the file, or fails
open(err) ==
  /\ status = "open"
  /\ status' = IF err THEN "edited" ELSE "store"
  /\ threw' = err
  /\ file' = IF err THEN file ELSE NoProperties
  /\ UNCHANGED <<container, env, properties, entries, results, deaths, torn>>

\* Variant: only what the environment has overridden is stored
store_results(err) ==
  /\ status = "store"
  /\ status' = "edited"
  /\ threw' = err /\ torn' = (torn \/ err)
  /\ IF err THEN file' \in Pieces(results) ELSE file' = results
  /\ UNCHANGED <<container, env, properties, entries, results, deaths>>

\* A failure leaves a part of the file
store(err) ==
  /\ status = "store"
  /\ status' = "edited"
  /\ threw' = err /\ torn' = (torn \/ err)
  /\ IF err THEN file' \in Pieces(properties) ELSE file' = properties
  /\ UNCHANGED <<container, env, properties, entries, results, deaths>>
-----------------------------------------------------------------------------
\* The editor's process has ended
EditorGone == properties' = NoProperties /\ entries' = {} /\ results' = NoProperties

(* The script does not look at the exit status of the editor               *)
start_server ==
  /\ status = "edited"
  /\ status' = "serving"
  /\ EditorGone
  /\ UNCHANGED <<container, env, file, deaths, threw, torn>>

\* The container dies; of a file that is being written a part may be there
container_dies ==
  /\ deaths < MaxCrashes
  /\ status # "down"
  /\ deaths' = deaths + 1
  /\ torn' = (torn \/ status = "store")
  /\ status' = "down"
  /\ threw' = FALSE
  /\ IF status = "store" THEN file' \in Pieces(properties) ELSE UNCHANGED file
  /\ EditorGone
  /\ UNCHANGED <<container, env>>

NextEditor ==
  \/ findOverriddenValues \/ putAll \/ start_server \/ container_dies
  \/ \E err \in BOOLEAN : load(err) \/ open(err) \/ store(err)

EditorSpec == InitEditor /\ [][NextEditor]_editor
-----------------------------------------------------------------------------
\* The variables that give a property, read off the command line: not excluded,
\* and the earliest pattern that finds them yields the name.
Eligible == {v \in DOMAIN env : Found(v) # {} /\ \A x \in excludePatterns : ~ StartsWith(v, x)}
Sources(p) == {v \in Eligible : propertyName(v) = p}

\* The value of a property in a file, "none" when it has no such property
Value(f, p) == IF p \in DOMAIN f THEN f[p] ELSE "none"

\* A server whose editor did not throw runs with the values of the environment,
\* however often the container died or the editor failed before, even while the
\* file was being written (run, start_server.sh).
ServesEnvironment ==
  status = "serving" /\ ~ threw =>
    \A v \in Eligible :
      Value(file, propertyName(v)) \in {env[w] : w \in Sources(propertyName(v))}

\* In the file of a server, what no variable names is as in the image: excluded
\* variables add nothing, and nothing is lost by an edit, be it repeated or fail
\* before it writes.  Only if the writing was ever cut short, by a death of the
\* container or by an I/O error, may it be missing, or cut short in its turn;
\* never does it get another value (putAll and the truncation before store).
KeepsTheRest ==
  status = "serving" =>
    \A p \in DOMAIN file \cup DOMAIN Base : Sources(p) = {} =>
      Value(file, p) = Value(Base, p) \/ (torn /\ Value(file, p) \in {"none", "cut"})
=============================================================================
