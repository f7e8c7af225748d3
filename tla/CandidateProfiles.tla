-------------------------- MODULE CandidateProfiles --------------------------
(***************************************************************************)
(* The profiles of candidates: what HeuristicParser reads in the text of a *)
(* resume (resume/parser.go) and how UpsertCandidate merges it with what   *)
(* earlier resumes said (resume/repository.go).                            *)
(*                                                                         *)
(* A text is a sequence of lines, and a value is the set of its words: {}  *)
(* is the empty value.  Which words, labels and numbers the patterns find  *)
(* in a line is given with the line; which line they take is modelled.     *)
(* Texts are in one language.                                              *)
(***************************************************************************)
EXTENDS Integers, SequencesExt

CONSTANTS
  Candidates,   \* candidate ids
  Lines,        \* lines of resumes
  Texts,        \* the texts that are uploaded
  Entered,      \* name, email and phone of candidates entered by hand
  MaxUploads    \* bound on the number of parsed resumes

Labels == {"name", "company", "title", "location", "education", "skills"}
Fields == Labels \cup {"email", "phone", "months"}

Nothing == [field \in Fields |-> {}]

(* labels: the fields one of whose labels occurs anywhere in the line;     *)
(* value: what follows its colon, "-" for nothing but ornaments; plain:    *)
(* the line itself if it could be a name: without "@" and colon, short,    *)
(* with a letter; years and months as {} or {n}.                           *)
ASSUME ProfileAssumption ==
  /\ \A line \in Lines :
       /\ DOMAIN line = {"labels", "value", "plain", "email", "phone",
                        "years", "months"}
       /\ line.labels \subseteq Labels
       /\ line.years \subseteq Nat
       /\ line.months \subseteq Nat
  /\ Texts \subseteq Seq(Lines)
  /\ \A entered \in Entered : DOMAIN entered = {"name", "email", "phone"}
  /\ MaxUploads \in Nat

VARIABLES
  profiles,   \* candidate -> profile; its domain are the candidates stored
  read,       \* history: candidate -> the texts its profile was made from
  past        \* history: candidate -> the profiles it has had

profileVars == <<profiles, read, past>>

ProfileInit ==
  /\ profiles = [c \in {} |-> Nothing]
  /\ read = [c \in Candidates |-> << >>]
  /\ past = [c \in Candidates |-> {}]
-----------------------------------------------------------------------------
(* The parser *)

First(column) ==
  LET told == {k \in DOMAIN column : column[k] # {}}
  IN IF told = {} THEN {} ELSE column[CHOOSE k \in told : \A j \in told : k <= j]

(* The first line that has the label and a value after the colon; what is  *)
(* left of the value may be nothing.                                       *)
extractLabeledValue(text, label) ==
  First([k \in DOMAIN text |-> IF label \in text[k].labels THEN text[k].value ELSE {}])
    \ {"-"}

(* Years anywhere in the text go before months. *)
extractExperienceMonths(text) ==
  LET years == First([k \in DOMAIN text |-> text[k].years])
      months == First([k \in DOMAIN text |-> text[k].months])
  IN (IF years # {} THEN {y * 12 : y \in years} ELSE months) \ {0}

deriveNameFromEmail(email) == email \ {"@"}

(* The name stands under its label, or is the top line that could be one,  *)
(* or is taken from the email.                                             *)
NameIn(text, email) ==
  LET labeled == extractLabeledValue(text, "name")
      top == First([k \in DOMAIN text |-> text[k].plain])
  IN CASE labeled # {} -> labeled
       [] labeled = {} /\ top # {} -> top
       [] OTHER -> deriveNameFromEmail(email)

mapCoreFields(text) ==
  LET email == First([k \in DOMAIN text |-> text[k].email])
  IN [field \in Fields |->
        CASE field = "name" -> NameIn(text, email)
          [] field = "email" -> email
          [] field = "phone" -> First([k \in DOMAIN text |-> text[k].phone])
          [] field = "months" -> extractExperienceMonths(text)
          [] OTHER -> extractLabeledValue(text, field)]

IsEmpty(parsed) == parsed["name"] = {} /\ parsed["email"] = {} /\ parsed["phone"] = {}
-----------------------------------------------------------------------------
(* The store *)

(* Mutant: what a resume does not say is forgotten. *)
chooseParsed(primary, fallback, default) == IF primary # {} THEN primary ELSE default

chooseValue(primary, fallback, default) ==
  CASE primary # {} -> primary
    [] primary = {} /\ fallback # {} -> fallback
    [] OTHER -> default

Default(field) == IF field = "name" THEN {"Unknown Candidate"} ELSE {}

Store(c, profile) ==
  /\ profiles' = [d \in DOMAIN profiles \cup {c} |-> IF d = c THEN profile ELSE profiles[d]]
  /\ past' = [past EXCEPT ![c] = @ \cup {profile}]

CreateCandidate(c) ==
  /\ c \notin DOMAIN profiles
  /\ \E entered \in Entered :
       Store(c, [field \in Fields |->
                   IF field \in DOMAIN entered
                   THEN chooseValue(entered[field], {}, Default(field)) ELSE {}])
  /\ UNCHANGED read

(* A resume that is parsed for a candidate, a new one if the id is unknown. *)
UpsertCandidate(c, text) ==
  LET parsed == mapCoreFields(text)
      old == IF c \in DOMAIN profiles THEN profiles[c] ELSE Nothing
  IN /\ ~IsEmpty(parsed)
     /\ Cardinality(UNION {{d} \X DOMAIN read[d] : d \in Candidates}) < MaxUploads
     /\ Store(c, [field \in Fields |-> chooseValue(parsed[field], old[field], Default(field))])
     /\ read' = [read EXCEPT ![c] = Append(@, text)]
-----------------------------------------------------------------------------
(* A text is clear about a field if one line has its label, and no other   *)
(* label, and a value; it is silent if nothing in it can be taken for the  *)
(* field.                                                                  *)
ClearLines(text, field) ==
  {k \in DOMAIN text : text[k].labels = {field} /\ text[k].value \ {"-"} # {}}

Clear(text, field) ==
  \E k \in ClearLines(text, field) :
    \A j \in DOMAIN text \ {k} : field \notin text[j].labels

ClearValue(text, field) ==
  (text[CHOOSE k \in ClearLines(text, field) : TRUE].value) \ {"-"}

Silent(text, field) ==
  \A k \in DOMAIN text :
    /\ field \notin text[k].labels
    /\ field = "name" => text[k].plain = {} /\ text[k].email = {}

(* A profile says of a field what the last resume said that was clear      *)
(* about it, however many resumes that do not mention it came after and    *)
(* whatever else they changed (README, Resume pipeline: "Parses core       *)
(* fields into candidate profile").                                        *)
ProfileTellsLastWord ==
  \A c \in DOMAIN profiles, field \in Labels :
    \A k \in DOMAIN read[c] :
      /\ Clear(read[c][k], field)
      /\ \A j \in (k + 1)..Len(read[c]) : Silent(read[c][j], field)
      => profiles[c][field] = ClearValue(read[c][k], field)
=============================================================================
