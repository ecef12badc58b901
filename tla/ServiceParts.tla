---------------------------- MODULE ServiceParts ----------------------------
(* Texts: edits of files, the rows of a history on their way into a request, and the parameters
   of tools, with the values they are checked with, beside the parts of CoreParts. *)
EXTENDS CoreParts

VARIABLES
  file, edit,                                                  \* EditText
  history,                                                     \* RequestPacking
  declared, json, stage, offered                               \* ToolSchema

serviceVars == <<file, edit, history, declared, json, stage, offered>>

\* Files of three characters: a letter, a blank, and line ends of both kinds.
Text == INSTANCE EditText WITH
  Char <- {"n", "r", "s", "a"}, MaxContent <- 3, MaxOld <- 3, New <- {<<"b">>, <<"b", "n", "b">>}
Packing == INSTANCE RequestPacking WITH CallIds <- {1, 2}, MaxCalls <- 2, MaxRows <- 3
\* Tools of two parameters at most, which may require a third.
Schemas == INSTANCE ToolSchema WITH
  sent <- declared, node <- json, shown <- offered,
  Name <- {"n", "m"}, Unknown <- "z"

Services == {"text", "packing", "schema"}

ServiceInit ==
  /\ IF part = "text" THEN Text!Init ELSE file = 0 /\ edit = 0
  /\ IF part = "packing" THEN Packing!Init ELSE history = 0
  /\ IF part = "schema" THEN Schemas!Init
     ELSE declared = 0 /\ json = 0 /\ stage = 0 /\ offered = 0

ServiceNext ==
  /\ IF part = "text" THEN Text!Next ELSE UNCHANGED <<file, edit>>
  /\ IF part = "packing" THEN Packing!Next ELSE UNCHANGED history
  /\ IF part = "schema" THEN Schemas!Next ELSE UNCHANGED <<declared, json, stage, offered>>

(* Properties: what each is about is said where its module states it. -------*)

ServiceTypesOK ==
  /\ part = "text" => Text!TypeOK
  /\ part = "packing" => Packing!TypeOK
  /\ part = "schema" => Schemas!TypeOK

\* An edit puts its text in the place of one run of characters and keeps the line ends of
\* the file; a model's definition is read back and billed as it was saved
\* (file/edit/fuzzy.rs, textutil.rs, provider/admin/serialize.rs, api/config/providers.rs).
TextsAreTrue ==
  /\ part = "text" => Text!OneRunReplaced /\ Text!LineEndsKept
  /\ part = "conf" => Conf!SavedIsRead

\* A request holds every row in the form its protocol accepts, and a model is shown the
\* parameters of a server's tool as the server declared them
\* (anthropic/request.rs, provider.rs, mcp/schema.rs).
RequestsAreWhole ==
  /\ part = "packing" => Packing!AnthropicAccepts /\ Packing!NothingLost /\ Packing!OpenAIAccepts
  /\ part = "schema" => Schemas!ShownAsDeclared /\ Schemas!RefsLead
=============================================================================
