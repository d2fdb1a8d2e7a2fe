----------------------------- MODULE MCAgentTurn -----------------------------
EXTENDS AgentTurn

Call(tool, args) == [tool |-> tool, args |-> args]
Find == Call("find_records", <<"table", "filter">>)
Create == Call("create_records", <<"table", "data">>)
Details == Call("get_table_details", <<>>)
Empty == Call("create_records", <<>>)
Alien == Call("drop_database", <<"name">>)

Made(how, calls) == [how |-> how, calls |-> calls]
MCAnswers ==
  {Made("new", calls) : calls \in {<<>>, <<Find>>, <<Create>>, <<Find, Create>>, <<Create, Find>>,
                                   <<Details, Details>>, <<Empty, Find>>, <<Alien>>, <<Find, Alien>>}}
    \cup {Made("again", calls) : calls \in {<<Find>>, <<Create>>, <<Find, Alien>>, <<Create, Find>>}}
    \cup {Made("text", calls) : calls \in {<<Create>>, <<Find, Create>>}}
=============================================================================
