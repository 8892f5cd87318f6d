---------------------------- MODULE MCRowMirror ----------------------------
\* One mirrored table, another of the same name in another database, and the
\* first and third column kept, as in the README's configuration without Sname.
EXTENDS RowMirror

Student == [db |-> <<"school">>, name |-> <<"student">>]
Archive == [db |-> <<"archive">>, name |-> <<"student">>]
MCTables == {Student, Archive}
MCRowValues == {<<"Ann", "f">>, <<"Bob", Null>>}
MCInitialSchema == <<"int", "varchar", "varchar">>
MCInitialRows == {[k \in Keys |-> IF k = "1" THEN <<"Ann", "f">> ELSE NoRow]}
MCSchemas == {<<"int", "varchar", "varchar">>, <<"int", "text", "varchar", "int">>}
DecimalSchema == <<"int", "decimal", "varchar">>
DecimalSchemas == {DecimalSchema}

\* Items for a table that came before, and were replaced below in the file.
MCFilterItems ==
    <<[db |-> Student.db, table |-> Student.name, reserve |-> <<[index |-> 2, name |-> "Sname"]>>],
      [db |-> Student.db, table |-> Student.name,
       reserve |-> <<[index |-> 3, name |-> "Sdept"], [index |-> 1, name |-> "Sno"],
                     [index |-> 3, name |-> "Ssex"]>>]>>
MCImportItems ==
    LET Item(prefix, field) == [db_table |-> DbTable(Student.db, Student.name),
                                prefix |-> <<prefix>>, key |-> "Sno", values |-> {field}]
    IN <<Item("s_", "Sname"), Item("student_", "Ssex")>>

\* The configurations meet what the theorems about RowMirror ask of them.
ASSUME MCWellConfigured == NamesApart /\ ColumnsExist /\ KeysApart
ASSUME MCNothingFails == MCSchemas = Schemas => NothingFails
=============================================================================
