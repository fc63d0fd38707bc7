----------------------------- MODULE MCDocuments -----------------------------
(***************************************************************************)
(* Small limits and short texts, and the datasets of the modules extended. *)
(***************************************************************************)
EXTENDS MCComposites, MCEligibility, MCNotice, MCPanels

MCLimits == [wire |-> 8, rowsPerSheet |-> 2, rows |-> 5, cells |-> 14, text |-> 16,
             sheets |-> 4, columns |-> 2, cell |-> 2]

-----------------------------------------------------------------------------
(* Workbooks *)

Rows(columns, n, size) == [i \in 1..n |-> [c \in 1..columns |-> size]]

MCTables ==
    {[columns |-> c, rows |-> Rows(c, n, size)] : c \in {1, 2}, n \in 0..5, size \in {1, 2}}
      \cup {[columns |-> c, rows |-> Rows(c, 1, 1)] : c \in {0, 3}}
      \cup {[columns |-> 2, rows |-> <<<<1, 1>>, row>>] :
               row \in {<<1>>, <<1, Control>>, <<3, 1>>}}

MCBooks ==
    {[version |-> v, template |-> "pinned", content |-> "admitted",
      layout |-> "pinned", wire |-> 8, tables |-> tables] :
        v \in {"v1", "v9"},
        tables \in {<<>>} \cup {<<t>> : t \in MCTables}
                     \cup {<<t, u>> : t, u \in {t \in MCTables : t.columns \in 1..2
                                                 /\ Len(t.rows) \in 1..4}}}
      \cup [version : {"v1", "v9"}, wire : {1, 9}, template : {"pinned", "changed"},
            content : {"admitted", "conflict"}, layout : {"pinned", "mismatch"},
            tables : {<<[columns |-> 1, rows |-> <<<<1>>>>]>>}]

-----------------------------------------------------------------------------
(* Texts and numbers *)

Texts == UNION {[1..n -> {"p", "q"}] : n \in 0..11}

Numbers ==
    [decimal : [digits : -26..26, exponent : -1..3], places : 0..2,
     percent : BOOLEAN]

Magnitudes == [magnitude : -3..12, percent : BOOLEAN]

Bytes == UNION {[1..n -> {0, 1}] : n \in 0..2}

-----------------------------------------------------------------------------
(* Contents: a table of two rows of a text and a figure, and up to two of  *)
(* the ways its identities go wrong                                        *)

Decimal(digits, exponent) == [digits |-> digits, exponent |-> exponent]
Available(value) == [value |-> value, availability |-> "AVAILABLE", reasons |-> {}]
Unavailable == [value |-> Null, availability |-> "UNAVAILABLE", reasons |-> {"NOT_CAPTURED"}]

Column(id, type, unit, display, places) ==
    [id |-> id, type |-> type, unit |-> unit, display |-> display, places |-> places,
     percent |-> display \in {"PERCENT", "PERCENTAGE_POINTS"},
     currency |-> IF type = "MONEY" THEN "CHF" ELSE NoCurrency]

FigureColumns ==
    {Column("figure", type[1], type[2], type[3], places) :
        type \in {<<"DECIMAL_RETURN", "DECIMAL_RATIO", "PERCENT">>,
                  <<"DECIMAL_RETURN", "DECIMAL_RATIO", "PERCENTAGE_POINTS">>,
                  <<"DECIMAL_RETURN", "DECIMAL_RATIO", "DECIMAL_RATIO">>,
                  <<"DECIMAL_FACTOR", "DECIMAL_RATIO", "DECIMAL_RATIO">>,
                  <<"DECIMAL_FACTOR", "DECIMAL_RATIO", "PERCENT">>,
                  <<"MONEY", "CURRENCY_UNITS", "CURRENCY_UNITS">>,
                  <<"MONEY", "CURRENCY_UNITS", "PERCENT">>,
                  <<"COUNT", "PORTFOLIO_COUNT", "PORTFOLIO_COUNT">>,
                  <<"COUNT", "EVENT_COUNT", "EVENT_COUNT">>,
                  <<"COUNT", "PERIOD_COUNT", "PERIOD_COUNT">>},
        places \in {NoPlaces, 0, 2, 4}}

ContentBase(column, value) ==
    LET text == Column("text", "TEXT", "TEXT", "TEXT", NoPlaces)
        Row(id, cell) == [id |-> id, cells |-> [text |-> Available([text |-> "x"]), figure |-> cell]]
    IN  [id |-> "t1", columns |-> <<text, column>>,
         rows |-> <<Row("r1", Available(value)), Row("r2", Unavailable)>>]

ContentEdit(tables, edit) ==
    CASE edit = "table"  -> [tables EXCEPT ![2].id = "t1"]
      [] edit = "row"    -> [tables EXCEPT ![1].rows[2].id = "r1"]
      [] edit = "column" -> [tables EXCEPT ![1].columns[1].id = "figure"]
      [] edit = "null"   -> [tables EXCEPT ![1].rows[1].cells["figure"].value = Null]
      [] edit = "valued" -> [tables EXCEPT ![2].rows[2].cells["text"].availability = "UNKNOWN"]

Contents ==
    ({"v1", "v3", "v4", "v5", "v6"} \X FigureColumns
        \X [digits : {-15, 0, 15, 149}, exponent : {-1, 0, 3}] \X {{}})
      \cup ({"v1"} \X {Column("figure", "COUNT", "PORTFOLIO_COUNT", "PORTFOLIO_COUNT", 0)}
              \X {Decimal(7, 0)} \X Edits({"table", "row", "column", "null", "valued"}))

ContentOf(code) ==
    LET table == ContentBase(code[2], code[3])
    IN  [version |-> code[1], currency |-> "CHF", text |-> <<"p", "q", "p", "p">>,
         tables |-> Edited(<<table, [table EXCEPT !.id = "t2"]>>, code[4], ContentEdit)]

-----------------------------------------------------------------------------
\* The input that a pair of a kind and its description is.
MCSample(pair) ==
    LET kind == pair[1]
        code == pair[2]
    IN  CASE kind = "returns"     -> DatasetOf(code)
          [] kind = "linked"      -> LinkedOf(code)
          [] kind = "pooled"      -> PooledOf(code)
          [] kind = "context"     -> ContextOf(code)
          [] kind = "eligibility" -> EligibilityOf(code)
          [] kind = "notice"      -> NoticeOf(code)
          [] kind = "content"     -> ContentOf(code)
          [] OTHER                -> code

MCInputs ==
    ({"text"} \X Texts) \cup ({"number"} \X Numbers)
      \cup ({"magnitude"} \X Magnitudes)
      \cup ({"members"} \X (Bytes \X Bytes \X Bytes \X Bytes))
      \cup ({"returns"} \X ReviewDatasets) \cup ({"context"} \X ContextDatasets)
      \cup ({"eligibility"} \X EligibilityDatasets) \cup ({"linked"} \X LinkedDatasets)
      \cup ({"pooled"} \X PooledDatasets) \cup ({"body"} \X Bodies)
      \cup ({"content"} \X Contents)
      \cup ({"review"} \X MCReviewPackages) \cup ({"subjects"} \X DataOfSubjects)
      \cup ({"groups"} \X MCRows) \cup ({"series"} \X MCSeries)
      \cup ({"bridge"} \X MCBridges) \cup ({"risk"} \X MCRiskSets)
      \cup ({"trend"} \X MCTrends) \cup ({"drawdown"} \X MCDrawdowns)
      \cup ({"notice"} \X NoticeDatasets) \cup ({"posture"} \X Postures)

=============================================================================
