----------------------------- MODULE DataGraph -----------------------------
(***************************************************************************)
(* The data graph of the architecture screen (S5 of apps/frontend/app.js): *)
(* tables and the joins between them, of which one may be selected and one *)
(* hovered, filters that dim, and one pointer that clicks or drags.  The   *)
(* screen is shown and the graph is drawn; positions are left out.         *)
(***************************************************************************)
CONSTANTS Table, Joins,        \* nodes, and the pairs that adjacency holds
          Layer, LayerOf, Domain, DomainOf,
          NoTable, AllDomains

ASSUME JoinsAssumption ==
    /\ Joins \subseteq Table \X Table
    /\ \A j \in Joins : <<j[2], j[1]>> \in Joins
ASSUME FiltersAssumption ==
    /\ LayerOf \in [Table -> Layer] /\ DomainOf \in [Table -> Domain]
    /\ NoTable \notin Table /\ AllDomains \notin Domain
ASSUME PlacesAssumption == {"up", "ground", "outside"} \cap Table = {}

VARIABLES pressed,   \* where the pointer went down: a table, the ground, outside
          captured,  \* the surface has captured the pointer
          pending, dragging, swallowNextClick,
          selectedId, hoveredId, domainFilter, hiddenLayers,
          emphasis,  \* the classes on the tables and joins
          detail     \* the table the panel describes

pointerVars == <<pressed, captured, pending, dragging, swallowNextClick>>
filterVars == <<domainFilter, hiddenLayers>>
dataGraphVars == <<pointerVars, filterVars, selectedId, hoveredId, emphasis, detail>>

\* isFiltered.
Filtered(t, domain, hidden) ==
    LayerOf[t] \in hidden \/ domain \notin {AllDomains, DomainOf[t]}

\* applyEmphasis: what is hovered, or else selected, unless a filter dims it.
Emphasis(selected, hovered, domain, hidden) ==
    LET wanted == IF hovered # NoTable THEN hovered ELSE selected
        focus  == IF wanted # NoTable /\ Filtered(wanted, domain, hidden)
                  THEN NoTable ELSE wanted
        near   == {t \in Table : t = focus \/ <<focus, t>> \in Joins}
        dimmed == {t \in Table : Filtered(t, domain, hidden)}
    IN  [chosen |-> selected,
         named  |-> near,
         dim    |-> dimmed \cup (IF focus = NoTable THEN {} ELSE Table \ near),
         hot    |-> {j \in Joins : focus \in {j[1], j[2]} /\ {j[1], j[2]} \cap dimmed = {}}]

DataGraphInit ==
    /\ pressed = "up" /\ captured = FALSE
    /\ pending = NoTable /\ dragging = NoTable /\ swallowNextClick = FALSE
    /\ selectedId = NoTable /\ hoveredId = NoTable
    /\ domainFilter = AllDomains /\ hiddenLayers = {}
    /\ emphasis = Emphasis(NoTable, NoTable, AllDomains, {})
    /\ detail = NoTable

Toggled(t) == IF selectedId = t THEN NoTable ELSE t

\* applyEmphasis, which every handler that needs it calls last.
Repaint ==
    emphasis' = Emphasis(selectedId', hoveredId', domainFilter', hiddenLayers')

\* selectNode, with renderDetail.
Select(t) ==
    /\ selectedId' = t /\ detail' = t
    /\ UNCHANGED <<hoveredId, filterVars>>
    /\ Repaint

Untouched == UNCHANGED <<filterVars, selectedId, hoveredId, emphasis, detail>>

-----------------------------------------------------------------------------
\* pointerdown: only a table has a listener.
Press(where) ==
    /\ pressed = "up"
    /\ pressed' = where
    /\ pending' = IF where \in Table THEN where ELSE pending
    /\ UNCHANGED <<captured, dragging, swallowNextClick>> /\ Untouched

\* pointermove by at least the threshold; a pointer that is up cannot be captured.
Move ==
    /\ pending # NoTable /\ dragging = NoTable
    /\ dragging' = pending
    /\ captured' = (pressed # "up")
    /\ UNCHANGED <<pressed, pending, swallowNextClick>> /\ Untouched

Gesture == pending # NoTable \/ dragging # NoTable

\* What release() does to the selection.
Chosen == IF Gesture /\ dragging = NoTable THEN Toggled(pending) ELSE selectedId

ReleaseWithoutSwallow ==    \* a bug: the click that follows a drag deselects
    /\ pressed # "up"
    /\ pressed' = "up" /\ captured' = FALSE
    /\ pending' = NoTable /\ dragging' = NoTable
    /\ swallowNextClick' = FALSE
    /\ Select(IF pressed = "outside" \/ swallowNextClick \/ pending # dragging
              THEN Chosen ELSE NoTable)

\* pointerup on the surface, and the click on it that follows if the pointer went
\* down on it too: it deselects, unless it is swallowed.
Release ==
    LET swallow == Gesture \/ swallowNextClick IN
    /\ pressed # "up"
    /\ pressed' = "up" /\ captured' = FALSE
    /\ pending' = NoTable /\ dragging' = NoTable
    /\ swallowNextClick' = (swallow /\ pressed = "outside")
    /\ Select(IF swallow \/ pressed = "outside" THEN Chosen ELSE NoTable)

\* pointerup elsewhere: the surface does not hear of it, unless it has the capture.
ReleaseElsewhere ==
    /\ pressed # "up" /\ ~captured
    /\ pressed' = "up"
    /\ UNCHANGED <<captured, pending, dragging, swallowNextClick>> /\ Untouched

\* pointercancel: release(), and no click.
Cancel ==
    /\ pressed \notin {"up", "outside"}
    /\ pressed' = "up" /\ captured' = FALSE
    /\ pending' = NoTable /\ dragging' = NoTable
    /\ swallowNextClick' = (swallowNextClick \/ Gesture)
    /\ Select(Chosen)

\* mouseenter and mouseleave of a table.
Hover(t) ==
    /\ hoveredId' = t
    /\ UNCHANGED <<pointerVars, filterVars, selectedId, detail>>
    /\ Repaint

\* A row of the panel's joins.
Jump(t) == <<detail, t>> \in Joins /\ Select(Toggled(t)) /\ UNCHANGED pointerVars

Dropped == selectedId # NoTable /\ Filtered(selectedId, domainFilter', hiddenLayers')

\* A new filter drops the selection that it dims.
DropFiltered ==
    /\ selectedId' = IF Dropped THEN NoTable ELSE selectedId
    /\ detail' = IF Dropped THEN NoTable ELSE detail
    /\ UNCHANGED <<hoveredId, pointerVars>>

FilterDomain(d) ==
    /\ domainFilter' = d /\ UNCHANGED hiddenLayers
    /\ DropFiltered /\ Repaint

ToggleLayer(l) ==
    /\ hiddenLayers' = (hiddenLayers \cup {l}) \ (hiddenLayers \cap {l})
    /\ UNCHANGED domainFilter
    /\ DropFiltered /\ Repaint

DataGraphNext ==
    \/ \E where \in Table \cup {"ground", "outside"} : Press(where)
    \/ Move \/ Release \/ ReleaseElsewhere \/ Cancel
    \/ \E t \in Table : Jump(t)
    \/ \E t \in Table \cup {NoTable} : Hover(t)
    \/ \E d \in Domain \cup {AllDomains} : FilterDomain(d)
    \/ \E l \in Layer : ToggleLayer(l)

DataGraphSpec == DataGraphInit /\ [][DataGraphNext]_dataGraphVars

-----------------------------------------------------------------------------
DataGraphTypeOK ==
    /\ pressed \in Table \cup {"up", "ground", "outside"}
    /\ captured \in BOOLEAN /\ swallowNextClick \in BOOLEAN
    /\ {pending, dragging, selectedId, hoveredId, detail} \subseteq Table \cup {NoTable}
    /\ domainFilter \in Domain \cup {AllDomains} /\ hiddenLayers \subseteq Layer

\* The classes on the tables and joins, and the panel beside them, are those of the
\* present selection, hover and filters, after any sequence of them: "filtering dims
\* rather than removes".
EmphasisIsCurrent ==
    /\ emphasis = Emphasis(selectedId, hoveredId, domainFilter, hiddenLayers)
    /\ detail = selectedId

\* "Below it the press is a request to inspect the table; above it, to move it": the
\* end of a drag leaves the selection alone, the end of a press selects or deselects
\* the table, and the click that follows either undoes neither, even when an earlier
\* gesture was cancelled, or was let go where the surface could not hear it.
ClickOrDrag ==
    [][/\ dragging # NoTable /\ dragging' = NoTable => selectedId' = selectedId
       /\ pending # NoTable /\ dragging = NoTable /\ pending' = NoTable
             => selectedId' = Toggled(pending)]_dataGraphVars
=============================================================================
