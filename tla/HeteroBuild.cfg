\* Three families of inputs: typings, links under every budget, oddities.
CONSTANTS
    filing = filing
    form = form
    month = month
    other = other
    widget = widget
    thing = thing
    type = type
    label = label
    p1 = p1
    p1b = p1b
    p2 = p2
    q = q
    num = num
    v1 = v1
    v2 = v2
    Uri <- Four
    TypeUri = {filing, form, month, other, widget, thing}
    RdfType = type
    Meta = {thing}
    NodeTypeOf <- Names
    Pinned <- MonthOnly
    Temporal = {3}
    Sector = {}
    UnknownType = {5}
    Predicate = {type, label, p1, p1b, p2, q, num}
    ExcludedEdge = {type, label}
    RelationOf <- Relations
    UnknownRelation = {5}
    Literal = {v1, v2}
    Numeric = {num}
    Featured = {3}
    Trimmed = {4}
    Inputs <- Builds
SPECIFICATION Spec
INVARIANTS
    RowsAreEntities
    GraphIsTheTriples
    RowsBelong
    SchemaIsTrue
    CollectsAreBounded
    NoSubclassShard
PROPERTIES
    StepsAdvance
